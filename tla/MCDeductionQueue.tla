-------------------------- MODULE MCDeductionQueue --------------------------
\* DeductionQueue for TLC: a message sent twice and another one.
EXTENDS DeductionQueue, TLC

CONSTANTS k1, k2, c1, c2, c3

MCKeyOf == c1 :> k1 @@ c2 :> k1 @@ c3 :> k2
SoloKeyOf == c1 :> k1
OneKeyOf == c1 :> k1 @@ c2 :> k1
\* The two calls of the repeated message are alike.
Symmetry == Permutations({c1, c2})
=============================================================================
