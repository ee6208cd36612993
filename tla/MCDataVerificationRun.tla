---------------------- MODULE MCDataVerificationRun ----------------------
\* DataVerificationRun for TLC.
EXTENDS DataVerificationRun, TLC
CONSTANTS q1, q2, s1, s2, s3, x1, m1, m2
=============================================================================
