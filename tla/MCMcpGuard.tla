---------------------------- MODULE MCMcpGuard ----------------------------
\* McpGuard for TLC: two agents with a token each.
EXTENDS McpGuard, TLC
CONSTANTS g1, g2, p1, p2, k1, k2
OneEach == g1 :> k1 @@ g2 :> k2
=============================================================================
