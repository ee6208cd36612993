----------------------- MODULE MCCopilotSessions -----------------------
\* CopilotSessions for TLC: websockets of one user.
EXTENDS CopilotSessions, TLC
CONSTANTS u1, s1, s2, t1, t2, r1
OneUser == [s \in {s1, s2} |-> u1]
=============================================================================
