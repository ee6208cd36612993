------------------------- MODULE MCSerialLifecycle -------------------------
\* SerialLifecycle for TLC: two metered calls.
EXTENDS SerialLifecycle, TLC

CONSTANTS c1, c2
=============================================================================
