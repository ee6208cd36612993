---------------------------- MODULE MCFulfillment ----------------------------
\* Fulfillment for TLC.
EXTENDS Fulfillment, TLC
CONSTANTS d1, d2
=============================================================================
