------------------------- MODULE MCDatasetLifecycle -------------------------
\* DatasetLifecycle for TLC: two files, two workers.
EXTENDS DatasetLifecycle, TLC
CONSTANTS d1, d2, w1, w2, r1, r2
=============================================================================
