--------------------------- MODULE MCOramThreads ----------------------------
EXTENDS OramThreads
=============================================================================
