--------------------------- MODULE MCThreadManager ---------------------------
\* Ids are numbers given out in order, so there is no symmetry to exploit.
EXTENDS ThreadManager
=============================================================================
