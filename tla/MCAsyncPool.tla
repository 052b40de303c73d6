----------------------------- MODULE MCAsyncPool -----------------------------
\* The smallest pool the code builds has two workers (max(2, cores)).
EXTENDS AsyncPool, TLC

Symmetry == Permutations(Workers)
=============================================================================
