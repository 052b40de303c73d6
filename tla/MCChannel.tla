------------------------------ MODULE MCChannel ------------------------------
\* Three callers share one pipe: enough for a send, a receive and a close or
\* a cancellation to be under way at once.
EXTENDS Channel, TLC

Symmetry == Permutations(Callers)
=============================================================================
