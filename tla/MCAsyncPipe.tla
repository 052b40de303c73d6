----------------------------- MODULE MCAsyncPipe -----------------------------
\* Two workers and two tasks: the entry action creates the first, either may
\* create the second, so a task can help while another one blocks in the pipe.
EXTENDS AsyncPipe, TLC

Symmetry == Permutations(Workers)
=============================================================================
