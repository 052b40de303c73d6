\* Handles travel through arguments and globals: helping can deadlock.
CONSTANTS
  Workers = {w1, w2}
  Main = main
  MaxTasks = 3
  Structured = FALSE
  Uses = {}
SPECIFICATION Spec
SYMMETRY Symmetry
CHECK_DEADLOCK FALSE
INVARIANT HelpingNeverDeadlocks
