\* Tasks await only what they created: nothing may ever stand still.
CONSTANTS
  Workers = {w1, w2}
  Main = main
  MaxTasks = 3
  Structured = TRUE
  Uses = {"cancel"}
SPECIFICATION Spec
SYMMETRY Symmetry
INVARIANTS
  HelpingNeverDeadlocks
  RunOnce
  ExitDrained
