\* A task blocked in the pipe for good stands still: no deadlock check.
CONSTANTS
  Workers = {w1, w2}
  Main = main
  MaxTasks = 2
  Structured = TRUE
  Uses = {"cancel"}
  Capacity = 1
  MaxSent = 2
SPECIFICATION PipeSpec
SYMMETRY Symmetry
CHECK_DEADLOCK FALSE
INVARIANTS
  NoForeignCancel
