\* A cancelled task that helped another one waits in the pipe for good.
CONSTANTS
  Workers = {w1, w2}
  Main = main
  MaxTasks = 2
  Structured = TRUE
  Uses = {"cancel"}
  Capacity = 1
  MaxSent = 0
SPECIFICATION FairPipeSpec
CHECK_DEADLOCK FALSE
PROPERTY CancelUnblocks
