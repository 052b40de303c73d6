\* Any task may await, ask for the result of or cancel any future.  Scripts
\* that wait in a cycle stand still, hence no deadlock check.
CONSTANTS
  Workers = {w1, w2}
  Main = main
  MaxTasks = 2
  Structured = FALSE
  Uses = {"result", "cancel"}
SPECIFICATION Spec
SYMMETRY Symmetry
CHECK_DEADLOCK FALSE
PROPERTY ImplementsFutures
