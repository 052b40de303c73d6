CONSTANTS
  Workers = {w1, w2}
  Main = main
  MaxTasks = 2
  Structured = TRUE
  Uses = {"cancel"}
SPECIFICATION FairSpec
PROPERTY EveryTaskSettles
PROPERTY RunReturns
