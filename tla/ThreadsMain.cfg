\* Only the main thread joins, collects and removes; workers start workers of
\* their own, also while run() is leaving.  The actions of workers end.
CONSTANTS
  MaxThreads = 3
  MaxWorkers = 2
  MainOps = {"run", "join", "done", "wait_all", "gc_all", "remove"}
  WorkerOps = {"run"}
SPECIFICATION FairSpec
INVARIANTS
  HandleOwned
  SafeUntilExit
  ToldMeansFinished
  NoWorkerOutlives
PROPERTY JoinReturns
PROPERTY ExitCompletes
