\* A join times out as the worker finishes; another join follows.
\* The run stands still where the second join waits for ever.
CONSTANTS
  MaxThreads = 1
  MaxWorkers = 1
  MainOps = {"run", "join", "join_timeout"}
  WorkerOps = {}
SPECIFICATION FairSpec
CHECK_DEADLOCK FALSE
PROPERTY JoinReturns
