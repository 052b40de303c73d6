\* Each part on an instance of its own.  Monitors end when they are removed,
\* runs, programs and loops end, callers may join each other: no deadlock check.
CONSTANTS
  MemNames = {x, y}
  MemMaxId = 3
  MemMaxLen = 1
  MemDepth = 2
  MonIds = {1}
  MonCallers = {c1, c2}
  MonEdits = 2
  LifGlobals = {g}
  LifSeeded = {g}
  LifWorkers = {w}
  LifWrites = 2
  LifDepth = 2
  LifRuns = 2
  DbgLines = {1, 2}
  DbgEdits = 2
  ExpBits = 4
  ExpDepth = 2
  ExpTexts = {"plain"}
  ExpTurns = 3
  MaxThreads = 2
  MaxWorkers = 1
  MainOps = {"run", "detach", "join", "join_timeout", "done", "wait_all", "gc", "gc_all", "remove", "force"}
  WorkerOps = {"wait_all"}
  SerBeyond = {}
  SerMaxCount = 4
  StmAsks = 3
  StmLen = 2
  StmBind = "v"
  StmInit = "set"
  PkgNames = {"a", "b"}
  PkgVersions <- Versions
  PkgWants <- Wants
  PkgEdits = 1
  PkgRuns = 2
  ColSteps <- CallsLeft
  ColMost <- Most
  ColSizes = {0, 2}
  ColValues = {"p", ""}
  ColLetters = {"a", "b", "."}
  ColRows <- Rows
  ColColumns <- Columns
  WebConns = {k1, k2}
  WebMsgs = 2
  PrsSlips = 2
  MirMax = 2
  MirGuard = 150
SPECIFICATION Spec
SYMMETRY Symmetry
CHECK_DEADLOCK FALSE
INVARIANTS
  TypesOK
  OwnersCounted
  StatsConserved
  ThreadsAccounted
  ChangesRecorded
  GlobalsStand
  RunLeavesNothing
  StopsReachEditor
  FoldPreserves
  CompiledLoopAgrees
  ProgramsRoundTrip
  JumpsMeanJumps
  LockCloses
  FetchedImports
  EventsInOrder
  CastsComplete
  ParsesBack
  LinesAnswered
  MachineMeans
  LexedApart
  TablesAreGrids
  CollectionsKeep
  ProgramsAssembled
PROPERTY BreakpointsHonoured
