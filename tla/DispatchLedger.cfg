SPECIFICATION Spec
CONSTANTS
  pull = pull  clean = clean  load = load
  n1 = n1  n2 = n2  x1 = x1  x2 = x2  w1 = w1  w2 = w2
  daily = daily  weekly = weekly
  Public = Public  NoPipeline = NoPipeline  NoWorker = NoWorker  NoExec = NoExec
  Task = {pull, load}
  Enabled = {pull, load}
  CronTask = {pull}
  Requests <- RunPull
  Pipeline = {daily, weekly}
  Target <- MCTarget
  Members <- MCMembers
  Entries <- MCEntries
  Edges <- MCEdges
  Node = {n1, n2}
  Executor = {x1, x2}
  Home <- MCHome
  Worker = {w1, w2}
  MaxClock = 0
  MaxDbErrors = 0
  MaxCrashes = 1
SYMMETRY Symmetry
INVARIANTS BoundRunsOnce TargetRespected OwnChildTriggered
PROPERTIES ImplementsLedger
CHECK_DEADLOCK FALSE
