SPECIFICATION Spec
CONSTANTS
  pull = pull  clean = clean  load = load
  n1 = n1  n2 = n2  x1 = x1  x2 = x2  w1 = w1  w2 = w2
  daily = daily  weekly = weekly
  Public = Public  NoPipeline = NoPipeline  NoWorker = NoWorker  NoExec = NoExec
  Task = {pull, load}
  Enabled = {pull, load}
  CronTask = {pull}
  Requests <- CronThenIncr
  Pipeline = {daily, weekly}
  Target <- MCTarget
  Members <- MCMembers
  Entries <- MCEntries
  Edges <- MCEdges
  Node = {n1}
  Executor = {x1}
  Home <- MCHome
  Worker = {w1}
  MaxClock = 1
  MaxDbErrors = 1
  MaxCrashes = 1
INVARIANTS TypeOK BoundRunsOnce SuccessIsEarned ChildNeedsSuccess
PROPERTIES  SuccessLostToStaleReads
CHECK_DEADLOCK FALSE
