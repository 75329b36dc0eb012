SPECIFICATION ClientsSpec
CONSTANTS
  p1 = p1
  p2 = p2
  l1 = l1
  l2 = l2
  l3 = l3
  ann = ann
  Ann = Ann
  bad = bad
  Fold <- FoldNames
  bob = bob
  good = good
  wrong = wrong
  None = None
  Procs = {p1, p2}
  Launchers = {l1, l2, l3}
  Plans <- SomePlans
  MaxAttempts = 2
  DefaultAttempts = 3
  TxnAttempts = 3
  PageSlots = 1
  BodyRows = 2
  t1 = t1
  t2 = t2
  Threads = {t1, t2}
  LogPlans <- SomeLogPlans
  Attempts = 2
  SocketCap = 2
  QueueCap = 2
  RespawnMax = 1
  DrainMax = 1
  ClaimMax = 2
CHECK_DEADLOCK FALSE
INVARIANTS RowsUnique GateHolds ViewConsistent DropsAccounted MirrorAccounted
PROPERTIES DirectoryOwned Answered LogdStops
