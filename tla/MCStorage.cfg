SPECIFICATION Spec
CONSTANTS
  Tids = {t1, t2}
  Pages = {0, 1}
  NoPage = NoPage
  NoTid = NoTid
  MaxCalls = 4
  PoolSize = 1
  SlotsPerPage = 1
  MaxRestarts = 1
CHECK_DEADLOCK FALSE
INVARIANTS UncommittedHeld RecoveryRight
PROPERTIES KeepsPromise
