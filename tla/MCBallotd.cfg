SPECIFICATION Spec
CONSTANTS
  Accounts <- MCAccounts
  Ids = {1}
  Nonces = {n1, n2}
  NumOptions = 2
  BB_TXN_ATTEMPTS = 2
  Starts <- MCStarts
  MaxFaults = 1
  Clients = {c1}
  Account <- MCAccount
  Workers = {1, 2}
  MAX_WORKERS = 2
CHECK_DEADLOCK FALSE
SYMMETRY Symmetric
INVARIANTS OneLiveBallot ReceiptsHold CleanExit
PROPERTIES BallotsFrozen
