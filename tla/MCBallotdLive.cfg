SPECIFICATION FairSpec
CONSTANTS
  Accounts <- MCAccounts
  Ids = {1}
  Nonces = {n1}
  NumOptions = 2
  BB_TXN_ATTEMPTS = 2
  Starts <- MCShortStarts
  MaxFaults = 1
  Clients = {c1}
  Account <- MCAccount
  Workers = {1, 2}
  MAX_WORKERS = 1
PROPERTIES OperatorServed Stops
CHECK_DEADLOCK FALSE
