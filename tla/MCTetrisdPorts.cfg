SPECIFICATION DaemonSpec
CONSTANTS
  Daemons = {1, 2}
  Sessions = {1, 2}
  Ports = {1, 2}
  MAX_SESSIONS = 1
  Operators = {"o1"}
  Plans <- MCPlans
CHECK_DEADLOCK FALSE
INVARIANT PortsAgree
