SPECIFICATION Spec
CONSTANTS
  BOARD_WIDTH = 4
  BOARD_HEIGHT = 7
  BOARD_BUFFER_HEIGHT = 3
  SPAWN_X = 0
  GARBAGE_HOLE_COL = 2
  GRAVITY_TICKS = 2
  QUEUE_LEN = 1
  Games <- MCGames
  MAX_STANDINGS = 3
  Players = {0, 1, 2, 3, 4}
  MaxScore = 2
  Tids = {t1, t2, t3}
  Pages = {p1, p2, p3}
  NoPage = NoPage
  MaxCalls = 2
  Daemons = {1, 2}
  Sessions = {1, 2}
  Ports = {1, 2}
  MAX_SESSIONS = 1
  Operators = {"o1"}
  Plans <- MCPlans
CHECK_DEADLOCK FALSE
INVARIANTS CellsAccounted PiecesKept GenuineTop WinnerTopsStandings GrantsHold NoDeadlock Reachable CleanExit
PROPERTIES LandsWhereShown PiecesLand EveryoneFinishes Stops OrphansEnd
