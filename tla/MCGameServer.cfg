SPECIFICATION ServerSpec
CONSTANTS
  s1 = s1
  s2 = s2
  s3 = s3
  Fds = {s1, s2}
  MAX_SESSIONS = 2
  MAX_ROOMS = 1
  MAX_ROOM_MEMBERS = 2
  MAX_STANDINGS = 2
  WEDGED_MAX = 1
  JoinIds = {1}
  Seeds = {1, 2}
  Blockable = {}
  MaxScore = 0
  MaxJoins = 9
  UP_CAP = 3
  DOWN_CAP = 9
  MaxCmds <- TwoRounds
  MayExit = {}
  MayStall = {}
CHECK_DEADLOCK FALSE
INVARIANTS SessionsInformed SameBoards
