SPECIFICATION BoundedSpec
CONSTANTS
  Fds = {s1, s2, s3}
  MAX_SESSIONS = 3
  MAX_ROOMS = 2
  MAX_ROOM_MEMBERS = 3
  MAX_STANDINGS = 2
  WEDGED_MAX = 3
  JoinIds <- SomeJoinIds
  Seeds = {0}
  Blockable = {s1}
  MaxScore = 1
  MaxJoins = 3
SYMMETRY Symmetry
INVARIANTS Membership OneOwner RoundNotStuck RoomsFresh
