------------------------------ MODULE MCRooms ------------------------------
(* Small instances of Rooms for TLC. *)
EXTENDS Rooms, TLC

(* Sessions are interchangeable, but for whether they may stop draining. *)
Symmetry == Permutations(Blockable) \cup Permutations(Fds \ Blockable)

(* A new room, a room by its number, and numbers no room can be found by:  *)
(* ROOM_NONE and one other.                                                *)
SomeJoinIds == {0, 1, -1, -2}

(* The bounds: one room at a time that can be found; beside rooms that     *)
(* cannot, sessions that score nothing and drain their sockets.            *)
Bounded ==
  /\ Cardinality({i \in Slots : InUse(rooms', i)}) <= 1
  /\ (\E i \in Slots : rooms'[i].id < 0) =>
       /\ wedged' = <<>> /\ Live(clients') \cap Blockable = {}
       /\ \A fd \in Fds : clients'[fd].score = 0

BoundedSpec == ensure_init /\ [][Next /\ Bounded]_vars
=============================================================================
