----------------------------- MODULE RoomsProofs -----------------------------
(***************************************************************************)
(* The room table is right for every number of sessions, rooms and members *)
(* (module Rooms).  The invariant Inv is stated for any pair of tables and *)
(* shown to be kept by every handler as a state transformer; the actions   *)
(* then follow, whatever the sockets refuse.                               *)
(***************************************************************************)
EXTENDS Rooms, TLAPS

(* The members of a room, as a set. *)
LEMMA RangeBasics ==
  ASSUME NEW s \in Seq(Fds)
  PROVE  /\ Range(s) \subseteq Fds
         /\ s = <<>> <=> Range(s) = {}
         /\ s # <<>> => s[1] \in Range(s)
BY DEF Range

(* A room without members. *)
LEMMA EmptyMembers == Range(<<>>) = {} /\ IsInjective(<<>>) /\ <<>> \in Seq(Fds)
BY DEF Range, IsInjective

(* A member who joins comes last and is there once. *)
LEMMA AppendMember ==
  ASSUME NEW s \in Seq(Fds), NEW fd \in Fds, IsInjective(s), fd \notin Range(s)
  PROVE  /\ Append(s, fd) \in Seq(Fds)
         /\ Range(Append(s, fd)) = Range(s) \cup {fd}
         /\ IsInjective(Append(s, fd))
         /\ Append(s, fd) # <<>>
<1> DEFINE t == Append(s, fd)
<1>1. /\ t \in Seq(Fds) /\ Len(t) = Len(s) + 1 /\ DOMAIN t = 1..(Len(s) + 1)
      /\ DOMAIN s = 1..Len(s) /\ Len(s) \in Nat
      /\ \A k \in 1..Len(s) : t[k] = s[k]
      /\ t[Len(s) + 1] = fd
  OBVIOUS
<1> HIDE DEF t
<1>2. Range(t) = Range(s) \cup {fd}
  BY <1>1 DEF Range
<1>3. IsInjective(t)
  BY <1>1 DEF Range, IsInjective
<1>4. t # <<>>
  BY <1>1
<1> QED BY <1>1, <1>2, <1>3, <1>4 DEF t

(* Swap-removal takes out exactly the member named. *)
LEMMA DelMember ==
  ASSUME NEW s \in Seq(Fds), NEW fd \in Fds, IsInjective(s)
  PROVE  /\ room_del_member(s, fd) \in Seq(Fds)
         /\ Range(room_del_member(s, fd)) = Range(s) \ {fd}
         /\ IsInjective(room_del_member(s, fd))
<1>1. CASE fd \notin Range(s)
  BY <1>1 DEF room_del_member
<1>2. CASE fd \in Range(s)
  <2> DEFINE t == room_del_member(s, fd)
  <2>1. PICK n \in Nat : n = Len(s) /\ DOMAIN s = 1..n OBVIOUS
  <2>2. /\ t = [k \in 1..(n - 1) |-> IF s[k] = fd THEN s[n] ELSE s[k]]
        /\ DOMAIN t = 1..(n - 1)
        /\ \A k \in 1..(n - 1) : t[k] = IF s[k] = fd THEN s[n] ELSE s[k]
    BY <1>2, <2>1 DEF room_del_member
  <2>3. \A k \in 1..n : s[k] \in Fds BY <2>1
  <2>4. \A j, k \in 1..n : s[j] = s[k] => j = k BY <2>1 DEF IsInjective
  <2>5. PICK p \in 1..n : s[p] = fd BY <1>2, <2>1 DEF Range
  <2>6. n \in 1..n /\ \A k \in 1..(n - 1) : k \in 1..n /\ k # n BY <2>1, <2>5
  <2>7. t \in Seq(Fds) BY <2>1, <2>2, <2>3, <2>6
  <2> HIDE DEF t
  <2>8. Range(t) \subseteq Range(s) \ {fd}
    <3> SUFFICES ASSUME NEW k \in 1..(n - 1) PROVE t[k] \in Range(s) \ {fd}
      BY <2>2 DEF Range
    <3>1. CASE s[k] = fd BY <3>1, <2>1, <2>2, <2>4, <2>6, ZenonT(60) DEF Range
    <3>2. CASE s[k] # fd BY <3>2, <2>1, <2>2, <2>6, ZenonT(60) DEF Range
    <3> QED BY <3>1, <3>2
  <2>9. Range(s) \ {fd} \subseteq Range(t)
    <3> SUFFICES ASSUME NEW x \in Range(s), x # fd PROVE \E k \in 1..(n - 1) : t[k] = x
      BY <2>2, ZenonT(60) DEF Range
    <3> PICK j \in 1..n : s[j] = x BY <2>1 DEF Range
    <3>1. CASE j = n
      <4>1. p \in 1..(n - 1) BY <3>1, <2>5
      <4> QED BY <4>1, <3>1, <2>2, <2>5
    <3>2. CASE j # n
      <4>1. j \in 1..(n - 1) BY <3>2
      <4> QED BY <4>1, <2>2
    <3> QED BY <3>1, <3>2
  <2>10. IsInjective(t)
    <3> SUFFICES ASSUME NEW j \in 1..(n - 1), NEW k \in 1..(n - 1), t[j] = t[k] PROVE j = k
      BY <2>2 DEF IsInjective
    <3> QED BY <2>2, <2>4, <2>6
  <2> QED BY <2>7, <2>8, <2>9, <2>10 DEF t
<1> QED BY <1>1, <1>2

-----------------------------------------------------------------------------
(* Lookups. *)

Typed(C, R) == C \in [Fds -> ClientType] /\ R \in [Slots -> RoomType]

Inv(C, R) ==
  Typed(C, R) /\ InSync(C, R) /\ Owned(C, R) /\ Distinct(C, R) /\ CanEnd(C, R)

(* The sessions a room lists, whether it can be found or not. *)
Listed(R, i) == Range(R[i].members)

(* Those of a room that can be found are its members. *)
LEMMA ListedMembers ==
  ASSUME NEW R, NEW i, InUse(R, i)
  PROVE  Members(R, i) = Listed(R, i)
BY DEF Members, Listed

(* Others have none. *)
LEMMA NoMembers ==
  ASSUME NEW R, NEW i, ~InUse(R, i)
  PROVE  Members(R, i) = {}
BY DEF Members

IsState(st) == {"clients", "rooms", "out"} \subseteq DOMAIN st

(* What a session's membership consists of, and what a room's does. *)
SameClients(C, D) ==
  \A fd \in Fds : /\ D[fd].live = C[fd].live /\ D[fd].room_id = C[fd].room_id
                  /\ D[fd].player_id = C[fd].player_id /\ D[fd].is_owner = C[fd].is_owner

SameRooms(R, S) ==
  \A i \in Slots : /\ S[i].id = R[i].id /\ S[i].members = R[i].members
                   /\ S[i].next_player_id = R[i].next_player_id

(* Both are transitive. *)
LEMMA SameClientsTrans ==
  ASSUME NEW C, NEW D, NEW E, SameClients(C, D), SameClients(D, E)
  PROVE  SameClients(C, E)
BY DEF SameClients

(* Rooms that have not changed twice have not changed. *)
LEMMA SameRoomsTrans ==
  ASSUME NEW R, NEW S, NEW T, SameRooms(R, S), SameRooms(S, T)
  PROVE  SameRooms(R, T)
BY DEF SameRooms

(* What the invariant says of types. *)
LEMMA Types ==
  ASSUME NEW C, NEW R, Inv(C, R)
  PROVE  /\ C \in [Fds -> ClientType] /\ R \in [Slots -> RoomType]
         /\ \A fd \in Fds : C[fd].room_id \in Int /\ C[fd].is_owner \in BOOLEAN
         /\ \A i \in Slots : /\ R[i].id \in Int /\ R[i].members \in Seq(Fds)
                             /\ IsInjective(R[i].members) /\ Members(R, i) \subseteq Fds
<1>1. C \in [Fds -> ClientType] /\ R \in [Slots -> RoomType] BY DEF Inv, Typed
<1>2. \A fd \in Fds : C[fd].room_id \in Int /\ C[fd].is_owner \in BOOLEAN
  BY <1>1 DEF ClientType
<1>3. \A i \in Slots : R[i].members \in Seq(Fds) BY <1>1 DEF RoomType
<1>4. \A i \in Slots : Members(R, i) \subseteq Fds BY <1>3, RangeBasics DEF Members
<1>5. \A i \in Slots : R[i].id \in Int /\ IsInjective(R[i].members) BY <1>1 DEF Inv, InSync, RoomType
<1> QED BY <1>1, <1>2, <1>3, <1>4, <1>5

(* A step that moves only phases, scores, boards and rosters has the end   *)
(* of the round alone to answer for.                                       *)
LEMMA SameMembership ==
  ASSUME NEW C, NEW R, NEW D, NEW S, Inv(C, R), Typed(D, S),
         SameClients(C, D), SameRooms(R, S), CanEnd(D, S)
  PROVE  Inv(D, S)
<1> USE DEF SameClients, SameRooms, Members, InUse
<1>2. InSync(D, S) BY DEF Inv, InSync
<1>3. \A i \in Slots : Members(S, i) \subseteq Fds BY RangeBasics DEF Typed, RoomType
<1>4. Owned(D, S) BY <1>3 DEF Inv, Owned
<1>5. Distinct(D, S) BY <1>3 DEF Inv, Distinct
<1> QED BY <1>2, <1>4, <1>5 DEF Inv

(* Rooms that play as before can end as before. *)
LEMMA CanEndKept ==
  ASSUME NEW C, NEW R, NEW D, NEW S, CanEnd(C, R),
         \A j \in Slots : S[j].phase = "PLAYING" /\ InUse(S, j) =>
           /\ R[j].phase = "PLAYING" /\ InUse(R, j) /\ Members(S, j) = Members(R, j)
           /\ \A f \in Members(R, j) : D[f].phase = C[f].phase
  PROVE  CanEnd(D, S)
<1> SUFFICES ASSUME NEW j \in Slots, S[j].phase = "PLAYING", InUse(S, j)
             PROVE  /\ \E f \in Members(S, j) : D[f].phase = "PLAYING"
                    /\ \A f \in Members(S, j) : D[f].phase \in {"PLAYING", "GAME_OVER"}
  BY DEF CanEnd
<1>1. /\ \E f \in Members(R, j) : C[f].phase = "PLAYING"
      /\ \A f \in Members(R, j) : C[f].phase \in {"PLAYING", "GAME_OVER"}
  BY DEF CanEnd
<1> QED BY <1>1

(* A session is in one room. *)
LEMMA OneRoom ==
  ASSUME NEW C, NEW R, Inv(C, R), NEW i \in Slots, NEW j \in Slots, i # j
  PROVE  \A f \in Members(R, i) : f \in Fds /\ f \notin Members(R, j)
<1> SUFFICES ASSUME NEW f \in Members(R, i), f \notin Fds \/ f \in Members(R, j) PROVE FALSE
  OBVIOUS
<1>1. f \in Fds BY Types
<1>2. f \in Members(R, j) BY <1>1
<1>3. InUse(R, i) /\ R[i].id = R[j].id BY <1>1, <1>2 DEF Inv, InSync
<1> QED BY <1>3 DEF Inv, InSync

(* Pushing the roster changes rosters and nothing else. *)
LEMMA PushSessions ==
  ASSUME NEW st, IsState(st), Typed(st.clients, st.rooms), NEW i \in Slots, NEW creator
  PROVE  LET t == room_push_sessions_ex(st, i, creator)
         IN  /\ IsState(t) /\ t.rooms = st.rooms
             /\ t.clients \in [Fds -> ClientType]
             /\ SameClients(st.clients, t.clients)
             /\ \A fd \in Fds : /\ t.clients[fd].phase = st.clients[fd].phase
                                /\ fd \notin Listed(st.rooms, i) =>
                                     t.clients[fd] = st.clients[fd]
<1> DEFINE members == st.rooms[i].members
           roster == Roster(st.clients, members)
           D == [fd \in Fds |-> IF fd \in Range(members)
                                THEN [st.clients[fd] EXCEPT !.roster = roster]
                                ELSE st.clients[fd]]
           t == room_push_sessions_ex(st, i, creator)
<1>1. Range(members) \subseteq Fds BY RangeBasics DEF Typed, RoomType
<1>2. roster \in SUBSET [player_id : Nat, is_owner : BOOLEAN]
  BY <1>1 DEF Roster, TopRows, Typed, ClientType
<1>3. IsState(t) /\ t.rooms = st.rooms /\ t.clients = D
  BY DEF IsState, room_push_sessions_ex, room_broadcast
<1> HIDE DEF roster
<1>4. D \in [Fds -> ClientType] BY <1>2 DEF Typed, ClientType
<1> QED BY <1>3, <1>4, ZenonT(60) DEF SameClients, Listed, Typed, ClientType

(* A room whose standings were sent is still a room. *)
LEMMA PublishedType ==
  ASSUME NEW C \in [Fds -> ClientType], NEW r \in RoomType
  PROVE  Published(C, r) \in RoomType
<1>1. Range(r.members) \subseteq Fds BY RangeBasics DEF RoomType
<1>2. Standings(C, r.members) \in SUBSET [player_id : Nat, score : Nat, game_over : BOOLEAN]
  <2> SUFFICES ASSUME NEW x \in Standings(C, r.members)
               PROVE  x \in [player_id : Nat, score : Nat, game_over : BOOLEAN]
    OBVIOUS
  <2> PICK fd \in Range(r.members) :
        x = [player_id |-> C[fd].player_id, score |-> C[fd].score,
             game_over |-> C[fd].phase = "GAME_OVER"]
    BY SMTT(60) DEF Standings, TopRows
  <2> QED BY <1>1 DEF ClientType
<1> QED BY <1>2, ZenonT(60) DEF Published, RoomType

(* The end of a round resets phases and scores of the room's members; if   *)
(* the room still plays afterwards, nothing happened.                      *)
LEMMA CheckRoundEnd ==
  ASSUME NEW st, IsState(st), Typed(st.clients, st.rooms), NEW i \in Slots
  PROVE  LET t == room_check_round_end(st, i)
         IN  /\ IsState(t) /\ Typed(t.clients, t.rooms)
             /\ SameClients(st.clients, t.clients) /\ SameRooms(st.rooms, t.rooms)
             /\ \A j \in Slots \ {i} : t.rooms[j] = st.rooms[j]
             /\ \A fd \in Fds \ Listed(st.rooms, i) : t.clients[fd] = st.clients[fd]
             /\ t.rooms[i].phase = "PLAYING" =>
                  t = st /\ ~RoundOver(st.clients, st.rooms[i])
<1> DEFINE r == st.rooms[i]
           t == room_check_round_end(st, i)
           D == [fd \in Fds |-> IF fd \in Range(r.members)
                                THEN [st.clients[fd] EXCEPT !.phase = "WAITING", !.score = 0]
                                ELSE st.clients[fd]]
           q == [Published(st.clients, r) EXCEPT !.phase = "WAITING"]
<1>1. CASE ~RoundOver(st.clients, r)
  <2>1. t = st BY <1>1, ZenonT(60) DEF room_check_round_end
  <2> QED BY <1>1, <2>1 DEF SameClients, SameRooms
<1>2. CASE RoundOver(st.clients, r)
  <2>1. IsState(t) /\ t.clients = D /\ t.rooms = [st.rooms EXCEPT ![i] = q]
    BY <1>2, ZenonT(60) DEF IsState, room_check_round_end
  <2>2. q \in RoomType /\ q.id = r.id /\ q.members = r.members
        /\ q.next_player_id = r.next_player_id /\ q.phase = "WAITING"
    <3>1. r \in RoomType /\ Published(st.clients, r) \in RoomType
      BY PublishedType DEF Typed
    <3>2. /\ Published(st.clients, r).id = r.id
          /\ Published(st.clients, r).members = r.members
          /\ Published(st.clients, r).next_player_id = r.next_player_id
      BY <3>1 DEF Published, RoomType
    <3> QED BY <3>1, <3>2, SMTT(60) DEF RoomType
  <2>3. D \in [Fds -> ClientType] BY ZenonT(60) DEF Typed, ClientType, Phases
  <2>4. SameClients(st.clients, D) /\ \A fd \in Fds \ Listed(st.rooms, i) : D[fd] = st.clients[fd]
    BY DEF Typed, ClientType, SameClients, Listed
  <2> HIDE DEF D, q
  <2>5. /\ Typed(D, t.rooms) /\ SameRooms(st.rooms, t.rooms)
        /\ t.rooms[i].phase = "WAITING"
        /\ \A j \in Slots \ {i} : t.rooms[j] = st.rooms[j]
    BY <2>1, <2>2, <2>3 DEF Typed, SameRooms
  <2> QED BY <2>1, <2>4, <2>5
<1> QED BY <1>1, <1>2, SMTT(60)

(* The slot of a closed connection. *)
LEMMA NoClientType ==
  /\ NoClient \in ClientType /\ NoClient.room_id = ROOM_NONE
  /\ ~NoClient.is_owner /\ ~NoClient.live
BY DEF NoClient, ClientType, Phases, ROOM_NONE

(* The slot of a room that is gone. *)
LEMMA FreeRoomType ==
  /\ FreeRoom \in RoomType /\ FreeRoom.id = 0 /\ FreeRoom.members = <<>>
  /\ FreeRoom.phase = "WAITING"
BY EmptyMembers DEF FreeRoom, RoomType

(* room_mark_standings_dirty leaves members, ids and phase alone. *)
LEMMA MarkDirty ==
  ASSUME NEW r \in RoomType
  PROVE  LET q == room_mark_standings_dirty(r)
         IN  /\ q \in RoomType /\ q.id = r.id /\ q.members = r.members
             /\ q.next_player_id = r.next_player_id /\ q.phase = r.phase
BY ZenonT(60) DEF room_mark_standings_dirty, RoomType

(* Promoting the first member changes who is the owner and nothing else. *)
LEMMA PromoteEffect ==
  ASSUME NEW C \in [Fds -> ClientType], NEW members \in Seq(Fds), members # <<>>,
         NEW was_owner \in BOOLEAN
  PROVE  LET D == Promote(C, members, was_owner)
         IN  /\ D \in [Fds -> ClientType]
             /\ \A fd \in Fds : /\ D[fd].live = C[fd].live /\ D[fd].room_id = C[fd].room_id
                                /\ D[fd].player_id = C[fd].player_id
                                /\ D[fd].phase = C[fd].phase
                                /\ D[fd].is_owner <=>
                                     C[fd].is_owner \/ (was_owner /\ fd = members[1])
                                /\ fd # members[1] => D[fd] = C[fd]
<1> members[1] \in Fds BY RangeBasics
<1>1. CASE was_owner BY <1>1, ZenonT(60) DEF Promote, ClientType
<1>2. CASE ~was_owner BY <1>2 DEF Promote, ClientType
<1> QED BY <1>1, <1>2

(* What a departure leaves of the room: freed if empty; otherwise the same *)
(* members, the first of them promoted if the owner left, and a round that *)
(* goes on only if somebody still plays.                                   *)
Departed(st, i, was_owner, t) ==
  LET r == st.rooms[i]
  IN  /\ IsState(t) /\ Typed(t.clients, t.rooms)
      /\ \A j \in Slots \ {i} : t.rooms[j] = st.rooms[j]
      /\ \A fd \in Fds \ Listed(st.rooms, i) : t.clients[fd] = st.clients[fd]
      /\ r.members = <<>> => t.rooms[i] = FreeRoom
      /\ r.members # <<>> =>
           /\ t.rooms[i].id = r.id /\ t.rooms[i].members = r.members
           /\ t.rooms[i].next_player_id = r.next_player_id
           /\ \A fd \in Fds :
                /\ t.clients[fd].live = st.clients[fd].live
                /\ t.clients[fd].room_id = st.clients[fd].room_id
                /\ t.clients[fd].player_id = st.clients[fd].player_id
                /\ t.clients[fd].is_owner <=>
                     st.clients[fd].is_owner \/ (was_owner /\ fd = r.members[1])
           /\ t.rooms[i].phase = "PLAYING" =>
                /\ r.phase = "PLAYING"
                /\ \A fd \in Fds : t.clients[fd].phase = st.clients[fd].phase
                /\ \E fd \in Listed(st.rooms, i) : st.clients[fd].phase # "GAME_OVER"

(* What is left of a room after a member has gone. *)
LEMMA DepartureEffect ==
  ASSUME NEW st, IsState(st), Typed(st.clients, st.rooms), NEW i \in Slots,
         NEW was_owner \in BOOLEAN
  PROVE  Departed(st, i, was_owner, AfterDeparture(st, i, was_owner))
<1> DEFINE r == st.rooms[i]
           t == AfterDeparture(st, i, was_owner)
           D == Promote(st.clients, r.members, was_owner)
           p == [st EXCEPT !.clients = D]
           m == [p EXCEPT !.rooms[i] = room_mark_standings_dirty(@)]
<1> SUFFICES Departed(st, i, was_owner, t) OBVIOUS
<1>0. r \in RoomType /\ r.members \in Seq(Fds) /\ st.rooms \in [Slots -> RoomType]
      /\ st.clients \in [Fds -> ClientType]
  BY DEF Typed, RoomType
<1>1. CASE r.members = <<>>
  <2>1. t = [st EXCEPT !.rooms[i] = FreeRoom] BY <1>1 DEF AfterDeparture
  <2>2. IsState(t) /\ t.clients = st.clients /\ t.rooms = [st.rooms EXCEPT ![i] = FreeRoom]
    BY <2>1, <1>0 DEF IsState
  <2> HIDE DEF t
  <2> QED BY <1>0, <1>1, <2>2, FreeRoomType DEF Typed, Departed
<1>2. CASE r.members # <<>>
  <2>1. /\ D \in [Fds -> ClientType]
        /\ \A fd \in Fds : /\ D[fd].live = st.clients[fd].live
                           /\ D[fd].room_id = st.clients[fd].room_id
                           /\ D[fd].player_id = st.clients[fd].player_id
                           /\ D[fd].phase = st.clients[fd].phase
                           /\ D[fd].is_owner <=> st.clients[fd].is_owner \/ (was_owner /\ fd = r.members[1])
                           /\ fd # r.members[1] => D[fd] = st.clients[fd]
    BY <1>0, <1>2, PromoteEffect, SMTT(60)
  <2>2. \A fd \in Fds \ Listed(st.rooms, i) : D[fd] = st.clients[fd]
    BY <2>1, <1>0, <1>2, RangeBasics DEF Listed
  <2> HIDE DEF D
  <2>3. IsState(p) /\ p.clients = D /\ p.rooms = st.rooms BY DEF IsState
  <2>4. /\ IsState(m) /\ m.clients = D
        /\ m.rooms = [st.rooms EXCEPT ![i] = room_mark_standings_dirty(r)]
    BY <1>0 DEF IsState
  <2>5. Typed(p.clients, p.rooms) BY <2>1, <2>3, <1>0, ZenonT(60) DEF Typed
  <2>6. CASE RoundOver(D, r)
    <3> DEFINE e == room_check_round_end(p, i)
    <3>1. t = room_push_sessions_ex(e, i, -1)
      BY <1>2, <2>6, <2>3, SMTT(60) DEF AfterDeparture, D
    <3> HIDE DEF p
    <3>2. /\ IsState(e) /\ Typed(e.clients, e.rooms)
          /\ SameClients(D, e.clients) /\ SameRooms(st.rooms, e.rooms)
          /\ \A j \in Slots \ {i} : e.rooms[j] = st.rooms[j]
          /\ \A fd \in Fds \ Listed(st.rooms, i) : e.clients[fd] = D[fd]
          /\ e.rooms[i].phase # "PLAYING"
      BY <2>3, <2>5, <2>6, CheckRoundEnd, SMTT(60)
    <3>3. Listed(e.rooms, i) = Listed(st.rooms, i) BY <3>2, SMTT(60) DEF SameRooms, Listed
    <3> HIDE DEF e
    <3>4. /\ IsState(t) /\ t.rooms = e.rooms /\ t.clients \in [Fds -> ClientType]
          /\ SameClients(e.clients, t.clients)
          /\ \A fd \in Fds \ Listed(st.rooms, i) : t.clients[fd] = e.clients[fd]
      BY <3>1, <3>2, <3>3, PushSessions, SMTT(60)
    <3> HIDE DEF t
    <3> QED BY <1>2, <2>1, <2>2, <3>2, <3>4, SMTT(60) DEF SameClients, SameRooms, Typed, Departed
  <2>7. CASE ~RoundOver(D, r)
    <3>1. t = room_push_sessions_ex(m, i, -1)
      BY <1>2, <2>7, <2>3, SMTT(60) DEF AfterDeparture, D
    <3>2. /\ Typed(m.clients, m.rooms) /\ m.rooms[i].phase = r.phase
          /\ SameRooms(st.rooms, m.rooms) /\ Listed(m.rooms, i) = Listed(st.rooms, i)
          /\ \A j \in Slots \ {i} : m.rooms[j] = st.rooms[j]
      BY <2>1, <2>4, <1>0, MarkDirty, SMTT(60) DEF Typed, SameRooms, Listed
    <3> HIDE DEF m
    <3>3. /\ IsState(t) /\ t.rooms = m.rooms /\ t.clients \in [Fds -> ClientType]
          /\ SameClients(D, t.clients)
          /\ \A fd \in Fds : t.clients[fd].phase = D[fd].phase
          /\ \A fd \in Fds \ Listed(st.rooms, i) : t.clients[fd] = D[fd]
      BY <2>4, <3>1, <3>2, PushSessions, SMTT(60)
    <3>4. r.phase = "PLAYING" =>
            \E fd \in Listed(st.rooms, i) : st.clients[fd].phase # "GAME_OVER"
      BY <1>0, <1>2, <2>1, <2>7, RangeBasics, SMTT(60) DEF RoundOver, Listed
    <3> HIDE DEF t
    <3> QED BY <1>2, <2>1, <2>2, <3>2, <3>3, <3>4, SMTT(60) DEF SameClients, SameRooms, Typed, Departed
  <2> QED BY <2>6, <2>7
<1> HIDE DEF t
<1> QED BY <1>1, <1>2

(* A session in no room may come, go or change: the rooms do not notice. *)
LEMMA OutsiderKeeps ==
  ASSUME NEW C, NEW R, Inv(C, R), NEW fd \in Fds, \A j \in Slots : fd \notin Members(R, j),
         NEW D \in [Fds -> ClientType], \A f \in Fds \ {fd} : D[f] = C[f],
         D[fd].room_id <= 0
  PROVE  Inv(D, R)
<1>1. \A j \in Slots : /\ R[j].id \in Int /\ Members(R, j) \subseteq Fds
                       /\ \A f \in Members(R, j) : D[f] = C[f]
  BY Types
<1>2. InSync(D, R)
  <2>1. ASSUME NEW j \in Slots, NEW f \in Fds
        PROVE  f \in Members(R, j) <=> InUse(R, j) /\ D[f].live /\ D[f].room_id = R[j].id
    <3>1. CASE f = fd BY <3>1, <1>1, SMTT(60) DEF InUse
    <3>2. CASE f # fd BY <3>2, SMTT(60) DEF Inv, InSync
    <3> QED BY <3>1, <3>2
  <2>2. \A f \in Fds : D[f].room_id > 0 => \E j \in Slots : f \in Members(R, j)
    <3>1. D[fd].room_id \in Int BY DEF ClientType
    <3> QED BY <3>1, SMTT(60) DEF Inv, InSync
  <2> QED BY <2>1, <2>2, ZenonT(60) DEF Inv, InSync
<1>3. Owned(D, R)
  <2> SUFFICES ASSUME NEW j \in Slots, InUse(R, j)
        PROVE  \E o \in Members(R, j) : D[o].is_owner /\ \A f \in Members(R, j) \ {o} : ~D[f].is_owner
    BY DEF Owned
  <2>1. PICK o \in Members(R, j) : C[o].is_owner /\ \A f \in Members(R, j) \ {o} : ~C[f].is_owner
    BY DEF Inv, Owned
  <2> QED BY <1>1, <2>1
<1>4. Distinct(D, R) BY <1>1, SMTT(60) DEF Inv, Distinct
<1>5. CanEnd(D, R) BY <1>1 DEF Inv, CanEnd
<1> QED BY <1>2, <1>3, <1>4, <1>5, SMTT(60) DEF Inv, Typed

(* A member's departure, by leaving or by hanging up, keeps the invariant. *)
LEMMA DepartureKeeps ==
  ASSUME NEW C, NEW R, Inv(C, R), NEW fd \in Fds, NEW i \in Slots, fd \in Members(R, i),
         NEW st, st.clients \in [Fds -> ClientType],
         st.rooms = [R EXCEPT ![i].members = room_del_member(@, fd)],
         \A f \in Fds \ {fd} : st.clients[f] = C[f],
         NEW t, Departed(st, i, C[fd].is_owner, t),
         NEW D \in [Fds -> ClientType], \A f \in Fds \ {fd} : D[f] = t.clients[f],
         D[fd].room_id = ROOM_NONE
  PROVE  Inv(D, t.rooms)
<1> DEFINE S == t.rooms
           left == room_del_member(R[i].members, fd)
           M == Members(R, i) \ {fd}
<1>1. /\ C \in [Fds -> ClientType] /\ R \in [Slots -> RoomType] /\ R[i].members \in Seq(Fds)
      /\ \A j \in Slots : R[j].id \in Int /\ IsInjective(R[j].members) /\ Members(R, j) \subseteq Fds
      /\ \A f \in Fds : C[f].room_id \in Int /\ C[f].is_owner \in BOOLEAN
  BY Types
<1>0. InUse(R, i) /\ Members(R, i) = Range(R[i].members)
  <2>1. InUse(R, i) BY ZenonT(60) DEF Inv, InSync
  <2> QED BY <2>1, ListedMembers DEF Listed
<1>2. left \in Seq(Fds) /\ Range(left) = M /\ IsInjective(left)
      /\ (left = <<>> <=> M = {}) /\ (left # <<>> => left[1] \in M)
  BY <1>0, <1>1, DelMember, RangeBasics, ZenonT(60)
<1> HIDE DEF left
<1>3. /\ st.rooms[i].members = left /\ st.rooms[i].id = R[i].id /\ st.rooms[i].phase = R[i].phase
      /\ st.rooms[i].next_player_id = R[i].next_player_id
      /\ \A j \in Slots \ {i} : st.rooms[j] = R[j]
      /\ Listed(st.rooms, i) = M
  BY <1>1, <1>2 DEF RoomType, left, Listed
<1>4. /\ R[i].id > 0 /\ C[fd].live /\ C[fd].room_id = R[i].id
      /\ \A j \in Slots \ {i} : fd \notin Members(R, j)
  BY DEF Inv, InSync, InUse
<1>5. /\ S \in [Slots -> RoomType] /\ \A j \in Slots \ {i} : S[j] = R[j]
      /\ M = {} => S[i] = FreeRoom
      /\ M # {} => /\ S[i].id = R[i].id /\ S[i].members = left
                   /\ S[i].next_player_id = R[i].next_player_id
      /\ \A f \in Fds \ {fd} : /\ D[f].live = C[f].live /\ D[f].room_id = C[f].room_id
                               /\ D[f].player_id = C[f].player_id
                               /\ f \notin M => D[f] = C[f]
                               /\ f \in M => (D[f].is_owner <=>
                                                C[f].is_owner \/ (C[fd].is_owner /\ f = left[1]))
  <2> HIDE DEF M
  <2>1. S \in [Slots -> RoomType] /\ \A j \in Slots \ {i} : S[j] = R[j]
    BY <1>3 DEF Departed, Typed
  <2>2. \A f \in Fds \ M : t.clients[f] = st.clients[f]
    BY <1>3, ZenonT(60) DEF Departed
  <2>3. CASE M = {}
    <3>1. left = <<>> /\ S[i] = FreeRoom BY <2>3, <1>2, <1>3 DEF Departed
    <3>2. \A f \in Fds \ {fd} : D[f] = C[f] BY <2>3, <2>2, SMTT(60)
    <3> QED BY <2>1, <2>3, <3>1, <3>2, SMTT(60)
  <2>4. CASE M # {}
    <3>1. left # <<>> BY <2>4, <1>2, SMTT(60)
    <3>2. S[i].id = R[i].id /\ S[i].members = left /\ S[i].next_player_id = R[i].next_player_id
      BY <3>1, <1>3, SMTT(60) DEF Departed
    <3>3. \A f \in Fds : /\ t.clients[f].live = st.clients[f].live
                         /\ t.clients[f].room_id = st.clients[f].room_id
                         /\ t.clients[f].player_id = st.clients[f].player_id
                         /\ t.clients[f].is_owner <=>
                              st.clients[f].is_owner \/ (C[fd].is_owner /\ f = left[1])
      BY <3>1, <1>3 DEF Departed
    <3> QED BY <2>1, <2>4, <2>2, <3>2, <3>3, SMTT(60)
  <2> QED BY <2>3, <2>4, SMTT(60)
<1>6. ASSUME S[i].phase = "PLAYING", M # {}
      PROVE  /\ R[i].phase = "PLAYING"
             /\ \A f \in M : D[f].phase = C[f].phase
             /\ \E f \in M : C[f].phase # "GAME_OVER"
  <2>1. \A f \in M : f \in Fds \ {fd} BY <1>1
  <2>2. left # <<>> BY <1>2, <1>6
  <2> HIDE DEF M
  <2>3. /\ R[i].phase = "PLAYING"
        /\ \A f \in Fds : t.clients[f].phase = st.clients[f].phase
        /\ \E f \in M : st.clients[f].phase # "GAME_OVER"
    BY <1>3, <1>6, <2>2, ZenonT(60) DEF Departed
  <2> QED BY <2>1, <2>3
<1> HIDE DEF S, M
<1>7. /\ \A j \in Slots : S[j].id \in Int
      /\ InUse(S, i) <=> M # {}
      /\ \A j \in Slots : Members(S, j) = IF j = i THEN M ELSE Members(R, j)
      /\ \A j \in Slots : IsInjective(S[j].members) /\ fd \notin Members(S, j)
  <2>1. CASE M = {}
    <3>1. Members(S, i) = M /\ S[i].id \in Int /\ ~InUse(S, i) /\ IsInjective(S[i].members)
      BY <2>1, <1>5, FreeRoomType, EmptyMembers, SMTT(60) DEF Members, InUse
    <3>2. \A j \in Slots \ {i} : S[j].id \in Int /\ Members(S, j) = Members(R, j)
                                /\ IsInjective(S[j].members)
      BY <1>1, <1>5 DEF Members, InUse
    <3> QED BY <2>1, <3>1, <3>2, <1>4
  <2>2. CASE M # {}
    <3>1. Members(S, i) = M BY <2>2, <1>2, <1>4, <1>5 DEF Members, InUse
    <3>2. fd \notin M BY DEF M
    <3>3. S[i].id \in Int /\ InUse(S, i) /\ IsInjective(S[i].members)
      BY <2>2, <1>1, <1>2, <1>4, <1>5, SMTT(60) DEF InUse
    <3>4. \A j \in Slots \ {i} : S[j].id \in Int /\ Members(S, j) = Members(R, j)
                                /\ IsInjective(S[j].members)
      BY <1>1, <1>5, SMTT(60) DEF Members, InUse
    <3> QED BY <2>2, <3>1, <3>2, <3>3, <3>4, <1>4, SMTT(60)
  <2> QED BY <2>1, <2>2
<1>8. Typed(D, S) BY <1>5 DEF Typed
<1>9. InSync(D, S)
  <2>1. ASSUME NEW j \in Slots, NEW f \in Fds
        PROVE  f \in Members(S, j) <=> InUse(S, j) /\ D[f].live /\ D[f].room_id = S[j].id
    <3>1. CASE f = fd BY <3>1, <1>7, SMTT(60) DEF ROOM_NONE, InUse
    <3>2. CASE f # fd /\ j # i BY <3>2, <1>5, <1>7, SMTT(60) DEF Inv, InSync, InUse
    <3>3. CASE f # fd /\ j = i BY <3>3, <1>4, <1>5, <1>7, SMTT(60) DEF Inv, InSync, InUse, M
    <3> QED BY <3>1, <3>2, <3>3, SMTT(60)
  <2>2. ASSUME NEW f \in Fds, D[f].room_id > 0 PROVE \E j \in Slots : f \in Members(S, j)
    BY <2>2, <1>5, <1>7, SMTT(60) DEF Inv, InSync, M, ROOM_NONE
  <2>3. \A j, k \in Slots : InUse(S, j) /\ S[j].id = S[k].id => j = k
    BY <1>4, <1>5, <1>7, FreeRoomType, SMTT(60) DEF Inv, InSync, InUse
  <2>4. \A j \in Slots : InUse(S, j) => S[j].members # <<>>
    BY <1>2, <1>5, <1>7, SMTT(60) DEF Inv, InSync, InUse
  <2> QED BY <1>7, <2>1, <2>2, <2>3, <2>4, SMTT(60) DEF InSync
<1>10. Owned(D, S)
  <2>1. ASSUME NEW j \in Slots, InUse(S, j)
        PROVE  \E o \in Members(S, j) : D[o].is_owner /\ \A f \in Members(S, j) \ {o} : ~D[f].is_owner
    <3>1. PICK o \in Members(R, j) : C[o].is_owner /\ \A f \in Members(R, j) \ {o} : ~C[f].is_owner
      BY <2>1, <1>4, <1>5, SMTT(60) DEF Inv, Owned, InUse
    <3>2. CASE j # i
      <4>1. \A f \in Members(R, j) : f \in Fds /\ f # fd /\ f \notin M
        BY <3>2, <1>1, <1>4, SMTT(60) DEF Inv, InSync, InUse, M
      <4> QED BY <3>1, <3>2, <4>1, <1>5, <1>7, SMTT(60)
    <3>3. CASE j = i
      <4>1. M # {} BY <3>3, <2>1, <1>7
      <4>2. \A f \in M : f \in Fds \ {fd} /\ f \in Members(R, j) BY <3>3, <1>1 DEF M
      <4>3. CASE o = fd
        <5>1. left[1] \in M /\ D[left[1]].is_owner BY <4>1, <4>2, <4>3, <3>1, <1>2, <1>5, SMTT(60)
        <5>2. \A f \in M \ {left[1]} : ~D[f].is_owner BY <4>2, <4>3, <3>1, <1>5, SMTT(60)
        <5> QED BY <5>1, <5>2, <3>3, <1>7, SMTT(60)
      <4>4. CASE o # fd
        <5>1. ~C[fd].is_owner BY <4>4, <3>1, <3>3
        <5>2. o \in M BY <4>4, <3>3 DEF M
        <5> QED BY <5>1, <5>2, <4>2, <3>1, <3>3, <1>5, <1>7, SMTT(60)
      <4> QED BY <4>3, <4>4
    <3> QED BY <3>2, <3>3
  <2> QED BY <2>1 DEF Owned
<1>11. Distinct(D, S)
  <2> SUFFICES ASSUME NEW j \in Slots, NEW a \in Members(S, j), NEW b \in Members(S, j)
               PROVE  /\ D[a].player_id < S[j].next_player_id
                      /\ D[a].player_id = D[b].player_id => a = b
    BY DEF Distinct
  <2>1. a \in Members(R, j) /\ b \in Members(R, j) /\ a \in Fds \ {fd} /\ b \in Fds \ {fd}
    BY <1>1, <1>7 DEF M
  <2>2. S[j].next_player_id = R[j].next_player_id BY <1>5, <1>7 DEF M
  <2> QED BY <2>1, <2>2, <1>5 DEF Inv, Distinct
<1>12. CanEnd(D, S)
  <2> SUFFICES ASSUME NEW j \in Slots, S[j].phase = "PLAYING", InUse(S, j)
               PROVE  /\ \E f \in Members(S, j) : D[f].phase = "PLAYING"
                      /\ \A f \in Members(S, j) : D[f].phase \in {"PLAYING", "GAME_OVER"}
    BY DEF CanEnd
  <2>1. CASE j # i
    <3>1. \A f \in Members(R, j) : f \in Fds /\ f # fd /\ f \notin M
      BY <2>1, <1>1, <1>4 DEF Inv, InSync, InUse, M
    <3> QED BY <2>1, <3>1, <1>5, <1>7, SMTT(60) DEF Inv, CanEnd, InUse
  <2>2. CASE j = i
    <3>1. M # {} /\ R[i].phase = "PLAYING" /\ (\A f \in M : D[f].phase = C[f].phase)
          /\ \E f \in M : C[f].phase # "GAME_OVER"
      BY <2>2, <1>6, <1>7, SMTT(60) DEF InUse
    <3>2. \A f \in M : C[f].phase \in {"PLAYING", "GAME_OVER"}
      BY <3>1, <1>4 DEF Inv, CanEnd, InUse, M
    <3> QED BY <2>2, <3>1, <3>2, <1>7, SMTT(60)
  <2> QED BY <2>1, <2>2
<1> QED BY <1>8, <1>9, <1>10, <1>11, <1>12, SMTT(60) DEF Inv, S

(* Joining. *)

(* A client once it has joined. *)
LEMMA JoinerType ==
  ASSUME NEW c \in ClientType, NEW r \in RoomType
  PROVE  LET j == Joiner(c, r)
         IN  /\ j \in ClientType /\ j.live = c.live /\ j.room_id = r.id
             /\ j.player_id = r.next_player_id /\ j.phase = "WAITING"
             /\ j.is_owner <=> r.members = <<>>
BY ZenonT(60) DEF Joiner, NewPlayerId, ClientType, RoomType, Phases

(* A room once a client has joined. *)
LEMMA JoinedType ==
  ASSUME NEW r \in RoomType, NEW m \in Seq(Fds)
  PROVE  LET q == room_mark_standings_dirty([r EXCEPT !.members = m,
                    !.next_player_id = @ + 1, !.last_standings = {}])
         IN  /\ q \in RoomType /\ q.id = r.id /\ q.members = m
             /\ q.next_player_id = r.next_player_id + 1 /\ q.phase = r.phase
<1> DEFINE joined == [r EXCEPT !.members = m, !.next_player_id = @ + 1, !.last_standings = {}]
<1>1. /\ joined \in RoomType /\ joined.id = r.id /\ joined.members = m
      /\ joined.next_player_id = r.next_player_id + 1 /\ joined.phase = r.phase
  <2>1. PICK n \in Nat : n = r.next_player_id + 1 BY DEF RoomType
  <2>2. PICK z \in SUBSET [player_id : Nat, score : Nat, game_over : BOOLEAN] : z = {} BY ZenonT(60)
  <2>3. joined = [r EXCEPT !.members = m, !.next_player_id = n, !.last_standings = z]
    BY <2>1, <2>2
  <2> HIDE DEF joined
  <2>4. joined \in RoomType BY <2>3, ZenonT(60) DEF RoomType
  <2>5. /\ joined.id = r.id /\ joined.members = m
        /\ joined.next_player_id = n /\ joined.phase = r.phase
    BY <2>3, SMTT(60) DEF RoomType
  <2> QED BY <2>1, <2>4, <2>5
<1> HIDE DEF joined
<1> QED BY <1>1, MarkDirty, ZenonT(60) DEF joined

(* A session in the lobby, or in a room nothing finds, is no member. *)
LEMMA NotMember ==
  ASSUME NEW C, NEW R, Inv(C, R), NEW fd \in Fds, C[fd].room_id <= 0
  PROVE  \A j \in Slots : fd \notin Members(R, j)
<1> SUFFICES ASSUME NEW j \in Slots, fd \in Members(R, j) PROVE FALSE OBVIOUS
<1>1. InUse(R, j) /\ C[fd].room_id = R[j].id BY DEF Inv, InSync
<1>2. R[j].id \in Int BY Types
<1> QED BY <1>1, <1>2, SMTT(60) DEF InUse

(* What a slot holds that cannot be found does not matter. *)
LEMMA StrayKeeps ==
  ASSUME NEW C, NEW R, Inv(C, R), NEW i \in Slots, ~InUse(R, i),
         NEW q \in RoomType, ~(q.id > 0), IsInjective(q.members)
  PROVE  Inv(C, [R EXCEPT ![i] = q])
<1> DEFINE S == [R EXCEPT ![i] = q]
<1>1. R \in [Slots -> RoomType] BY Types
<1>2. S \in [Slots -> RoomType] /\ S[i] = q /\ \A j \in Slots \ {i} : S[j] = R[j]
  BY <1>1, ZenonT(60)
<1> HIDE DEF S
<1>3. ~InUse(S, i) BY <1>2 DEF InUse
<1>4. \A j \in Slots : /\ InUse(S, j) <=> InUse(R, j)
                       /\ Members(S, j) = Members(R, j)
                       /\ InUse(S, j) => S[j] = R[j] /\ j # i
  BY <1>2, <1>3, ZenonT(60) DEF InUse, Members
<1>5. InSync(C, S)
  <2>1. \A j, k \in Slots : InUse(S, j) /\ S[j].id = S[k].id => j = k
    <3> SUFFICES ASSUME NEW j \in Slots, NEW k \in Slots, InUse(S, j), S[j].id = S[k].id PROVE j = k
      OBVIOUS
    <3>1. InUse(S, k) BY DEF InUse
    <3> QED BY <3>1, <1>4, ZenonT(60) DEF Inv, InSync
  <2>2. \A j \in Slots : \A f \in Fds :
          f \in Members(S, j) <=> InUse(S, j) /\ C[f].live /\ C[f].room_id = S[j].id
    BY <1>4, ZenonT(60) DEF Inv, InSync
  <2>3. \A f \in Fds : C[f].room_id > 0 => \E j \in Slots : f \in Members(S, j)
    BY <1>4, ZenonT(60) DEF Inv, InSync
  <2>4. \A j \in Slots : IsInjective(S[j].members) /\ (InUse(S, j) => S[j].members # <<>>)
    BY <1>2, <1>4, ZenonT(60) DEF Inv, InSync
  <2> QED BY <2>1, <2>2, <2>3, <2>4, ZenonT(60) DEF InSync
<1>6. Owned(C, S) BY <1>4, ZenonT(60) DEF Inv, Owned
<1>7. Distinct(C, S)
  <2>1. \A j \in Slots : Members(S, j) # {} => S[j] = R[j] BY <1>4, NoMembers, ZenonT(60)
  <2> QED BY <1>4, <2>1, ZenonT(60) DEF Inv, Distinct
<1>8. CanEnd(C, S) BY <1>4, ZenonT(60) DEF Inv, CanEnd
<1> QED BY <1>2, <1>5, <1>6, <1>7, <1>8, ZenonT(60) DEF Inv, Typed, S

(* Admitting a session that is in no room: to a room in use that does not  *)
(* play, or to a free slot under a number nobody has.                      *)
LEMMA AdmitKeeps ==
  ASSUME NEW st, IsState(st), NEW fd \in Fds, NEW i \in Slots, NEW r \in RoomType, NEW creator,
         Inv(st.clients, st.rooms), st.clients[fd].live, st.clients[fd].room_id = ROOM_NONE,
         r.phase # "PLAYING", r.id \in Nat \ {0},
         \/ r = st.rooms[i]
         \/ /\ st.rooms[i].id = 0 /\ r.members = <<>>
            /\ \A j \in Slots : st.rooms[j].id # r.id
  PROVE  LET t == Admit(st, fd, i, r, creator) IN Inv(t.clients, t.rooms)
<1> DEFINE C == st.clients
           R == st.rooms
           q == room_mark_standings_dirty([r EXCEPT !.members = Append(@, fd),
                  !.next_player_id = @ + 1, !.last_standings = {}])
           D == [C EXCEPT ![fd] = Joiner(@, r)]
           S == [R EXCEPT ![i] = q]
           p == [st EXCEPT !.rooms[i] = q, !.clients[fd] = Joiner(@, r)]
           t == room_push_sessions_ex(p, i, creator)
<1>1. /\ C \in [Fds -> ClientType] /\ R \in [Slots -> RoomType]
      /\ \A j \in Slots : R[j].id \in Int /\ IsInjective(R[j].members) /\ Members(R, j) \subseteq Fds
      /\ \A j \in Slots : fd \notin Members(R, j)
  <2>1. \A j \in Slots : fd \notin Members(R, j)
    BY NotMember DEF ROOM_NONE
  <2> QED BY <2>1, Types, ZenonT(60)
<1>2. Admit(st, fd, i, r, creator) = t BY DEF Admit
<1>3. IsState(p) /\ p.clients = D /\ p.rooms = S BY <1>1, SMTT(60) DEF IsState
<1>4. r.members \in Seq(Fds) /\ IsInjective(r.members) /\ fd \notin Range(r.members)
      /\ Range(r.members) = (IF r = R[i] THEN Members(R, i) ELSE {})
  <2>1. r = R[i] => Members(R, i) = Range(r.members) BY DEF Members, InUse
  <2> QED BY <1>1, <2>1, EmptyMembers DEF RoomType
<1>5. /\ q \in RoomType /\ q.id = r.id /\ q.members = Append(r.members, fd)
      /\ q.next_player_id = r.next_player_id + 1 /\ q.phase # "PLAYING"
  <2>1. Append(r.members, fd) \in Seq(Fds) BY <1>4, AppendMember
  <2> QED BY <2>1, JoinedType, ZenonT(60)
<1>6. Range(q.members) = Range(r.members) \cup {fd} /\ IsInjective(q.members) /\ q.members # <<>>
  BY <1>4, <1>5, AppendMember, ZenonT(60)
<1>7. /\ D \in [Fds -> ClientType]
      /\ D[fd].live /\ D[fd].room_id = r.id /\ D[fd].player_id = r.next_player_id
      /\ D[fd].phase = "WAITING" /\ (D[fd].is_owner <=> r.members = <<>>)
      /\ \A f \in Fds \ {fd} : D[f] = C[f]
  BY <1>1, JoinerType, SMTT(60)
<1>8. S \in [Slots -> RoomType] /\ S[i] = q /\ \A j \in Slots \ {i} : S[j] = R[j]
  BY <1>1, <1>5, SMTT(60)
<1> HIDE DEF q, D, S, p
<1>9. Inv(D, S)
  <2>1. Typed(D, S) /\ InUse(S, i) BY <1>5, <1>7, <1>8, SMTT(60) DEF Typed, InUse
  <2>2. /\ \A j \in Slots \ {i} : Members(S, j) = Members(R, j)
        /\ Members(S, i) = Range(r.members) \cup {fd}
        /\ Range(r.members) = Members(R, i)
        /\ r.members = <<>> <=> r # R[i]
        /\ r # R[i] => R[i].id = 0 /\ \A j \in Slots : R[j].id # r.id
        /\ r # R[i] => Members(R, i) = {}
        /\ \A j \in Slots \ {i} : R[j].id # r.id
    <3>1. \A j \in Slots \ {i} : Members(S, j) = Members(R, j) BY <1>8, SMTT(60) DEF Members, InUse
    <3>2. Members(S, i) = Range(r.members) \cup {fd} BY <2>1, <1>6, <1>8, ZenonT(60) DEF Members
    <3>3. CASE r = R[i]
      <4>1. InUse(R, i) BY <3>3, SMTT(60) DEF InUse
      <4> QED BY <3>1, <3>2, <3>3, <4>1, ZenonT(60) DEF Inv, InSync, Members
    <3>4. CASE r # R[i]
      <4>1. Members(R, i) = {} BY <3>4, SMTT(60) DEF Members, InUse
      <4> QED BY <3>1, <3>2, <3>4, <4>1, <1>4, ZenonT(60)
    <3> QED BY <3>3, <3>4, SMTT(60)
  <2>3. InSync(D, S)
    <3>1. ASSUME NEW j \in Slots, NEW f \in Fds
          PROVE  f \in Members(S, j) <=> InUse(S, j) /\ D[f].live /\ D[f].room_id = S[j].id
      <4>1. CASE f = fd BY <4>1, <2>1, <2>2, <1>1, <1>5, <1>7, <1>8, ZenonT(60)
      <4>2. CASE f # fd /\ j # i BY <4>2, <2>2, <1>7, <1>8, SMTT(60) DEF Inv, InSync, InUse
      <4>3. CASE f # fd /\ j = i /\ r = R[i]
        BY <4>3, <2>2, <1>5, <1>7, <1>8, SMTT(60) DEF Inv, InSync, InUse
      <4>4. CASE f # fd /\ j = i /\ r # R[i]
        <5>1. f \notin Members(S, j) BY <4>4, <2>2, ZenonT(60)
        <5>2. C[f].room_id # r.id
          BY <4>4, <2>2, SMTT(60) DEF Inv, InSync
        <5> QED BY <4>4, <5>1, <5>2, <1>5, <1>7, <1>8, SMTT(60)
      <4> QED BY <4>1, <4>2, <4>3, <4>4, ZenonT(60)
    <3>2. ASSUME NEW f \in Fds, D[f].room_id > 0
          PROVE  \E j \in Slots : f \in Members(S, j)
      BY <3>2, <2>2, <1>7, SMTT(60) DEF Inv, InSync
    <3>3. \A j \in Slots : IsInjective(S[j].members) BY <1>1, <1>6, <1>8, ZenonT(60)
    <3>4. \A j, k \in Slots : InUse(S, j) /\ S[j].id = S[k].id => j = k
      BY <2>2, <1>5, <1>8, SMTT(60) DEF Inv, InSync, InUse
    <3>5. \A j \in Slots : InUse(S, j) => S[j].members # <<>>
      BY <1>6, <1>8, ZenonT(60) DEF Inv, InSync, InUse
    <3> QED BY <3>1, <3>2, <3>3, <3>4, <3>5, ZenonT(60) DEF InSync
  <2>4. Owned(D, S)
    <3>1. ASSUME NEW j \in Slots, InUse(S, j)
          PROVE  \E o \in Members(S, j) :
                   D[o].is_owner /\ \A f \in Members(S, j) \ {o} : ~D[f].is_owner
      <4>1. CASE j = i /\ r # R[i] BY <4>1, <2>2, <1>7, ZenonT(60)
      <4>2. CASE j # i \/ r = R[i]
        <5>1. InUse(R, j) BY <4>2, <3>1, <1>5, <1>8, ZenonT(60) DEF InUse
        <5>2. PICK o \in Members(R, j) :
                C[o].is_owner /\ \A f \in Members(R, j) \ {o} : ~C[f].is_owner
          BY <5>1, SMTT(60) DEF Inv, Owned
        <5>3. \A f \in Members(R, j) : f \in Fds \ {fd} BY <1>1, SMTT(60)
        <5>4. j = i => ~D[fd].is_owner BY <4>2, <2>2, <1>7, ZenonT(60)
        <5> QED BY <5>2, <5>3, <5>4, <2>2, <1>7, SMTT(60)
      <4> QED BY <4>1, <4>2, SMTT(60)
    <3> QED BY <3>1, SMTT(60) DEF Owned
  <2>5. Distinct(D, S)
    <3> SUFFICES ASSUME NEW j \in Slots, NEW a \in Members(S, j), NEW b \in Members(S, j)
                 PROVE  /\ D[a].player_id < S[j].next_player_id
                        /\ D[a].player_id = D[b].player_id => a = b
      BY ZenonT(60) DEF Distinct
    <3>1. \A f \in Members(R, j) : f \in Fds \ {fd} /\ D[f] = C[f] /\ C[f].player_id \in Nat
      BY <1>1, <1>7, ZenonT(60) DEF ClientType
    <3>2. \A f, g \in Members(R, j) : /\ C[f].player_id < R[j].next_player_id
                                      /\ C[f].player_id = C[g].player_id => f = g
      BY SMTT(60) DEF Inv, Distinct
    <3>3. r.next_player_id \in Nat BY ZenonT(60) DEF RoomType
    <3>4. CASE j # i BY <3>1, <3>2, <3>4, <2>2, <1>8, SMTT(60)
    <3>5. CASE j = i
      <4>1. \A f \in Members(R, i) : C[f].player_id < r.next_player_id
        BY <3>2, <3>5, <2>2, ZenonT(60)
      <4>2. S[j].next_player_id = r.next_player_id + 1 BY <3>5, <1>5, <1>8, ZenonT(60)
      <4> QED BY <3>1, <3>2, <3>3, <3>5, <4>1, <4>2, <2>2, <1>7, SMTT(60)
    <3> QED BY <3>4, <3>5, ZenonT(60)
  <2>6. CanEnd(D, S)
    <3>1. ASSUME NEW j \in Slots, S[j].phase = "PLAYING", InUse(S, j)
          PROVE  /\ R[j].phase = "PLAYING" /\ InUse(R, j) /\ Members(S, j) = Members(R, j)
                 /\ \A f \in Members(R, j) : D[f].phase = C[f].phase
      <4>1. j # i BY <3>1, <1>5, <1>8, ZenonT(60)
      <4>2. S[j] = R[j] /\ Members(S, j) = Members(R, j) BY <4>1, <2>2, <1>8, ZenonT(60)
      <4>3. \A f \in Members(R, j) : D[f] = C[f] BY <1>1, <1>7, SMTT(60)
      <4> QED BY <3>1, <4>2, <4>3, ZenonT(60) DEF InUse
    <3>2. CanEnd(C, R) BY ZenonT(60) DEF Inv
    <3> QED BY <3>1, <3>2, CanEndKept, SMTT(60)
  <2> QED BY <2>1, <2>3, <2>4, <2>5, <2>6, SMTT(60) DEF Inv
<1>10. /\ t.rooms = S /\ t.clients \in [Fds -> ClientType] /\ SameClients(D, t.clients)
       /\ \A f \in Fds : t.clients[f].phase = D[f].phase
  BY <1>3, <1>7, <1>8, PushSessions, SMTT(60) DEF Typed
<1> HIDE DEF t
<1>11. CanEnd(t.clients, S)
  <2>1. \A j \in Slots : Members(S, j) \subseteq Fds
    BY <1>8, RangeBasics, ZenonT(60) DEF Members, RoomType
  <2> QED BY <2>1, <1>9, <1>10, SMTT(60) DEF Inv, CanEnd
<1>12. Inv(t.clients, t.rooms)
  BY <1>9, <1>10, <1>11, SameMembership, ZenonT(60) DEF Inv, Typed, SameRooms
<1> QED BY <1>2, <1>12, SMTT(60)

(* Admitting one to a room with a negative number, which is always new. *)
LEMMA AdmitStray ==
  ASSUME NEW st, IsState(st), NEW fd \in Fds, NEW i \in Slots, NEW r \in RoomType, NEW creator,
         Inv(st.clients, st.rooms), st.clients[fd].room_id = ROOM_NONE,
         ~(r.id > 0), st.rooms[i].id = 0, r.members = <<>>
  PROVE  LET t == Admit(st, fd, i, r, creator) IN Inv(t.clients, t.rooms)
<1> DEFINE C == st.clients
           R == st.rooms
           q == room_mark_standings_dirty([r EXCEPT !.members = Append(@, fd),
                  !.next_player_id = @ + 1, !.last_standings = {}])
           D == [C EXCEPT ![fd] = Joiner(@, r)]
           S == [R EXCEPT ![i] = q]
           p == [st EXCEPT !.rooms[i] = q, !.clients[fd] = Joiner(@, r)]
           t == room_push_sessions_ex(p, i, creator)
<1>1. C \in [Fds -> ClientType] /\ R \in [Slots -> RoomType] BY Types
<1>2. Admit(st, fd, i, r, creator) = t BY DEF Admit
<1>3. IsState(p) /\ p.clients = D /\ p.rooms = S BY <1>1, SMTT(60) DEF IsState
<1>4. Append(r.members, fd) \in Seq(Fds) /\ IsInjective(Append(r.members, fd))
  BY EmptyMembers, AppendMember
<1>5. q \in RoomType /\ q.id = r.id /\ IsInjective(q.members) BY <1>4, JoinedType, ZenonT(60)
<1>6. /\ D \in [Fds -> ClientType] /\ D[fd].room_id = r.id /\ \A f \in Fds \ {fd} : D[f] = C[f]
  BY <1>1, JoinerType, SMTT(60)
<1> HIDE DEF q, D, p
<1>7. Inv(D, R)
  <2>1. \A j \in Slots : fd \notin Members(R, j) BY NotMember, SMTT(60) DEF ROOM_NONE
  <2>2. D[fd].room_id <= 0 BY <1>6, SMTT(60) DEF RoomType
  <2> QED BY <1>6, <2>1, <2>2, OutsiderKeeps, ZenonT(60)
<1>8. Inv(D, S)
  <2>1. ~InUse(R, i) BY DEF InUse
  <2> QED BY <1>5, <1>7, <2>1, StrayKeeps, ZenonT(60)
<1> HIDE DEF S
<1>9. S \in [Slots -> RoomType] BY <1>8, Types
<1>10. /\ t.rooms = S /\ t.clients \in [Fds -> ClientType] /\ SameClients(D, t.clients)
       /\ \A f \in Fds : t.clients[f].phase = D[f].phase
  BY <1>3, <1>6, <1>9, PushSessions, SMTT(60) DEF Typed
<1> HIDE DEF t
<1>11. CanEnd(t.clients, S)
  <2>1. \A j \in Slots : Members(S, j) \subseteq Fds BY <1>8, Types
  <2> QED BY <2>1, <1>8, <1>10, SMTT(60) DEF Inv, CanEnd
<1>12. Inv(t.clients, t.rooms)
  BY <1>8, <1>9, <1>10, <1>11, SameMembership, ZenonT(60) DEF Typed, SameRooms
<1> QED BY <1>2, <1>12, SMTT(60)

-----------------------------------------------------------------------------
(* The handlers, one lemma each. *)

(* Sending a session line or a rejection changes no client and no room. *)
LEMMA SendKeeps ==
  ASSUME NEW st, IsState(st), NEW fd
  PROVE  /\ IsState(send_session(st, fd))
         /\ send_session(st, fd).clients = st.clients /\ send_session(st, fd).rooms = st.rooms
         /\ \A reason : /\ send_reject(st, fd, reason).clients = st.clients
                        /\ send_reject(st, fd, reason).rooms = st.rooms
BY SMTT(60) DEF send_session, send_reject, IsState

(* A room less one member. *)
LEMMA WithoutMember ==
  ASSUME NEW R \in [Slots -> RoomType], NEW i \in Slots, NEW fd \in Fds, IsInjective(R[i].members)
  PROVE  LET S == [R EXCEPT ![i].members = room_del_member(@, fd)]
         IN  S \in [Slots -> RoomType] /\ fd \notin Listed(S, i)
<1> DEFINE m == room_del_member(R[i].members, fd)
           q == [R[i] EXCEPT !.members = m]
           S == [R EXCEPT ![i].members = room_del_member(@, fd)]
<1>1. R[i] \in RoomType /\ R[i].members \in Seq(Fds) BY DEF RoomType
<1>2. m \in Seq(Fds) /\ fd \notin Range(m) BY <1>1, DelMember
<1>3. S = [R EXCEPT ![i] = q] OBVIOUS
<1> HIDE DEF m, S
<1>4. q \in RoomType /\ q.members = m BY <1>1, <1>2, ZenonT(60) DEF RoomType
<1> HIDE DEF q
<1>5. S \in [Slots -> RoomType] /\ S[i].members = m BY <1>3, <1>4, SMTT(60)
<1> QED BY <1>2, <1>5, SMTT(60) DEF S, Listed

(* handle_garbage keeps the table invariant. *)
LEMMA GarbageKeeps ==
  ASSUME NEW st, IsState(st), Inv(st.clients, st.rooms), NEW fd, NEW lines
  PROVE  Inv(handle_garbage(st, fd, lines).clients, handle_garbage(st, fd, lines).rooms)
BY SMTT(60) DEF handle_garbage, IsState

(* client_add keeps the table invariant. *)
LEMMA AddKeeps ==
  ASSUME NEW st, IsState(st), Inv(st.clients, st.rooms), NEW fd \in Fds, ~st.clients[fd].live
  PROVE  Inv(client_add(st, fd).clients, client_add(st, fd).rooms)
<1> DEFINE C == st.clients
           R == st.rooms
           t == client_add(st, fd)
           new == [NoClient EXCEPT !.live = TRUE]
           D == [C EXCEPT ![fd] = new]
<1>1. CASE Cardinality(Live(C)) < MAX_SESSIONS
  <2>1. C \in [Fds -> ClientType] /\ R \in [Slots -> RoomType]
        /\ \A j \in Slots : R[j].id \in Int /\ Members(R, j) \subseteq Fds
    BY Types
  <2>2. new \in ClientType /\ new.room_id <= 0
    <3>1. new \in ClientType /\ new.room_id = ROOM_NONE BY NoClientType, ZenonT(60) DEF ClientType
    <3> QED BY <3>1, SMTT(60) DEF ROOM_NONE
  <2>3. t.clients = D /\ t.rooms = R BY <1>1, <2>1 DEF client_add, IsState
  <2>4. D \in [Fds -> ClientType] /\ D[fd] = new /\ \A f \in Fds \ {fd} : D[f] = C[f]
    BY <2>1, <2>2, ZenonT(60)
  <2>5. \A j \in Slots : fd \notin Members(R, j) BY SMTT(60) DEF Inv, InSync
  <2> HIDE DEF D, new, t
  <2>6. Inv(D, R) BY <2>2, <2>4, <2>5, OutsiderKeeps, SMTT(60)
  <2> QED BY <2>3, <2>6, SMTT(60) DEF t
<1>2. CASE ~(Cardinality(Live(C)) < MAX_SESSIONS)
  <2>1. t = send_reject(st, fd, REJECT_FULL) BY <1>2, SMTT(60) DEF client_add
  <2> QED BY <2>1, SendKeeps
<1> QED BY <1>1, <1>2, SMTT(60)

(* room_flush_updates keeps the table invariant. *)
LEMMA FlushKeeps ==
  ASSUME NEW st, IsState(st), Inv(st.clients, st.rooms)
  PROVE  Inv(room_flush_updates(st).clients, room_flush_updates(st).rooms)
<1> DEFINE C == st.clients
           R == st.rooms
           t == room_flush_updates(st)
           S == [i \in Slots |-> IF i \in {j \in Slots : R[j].standings_dirty}
                                 THEN Published(C, R[i]) ELSE R[i]]
<1>1. t.clients = C /\ t.rooms = S BY ZenonT(60) DEF room_flush_updates
<1>2. C \in [Fds -> ClientType] /\ R \in [Slots -> RoomType] BY DEF Inv, Typed
<1>3. ASSUME NEW r \in RoomType
      PROVE  LET q == Published(C, r)
             IN  /\ q \in RoomType /\ q.id = r.id /\ q.members = r.members /\ q.phase = r.phase
                 /\ q.next_player_id = r.next_player_id
  <2>1. Published(C, r) \in RoomType BY <1>2, PublishedType, ZenonT(60)
  <2> QED BY <2>1, SMTT(60) DEF Published, RoomType
<1>4. /\ S \in [Slots -> RoomType] /\ SameRooms(R, S)
      /\ \A i \in Slots : S[i].phase = R[i].phase
  BY <1>2, <1>3 DEF SameRooms
<1> HIDE DEF S, t
<1>5. CanEnd(C, S)
  <2>1. \A i \in Slots : Members(S, i) = Members(R, i) /\ (InUse(S, i) <=> InUse(R, i))
    BY <1>4, SMTT(60) DEF SameRooms, Members, InUse
  <2> QED BY <1>4, <2>1, ZenonT(60) DEF Inv, CanEnd
<1>6. Inv(C, S) BY <1>2, <1>4, <1>5, SameMembership, SMTT(60) DEF Typed, SameClients
<1> QED BY <1>1, <1>6, ZenonT(60) DEF t

(* The tables are in order when the server starts. *)
LEMMA InitInv == ensure_init => Inv(clients, rooms)
<1> SUFFICES ASSUME ensure_init PROVE Inv(clients, rooms) BY ZenonT(60)
<1>1. /\ clients \in [Fds -> ClientType] /\ rooms \in [Slots -> RoomType]
      /\ \A fd \in Fds : clients[fd].room_id = ROOM_NONE /\ ~clients[fd].live /\ ~clients[fd].is_owner
      /\ \A i \in Slots : rooms[i] = FreeRoom
  BY NoClientType, FreeRoomType, SMTT(60) DEF ensure_init
<1>2. \A i \in Slots : rooms[i].id = 0 /\ Members(rooms, i) = {} /\ IsInjective(rooms[i].members)
  BY <1>1, FreeRoomType, EmptyMembers, SMTT(60) DEF Members, InUse
<1>3. Typed(clients, rooms) BY <1>1, SMTT(60) DEF Typed
<1>4. \A i \in Slots : ~InUse(rooms, i) BY <1>2, SMTT(60) DEF InUse
<1>6. InSync(clients, rooms) BY <1>1, <1>2, <1>4, SMTT(60) DEF InSync, ROOM_NONE
<1>7. Owned(clients, rooms) BY <1>1, <1>2, <1>4, SMTT(60) DEF Owned
<1>8. Distinct(clients, rooms) BY <1>1, <1>2, <1>4, SMTT(60) DEF Distinct
<1>9. CanEnd(clients, rooms) BY <1>4, SMTT(60) DEF CanEnd
<1> QED BY <1>3, <1>6, <1>7, <1>8, <1>9, SMTT(60) DEF Inv

(* The theorems on well-founded relations are needed from here on only. *)
INSTANCE WellFoundedInduction

(* A nonempty set of numbers has a least one. *)
LEMMA NatMin ==
  ASSUME NEW T \in SUBSET Nat, T # {}
  PROVE  \E x \in T : \A y \in T : x <= y
<1> DEFINE R == OpToRel(<, Nat)
<1>1. \E x \in T : \A y \in T : <<y, x>> \notin R
  <2>1. IsWellFoundedOn(R, Nat) BY NatLessThanWellFounded, ZenonT(60)
  <2> HIDE DEF R
  <2> QED BY <2>1, WFMin, ZenonT(60)
<1>2. \A x, y \in Nat : <<y, x>> \notin R => x <= y BY DEF OpToRel
<1> HIDE DEF R
<1> QED BY <1>1, <1>2, ZenonT(60)

-----------------------------------------------------------------------------
(* Members lists. *)

(* The first slot with a given number is well defined. *)
LEMMA FirstSlot ==
  ASSUME NEW R, NEW id, \E i \in Slots : R[i].id = id
  PROVE  \E i \in Slots : R[i].id = id /\ \A j \in Slots : j < i => R[j].id # id
<1> DEFINE T == {i \in Slots : R[i].id = id}
<1>1. T \in SUBSET Nat /\ T # {} /\ Slots \subseteq Nat
  BY RoomsAssumption DEF Slots, RoomsAssumption
<1>2. PICK i \in T : \A j \in T : i <= j
  <2> HIDE DEF T
  <2> QED BY <1>1, NatMin
<1> QED BY <1>1, <1>2

(* room_find returns no slot, or one that has the id. *)
LEMMA RoomFind ==
  ASSUME NEW R, NEW id \in Int
  PROVE  \/ room_find(R, id) = 0 /\ (id <= 0 \/ \A i \in Slots : R[i].id # id)
         \/ room_find(R, id) \in Slots /\ R[room_find(R, id)].id = id /\ id > 0
<1>1. CASE id > 0 /\ \E i \in Slots : R[i].id = id
  BY <1>1, FirstSlot, ZenonT(60) DEF room_find
<1>2. CASE ~(id > 0 /\ \E i \in Slots : R[i].id = id)
  BY <1>2 DEF room_find
<1> QED BY <1>1, <1>2

(* The slot room_create takes is free. *)
LEMMA FreeSlotFree ==
  ASSUME NEW R
  PROVE  \/ FreeSlot(R) = 0
         \/ FreeSlot(R) \in Slots /\ R[FreeSlot(R)].id = 0
<1>1. CASE \E i \in Slots : R[i].id = 0
  BY <1>1, FirstSlot DEF FreeSlot
<1>2. CASE ~\E i \in Slots : R[i].id = 0
  BY <1>2, ZenonT(60) DEF FreeSlot
<1> QED BY <1>1, <1>2

(* A session whose room is not found is no room's member, and a session in *)
(* the lobby is such a one.                                                *)
LEMMA Roomless ==
  ASSUME NEW C, NEW R, Inv(C, R), NEW fd \in Fds,
         C[fd].room_id = ROOM_NONE \/ room_find(R, C[fd].room_id) = 0
  PROVE  C[fd].room_id <= 0 /\ \A j \in Slots : fd \notin Members(R, j)
<1>1. C[fd].room_id \in Int /\ 0 \notin Slots
  BY Types, SMTT(60) DEF ClientType, Slots
<1>2. C[fd].room_id <= 0
  <2> SUFFICES ASSUME C[fd].room_id > 0 PROVE FALSE BY <1>1
  <2>1. PICK j \in Slots : fd \in Members(R, j) BY ZenonT(60) DEF Inv, InSync
  <2>2. R[j].id = C[fd].room_id BY <2>1, ZenonT(60) DEF Inv, InSync
  <2> QED BY <1>1, <2>2, RoomFind, SMTT(60) DEF ROOM_NONE
<1> QED BY <1>2, NotMember

(* A session whose room is found is a member there. *)
LEMMA RoomOf ==
  ASSUME NEW C, NEW R, Inv(C, R), NEW fd \in Fds, room_find(R, C[fd].room_id) # 0
  PROVE  LET i == room_find(R, C[fd].room_id)
         IN  i \in Slots /\ fd \in Members(R, i) /\ InUse(R, i)
<1> DEFINE i == room_find(R, C[fd].room_id)
<1>1. C[fd].room_id \in Int BY Types DEF ClientType
<1>2. i \in Slots /\ R[i].id = C[fd].room_id /\ C[fd].room_id > 0 BY <1>1, RoomFind
<1> HIDE DEF i
<1>3. PICK j \in Slots : fd \in Members(R, j) BY <1>2, ZenonT(60) DEF Inv, InSync
<1>4. InUse(R, j) /\ C[fd].room_id = R[j].id BY <1>3, ZenonT(60) DEF Inv, InSync
<1>5. i = j BY <1>2, <1>4, ZenonT(60) DEF Inv, InSync
<1> QED BY <1>2, <1>3, <1>4, <1>5, ZenonT(60) DEF i

(* What handle_leave makes of a session. *)
LEMMA IdleType ==
  ASSUME NEW c \in ClientType
  PROVE  LET idle == [c EXCEPT !.room_id = ROOM_NONE, !.player_id = 0, !.is_owner = FALSE,
                        !.phase = "IDLE", !.score = 0, !.roster = {}]
         IN  idle \in ClientType /\ idle.room_id = ROOM_NONE
<1> DEFINE idle == [c EXCEPT !.room_id = ROOM_NONE, !.player_id = 0, !.is_owner = FALSE,
                      !.phase = "IDLE", !.score = 0, !.roster = {}]
<1>1. PICK z \in SUBSET [player_id : Nat, is_owner : BOOLEAN] : z = {} BY ZenonT(60)
<1>2. idle = [c EXCEPT !.room_id = ROOM_NONE, !.player_id = 0, !.is_owner = FALSE,
                !.phase = "IDLE", !.score = 0, !.roster = z]
  BY <1>1
<1>3. ROOM_NONE \in Int /\ "IDLE" \in Phases BY DEF ROOM_NONE, Phases
<1> HIDE DEF idle
<1>4. idle \in ClientType BY <1>2, <1>3, ZenonT(60) DEF ClientType
<1>5. idle.room_id = ROOM_NONE BY <1>2, SMTT(60) DEF ClientType
<1> QED BY <1>4, <1>5 DEF idle

(* handle_leave keeps the table invariant. *)
LEMMA LeaveKeeps ==
  ASSUME NEW st, IsState(st), Inv(st.clients, st.rooms), NEW fd \in Fds
  PROVE  Inv(handle_leave(st, fd).clients, handle_leave(st, fd).rooms)
<1> DEFINE C == st.clients
           R == st.rooms
           c == C[fd]
           i == room_find(R, c.room_id)
           idle == [c EXCEPT !.room_id = ROOM_NONE, !.player_id = 0, !.is_owner = FALSE,
                      !.phase = "IDLE", !.score = 0, !.roster = {}]
           left == send_session([st EXCEPT !.clients[fd] = idle], fd)
           d == [left EXCEPT !.rooms[i].members = room_del_member(@, fd)]
           t == AfterDeparture(d, i, c.is_owner)
<1>1. C \in [Fds -> ClientType] /\ R \in [Slots -> RoomType] /\ c \in ClientType BY Types
<1>2. idle \in ClientType /\ idle.room_id = ROOM_NONE BY <1>1, IdleType, ZenonT(60)
<1>3. IsState(left) /\ left.clients = [C EXCEPT ![fd] = idle] /\ left.rooms = R
  <2> HIDE DEF idle
  <2> QED BY <1>1, SendKeeps DEF IsState
<1>4. CASE c.room_id = ROOM_NONE
  BY <1>4, SendKeeps, SMTT(60) DEF handle_leave
<1>5. CASE c.room_id # ROOM_NONE /\ i = 0
  <2>1. handle_leave(st, fd) = left BY <1>5, ZenonT(60) DEF handle_leave
  <2>2. \A j \in Slots : fd \notin Members(R, j) BY <1>5, Roomless, ZenonT(60)
  <2> DEFINE D == [C EXCEPT ![fd] = idle]
  <2> HIDE DEF idle, left
  <2>3. /\ D \in [Fds -> ClientType] /\ D[fd].room_id <= 0 /\ \A f \in Fds \ {fd} : D[f] = C[f]
    BY <1>1, <1>2, SMTT(60) DEF ROOM_NONE
  <2> HIDE DEF D
  <2>4. Inv(D, R) BY <2>2, <2>3, OutsiderKeeps, ZenonT(60)
  <2> QED BY <1>3, <2>1, <2>4, ZenonT(60) DEF D
<1>6. CASE c.room_id # ROOM_NONE /\ i # 0
  <2>1. i \in Slots /\ fd \in Members(R, i) /\ InUse(R, i) BY <1>6, RoomOf, SMTT(60)
  <2>2. handle_leave(st, fd) = t BY <1>6, ZenonT(60) DEF handle_leave
  <2>3. c.is_owner \in BOOLEAN /\ R[i].members \in Seq(Fds) /\ IsInjective(R[i].members)
    BY <2>1, Types
  <2> HIDE DEF idle, i, c
  <2> HIDE DEF left
  <2>6. /\ IsState(d) /\ d.clients = [C EXCEPT ![fd] = idle]
        /\ d.rooms = [R EXCEPT ![i].members = room_del_member(@, fd)]
    BY <2>1, <1>1, <1>3, SMTT(60) DEF IsState
  <2> HIDE DEF d
  <2>7. /\ d.clients \in [Fds -> ClientType] /\ d.clients[fd] = idle
        /\ \A f \in Fds \ {fd} : d.clients[f] = C[f]
    BY <1>1, <1>2, <2>6, SMTT(60)
  <2>8. d.rooms \in [Slots -> RoomType] /\ fd \notin Listed(d.rooms, i)
    <3> DEFINE S == [R EXCEPT ![i].members = room_del_member(@, fd)]
    <3>1. S \in [Slots -> RoomType] /\ fd \notin Listed(S, i) BY <2>1, <2>3, <1>1, WithoutMember, ZenonT(60)
    <3>2. d.rooms = S BY <2>6
    <3> HIDE DEF S
    <3> QED BY <3>1, <3>2
  <2>9. Departed(d, i, c.is_owner, t)
    BY <2>1, <2>3, <2>6, <2>7, <2>8, DepartureEffect, SMTT(60) DEF Typed
  <2> HIDE DEF t
  <2>10. t.clients \in [Fds -> ClientType] /\ t.clients[fd] = idle
    BY <2>7, <2>8, <2>9 DEF Departed, Typed
  <2>11. Inv(t.clients, t.rooms)
    <3>1. Departed(d, i, C[fd].is_owner, t) BY <2>9, SMTT(60) DEF c
    <3>2. t.clients[fd].room_id = ROOM_NONE BY <1>2, <2>10
    <3>3. \A f \in Fds \ {fd} : t.clients[f] = t.clients[f] OBVIOUS
    <3> QED BY <2>1, <2>6, <2>7, <2>10, <3>1, <3>2, <3>3, DepartureKeeps, ZenonT(60)
  <2> QED BY <2>2, <2>11, ZenonT(60)
<1> QED BY <1>4, <1>5, <1>6, ZenonT(60)

(* client_close keeps the table invariant. *)
LEMMA CloseKeeps ==
  ASSUME NEW st, IsState(st), Inv(st.clients, st.rooms), NEW fd \in Fds
  PROVE  Inv(client_close(st, fd).clients, client_close(st, fd).rooms)
<1> DEFINE C == st.clients
           R == st.rooms
           i == room_find(R, C[fd].room_id)
           d == [st EXCEPT !.rooms[i].members = room_del_member(@, fd)]
           t == AfterDeparture(d, i, C[fd].is_owner)
           z == client_close(st, fd)
<1>1. /\ C \in [Fds -> ClientType] /\ R \in [Slots -> RoomType] /\ C[fd].is_owner \in BOOLEAN
      /\ \A j \in Slots : IsInjective(R[j].members) /\ Members(R, j) \subseteq Fds
  BY Types
<1>2. NoClient \in ClientType /\ NoClient.room_id = ROOM_NONE /\ NoClient.room_id <= 0
  BY NoClientType, SMTT(60) DEF ROOM_NONE
<1>3. CASE C[fd].room_id = ROOM_NONE \/ i = 0
  <2>1. z = [st EXCEPT !.clients[fd] = NoClient] BY <1>3, ZenonT(60) DEF client_close
  <2>2. z.clients = [C EXCEPT ![fd] = NoClient] /\ z.rooms = R BY <2>1, <1>1, ZenonT(60) DEF IsState
  <2>3. \A j \in Slots : fd \notin Members(R, j)
    BY <1>3, Roomless, ZenonT(60)
  <2> DEFINE D == [C EXCEPT ![fd] = NoClient]
  <2>4. D \in [Fds -> ClientType] /\ D[fd] = NoClient /\ \A f \in Fds \ {fd} : D[f] = C[f]
    BY <1>1, <1>2, ZenonT(60)
  <2> HIDE DEF D, z
  <2>5. Inv(D, R) BY <1>2, <2>3, <2>4, OutsiderKeeps, ZenonT(60)
  <2> QED BY <2>2, <2>5 DEF D, z
<1>4. CASE ~(C[fd].room_id = ROOM_NONE \/ i = 0)
  <2>1. i \in Slots /\ fd \in Members(R, i) BY <1>4, RoomOf
  <2>2. z = [t EXCEPT !.clients[fd] = NoClient] BY <1>4, ZenonT(60) DEF client_close
  <2> HIDE DEF i
  <2>3. /\ IsState(d) /\ d.clients = C
        /\ d.rooms = [R EXCEPT ![i].members = room_del_member(@, fd)]
    BY <2>1, <1>1, SMTT(60) DEF IsState
  <2> HIDE DEF d
  <2>4. d.rooms \in [Slots -> RoomType]
    <3> DEFINE S == [R EXCEPT ![i].members = room_del_member(@, fd)]
    <3>1. S \in [Slots -> RoomType] BY <2>1, <1>1, WithoutMember, ZenonT(60)
    <3>2. d.rooms = S BY <2>3
    <3> HIDE DEF S
    <3> QED BY <3>1, <3>2
  <2>5. Departed(d, i, C[fd].is_owner, t)
    BY <2>1, <2>3, <2>4, <1>1, DepartureEffect, ZenonT(60) DEF Typed
  <2> HIDE DEF t, z
  <2>6. IsState(t) /\ t.clients \in [Fds -> ClientType] BY <2>5 DEF Departed, Typed
  <2>7. z.clients = [t.clients EXCEPT ![fd] = NoClient] /\ z.rooms = t.rooms
    BY <2>2, <2>6, ZenonT(60) DEF IsState
  <2>8. /\ z.clients \in [Fds -> ClientType] /\ z.clients[fd].room_id = ROOM_NONE
        /\ \A f \in Fds \ {fd} : z.clients[f] = t.clients[f]
    BY <1>2, <2>6, <2>7
  <2>9. d.clients \in [Fds -> ClientType] /\ \A f \in Fds \ {fd} : d.clients[f] = C[f]
    BY <1>1, <2>3
  <2>10. Inv(z.clients, t.rooms)
    <3>1. d.rooms = [R EXCEPT ![i].members = room_del_member(@, fd)] BY <2>3
    <3>2. fd \in Members(R, i) /\ i \in Slots BY <2>1
    <3>3. Inv(C, R) OBVIOUS
    <3>4. PICK D \in [Fds -> ClientType] : D = z.clients BY <2>8, ZenonT(60)
    <3>5. D[fd].room_id = ROOM_NONE BY <2>8, <3>4, ZenonT(60)
    <3>7. \A f \in Fds \ {fd} : D[f] = t.clients[f] BY <2>8, <3>4
    <3> HIDE DEF C, R
    <3>8. Inv(D, t.rooms) BY <3>1, <3>2, <3>3, <3>5, <3>7, <2>5, <2>9, DepartureKeeps, ZenonT(60)
    <3> QED BY <3>4, <3>8
  <2> QED BY <2>7, <2>10, ZenonT(60) DEF z
<1> QED BY <1>3, <1>4, ZenonT(60)

(* handle_start keeps the table invariant. *)
LEMMA StartKeeps ==
  ASSUME NEW st, IsState(st), Inv(st.clients, st.rooms), NEW fd \in Fds, NEW seed \in Nat
  PROVE  Inv(handle_start(st, fd, seed).clients, handle_start(st, fd, seed).rooms)
<1> DEFINE C == st.clients
           R == st.rooms
           i == room_find(R, C[fd].room_id)
           r == R[i]
           t == handle_start(st, fd, seed)
           D == [f \in Fds |-> IF f \in Range(r.members)
                               THEN [C[f] EXCEPT !.phase = "PLAYING"] ELSE C[f]]
           q == room_mark_standings_dirty(StartedRoom(r, seed))
           S == [R EXCEPT ![i] = q]
<1>1. \/ t = send_reject(st, fd, REJECT_CONFLICT)
      \/ t = send_reject(st, fd, REJECT_NOT_OWNER)
      \/ i # 0 /\ t.clients = D /\ t.rooms = S
  <2>1. CASE C[fd].room_id = ROOM_NONE BY <2>1, ZenonT(60) DEF handle_start
  <2>2. CASE C[fd].room_id # ROOM_NONE /\ ~C[fd].is_owner BY <2>2, ZenonT(60) DEF handle_start
  <2>3. CASE /\ C[fd].room_id # ROOM_NONE /\ C[fd].is_owner
             /\ i = 0 \/ (i # 0 /\ r.phase = "PLAYING")
    BY <2>3, ZenonT(60) DEF handle_start
  <2>4. CASE /\ C[fd].room_id # ROOM_NONE /\ C[fd].is_owner
             /\ ~(i = 0 \/ (i # 0 /\ r.phase = "PLAYING"))
    BY <2>4, ZenonT(60) DEF handle_start, room_broadcast
  <2> QED BY <2>1, <2>2, <2>3, <2>4, SMTT(60)
<1>2. CASE t = send_reject(st, fd, REJECT_CONFLICT) \/ t = send_reject(st, fd, REJECT_NOT_OWNER)
  <2>1. \A reason : send_reject(st, fd, reason).clients = C /\ send_reject(st, fd, reason).rooms = R
    BY SendKeeps, ZenonT(60)
  <2>2. t.clients = C /\ t.rooms = R BY <1>2, <2>1, ZenonT(60)
  <2> QED BY <2>2
<1>3. CASE i # 0 /\ t.clients = D /\ t.rooms = S
  <2>1. i \in Slots /\ InUse(R, i) BY <1>3, RoomOf, ZenonT(60)
  <2>2. /\ C \in [Fds -> ClientType] /\ R \in [Slots -> RoomType] /\ r \in RoomType
        /\ \A j \in Slots : Members(R, j) \subseteq Fds
    BY <2>1, Types
  <2>3. /\ q \in RoomType /\ q.id = r.id /\ q.members = r.members
        /\ q.next_player_id = r.next_player_id
    <3>1. /\ StartedRoom(r, seed) \in RoomType /\ StartedRoom(r, seed).id = r.id
          /\ StartedRoom(r, seed).members = r.members
          /\ StartedRoom(r, seed).next_player_id = r.next_player_id
      BY <2>2, ZenonT(60) DEF StartedRoom, RoomType
    <3> QED BY <3>1, MarkDirty, ZenonT(60)
  <2>4. /\ D \in [Fds -> ClientType] /\ SameClients(C, D)
        /\ \A f \in Fds : D[f].phase = IF f \in Members(R, i) THEN "PLAYING" ELSE C[f].phase
    <3>1. Members(R, i) = Range(r.members) BY <2>1, ZenonT(60) DEF Members
    <3> QED BY <2>2, <3>1 DEF ClientType, Phases, SameClients
  <2> HIDE DEF q, D
  <2>5. S \in [Slots -> RoomType] /\ SameRooms(R, S) /\ \A j \in Slots \ {i} : S[j] = R[j]
    BY <2>1, <2>2, <2>3, ZenonT(60) DEF SameRooms
  <2> HIDE DEF S
  <2>6. CanEnd(D, S)
    <3> SUFFICES ASSUME NEW j \in Slots, S[j].phase = "PLAYING", InUse(S, j)
                 PROVE  /\ \E f \in Members(S, j) : D[f].phase = "PLAYING"
                        /\ \A f \in Members(S, j) : D[f].phase \in {"PLAYING", "GAME_OVER"}
      BY SMTT(60) DEF CanEnd
    <3>1. Members(S, j) = Members(R, j) /\ InUse(R, j) BY <2>5, ZenonT(60) DEF SameRooms, Members, InUse
    <3>2. CASE j = i
      <4>1. Members(R, i) # {}
        <5>1. R[i].members # <<>> BY <2>1, ZenonT(60) DEF Inv, InSync
        <5>2. R[i].members \in Seq(Fds) BY <2>1, Types, ZenonT(60)
        <5> QED BY <2>1, <5>1, <5>2, RangeBasics DEF Members
      <4> QED BY <3>1, <3>2, <4>1, <2>2, <2>4, ZenonT(60)
    <3>3. CASE j # i
      <4>1. \A f \in Members(R, j) : f \in Fds /\ f \notin Members(R, i)
        BY <3>3, <2>1, OneRoom
      <4> QED BY <3>1, <3>3, <4>1, <2>4, <2>5, ZenonT(60) DEF Inv, CanEnd
    <3> QED BY <3>2, <3>3, ZenonT(60)
  <2>7. Inv(D, S) BY <2>4, <2>5, <2>6, SameMembership DEF Typed
  <2> QED BY <1>3, <2>7, ZenonT(60)
<1> QED BY <1>1, <1>2, <1>3, ZenonT(60)

(* handle_score keeps the table invariant. *)
LEMMA ScoreKeeps ==
  ASSUME NEW st, IsState(st), Inv(st.clients, st.rooms), NEW fd \in Fds, NEW score \in Nat
  PROVE  Inv(handle_score(st, fd, score).clients, handle_score(st, fd, score).rooms)
<1> DEFINE C == st.clients
           R == st.rooms
           i == room_find(R, C[fd].room_id)
           t == handle_score(st, fd, score)
           scored == [st EXCEPT !.clients[fd].score = score]
           D == [C EXCEPT ![fd].score = score]
           q == room_mark_standings_dirty(R[i])
<1>1. CASE C[fd].room_id = ROOM_NONE \/ C[fd].score = score
  BY <1>1, SMTT(60) DEF handle_score
<1>2. CASE C[fd].room_id # ROOM_NONE /\ C[fd].score # score /\ i # 0
  <2>1. i \in Slots BY <1>2, RoomOf
  <2>2. t = [scored EXCEPT !.rooms[i] = room_mark_standings_dirty(@)]
    BY <1>2, ZenonT(60) DEF handle_score
  <2>3. C \in [Fds -> ClientType] /\ R \in [Slots -> RoomType] /\ R[i] \in RoomType
        /\ \A j \in Slots : Members(R, j) \subseteq Fds
    BY <2>1, Types
  <2> HIDE DEF i
  <2>4. IsState(scored) /\ scored.clients = D /\ scored.rooms = R BY <2>3 DEF IsState
  <2> HIDE DEF scored
  <2>5. t.clients = D /\ t.rooms = [R EXCEPT ![i] = q] BY <2>1, <2>2, <2>3, <2>4, SMTT(60) DEF IsState
  <2>6. /\ D \in [Fds -> ClientType] /\ SameClients(C, D)
        /\ \A f \in Fds : D[f].phase = C[f].phase
    BY <2>3, ZenonT(60) DEF ClientType, SameClients
  <2>7. /\ q \in RoomType /\ q.id = R[i].id /\ q.members = R[i].members
        /\ q.next_player_id = R[i].next_player_id /\ q.phase = R[i].phase
    BY <2>3, MarkDirty, ZenonT(60)
  <2> DEFINE S == [R EXCEPT ![i] = q]
  <2> HIDE DEF D, q
  <2>8. /\ S \in [Slots -> RoomType] /\ SameRooms(R, S)
        /\ \A j \in Slots : S[j].phase = R[j].phase
    BY <2>1, <2>3, <2>7, ZenonT(60) DEF SameRooms
  <2> HIDE DEF S
  <2>9. CanEnd(D, S)
    <3>1. \A j \in Slots : Members(S, j) = Members(R, j) /\ (InUse(S, j) <=> InUse(R, j))
      BY <2>8, ZenonT(60) DEF SameRooms, Members, InUse
    <3>2. CanEnd(C, R) /\ \A j \in Slots : \A f \in Members(R, j) : D[f].phase = C[f].phase
      BY <2>3, <2>6, ZenonT(60) DEF Inv
    <3> QED BY <2>8, <3>1, <3>2, CanEndKept, SMTT(60)
  <2>10. Inv(D, S) BY <2>6, <2>8, <2>9, SameMembership, ZenonT(60) DEF Typed
  <2> QED BY <2>5, <2>10, ZenonT(60) DEF S
<1>3. CASE C[fd].room_id # ROOM_NONE /\ C[fd].score # score /\ i = 0
  <2>1. t = scored BY <1>3, ZenonT(60) DEF handle_score
  <2>2. C[fd].room_id <= 0 /\ \A j \in Slots : fd \notin Members(R, j) BY <1>3, Roomless, ZenonT(60)
  <2>3. C \in [Fds -> ClientType] BY Types
  <2>4. scored.clients = D /\ scored.rooms = R BY <2>3 DEF IsState
  <2>5. /\ D \in [Fds -> ClientType] /\ D[fd].room_id = C[fd].room_id
        /\ \A f \in Fds \ {fd} : D[f] = C[f]
    BY <2>3, ZenonT(60) DEF ClientType
  <2> HIDE DEF D, scored
  <2>6. Inv(D, R) BY <2>2, <2>5, OutsiderKeeps, SMTT(60)
  <2> QED BY <2>1, <2>4, <2>6, ZenonT(60)
<1> QED BY <1>1, <1>2, <1>3, SMTT(60)

(* handle_gameover keeps the table invariant. *)
LEMMA GameoverKeeps ==
  ASSUME NEW st, IsState(st), Inv(st.clients, st.rooms), NEW fd \in Fds, NEW score \in Nat
  PROVE  Inv(handle_gameover(st, fd, score).clients, handle_gameover(st, fd, score).rooms)
<1> DEFINE C == st.clients
           R == st.rooms
           i == room_find(R, C[fd].room_id)
           t == handle_gameover(st, fd, score)
           over == [st EXCEPT !.clients[fd].phase = "GAME_OVER", !.clients[fd].score = score]
           o == [over EXCEPT !.rooms[i] = room_mark_standings_dirty(@)]
           D == [C EXCEPT ![fd] = [@ EXCEPT !.phase = "GAME_OVER", !.score = score]]
           q == room_mark_standings_dirty(R[i])
           S == [R EXCEPT ![i] = q]
<1>1. CASE C[fd].room_id = ROOM_NONE
  BY <1>1, SMTT(60) DEF handle_gameover
<1>2. CASE C[fd].room_id # ROOM_NONE /\ i # 0
  <2>1. i \in Slots /\ fd \in Members(R, i) /\ InUse(R, i) BY <1>2, RoomOf
  <2>2. t = room_check_round_end(o, i) BY <1>2, ZenonT(60) DEF handle_gameover
  <2>3. C \in [Fds -> ClientType] /\ R \in [Slots -> RoomType] /\ R[i] \in RoomType
        /\ \A j \in Slots : Members(R, j) \subseteq Fds
    BY <2>1, Types
  <2> HIDE DEF i
  <2>4. IsState(over) /\ over.clients = D /\ over.rooms = R BY <2>3, ZenonT(60) DEF IsState
  <2> HIDE DEF over
  <2>5. IsState(o) /\ o.clients = D /\ o.rooms = S BY <2>1, <2>3, <2>4 DEF IsState
  <2>6. /\ D \in [Fds -> ClientType] /\ SameClients(C, D)
        /\ \A f \in Fds : D[f].phase = IF f = fd THEN "GAME_OVER" ELSE C[f].phase
    BY <2>3, ZenonT(60) DEF ClientType, SameClients, Phases
  <2>7. /\ q \in RoomType /\ q.id = R[i].id /\ q.members = R[i].members
        /\ q.next_player_id = R[i].next_player_id /\ q.phase = R[i].phase
    BY <2>3, MarkDirty, SMTT(60)
  <2> HIDE DEF D, q, o
  <2>8. /\ S \in [Slots -> RoomType] /\ SameRooms(R, S)
        /\ \A j \in Slots : S[j].phase = R[j].phase
    BY <2>1, <2>3, <2>7 DEF SameRooms
  <2> HIDE DEF S, t
  <2>9. /\ Typed(t.clients, t.rooms) /\ SameClients(D, t.clients) /\ SameRooms(S, t.rooms)
        /\ \A j \in Slots \ {i} : t.rooms[j] = S[j]
        /\ \A f \in Fds \ Members(S, i) : t.clients[f] = D[f]
        /\ t.rooms[i].phase = "PLAYING" =>
             t.clients = D /\ t.rooms = S /\ ~RoundOver(D, S[i])
    <3>1. Typed(o.clients, o.rooms) BY <2>5, <2>6, <2>8, ZenonT(60) DEF Typed
    <3>2. /\ Typed(t.clients, t.rooms) /\ SameClients(o.clients, t.clients) /\ SameRooms(o.rooms, t.rooms)
          /\ \A j \in Slots \ {i} : t.rooms[j] = o.rooms[j]
          /\ \A f \in Fds \ Listed(o.rooms, i) : t.clients[f] = o.clients[f]
          /\ t.rooms[i].phase = "PLAYING" => t = o /\ ~RoundOver(o.clients, o.rooms[i])
      BY <2>1, <2>2, <2>5, <3>1, CheckRoundEnd, ZenonT(60)
    <3>3. Listed(S, i) = Members(S, i)
      BY <2>1, <2>8, ListedMembers, ZenonT(60) DEF SameRooms, InUse
    <3> QED BY <2>5, <3>2, <3>3, ZenonT(60)
  <2>10. CanEnd(t.clients, t.rooms)
    <3> SUFFICES ASSUME NEW j \in Slots, t.rooms[j].phase = "PLAYING", InUse(t.rooms, j)
                 PROVE  LET M == Members(t.rooms, j)
                        IN  /\ \E f \in M : t.clients[f].phase = "PLAYING"
                            /\ \A f \in M : t.clients[f].phase \in {"PLAYING", "GAME_OVER"}
      BY ZenonT(60) DEF CanEnd
    <3>1. /\ Members(t.rooms, j) = Members(R, j) /\ Members(S, j) = Members(R, j)
          /\ Members(S, i) = Members(R, i) /\ InUse(R, j)
      BY <2>1, <2>8, <2>9, ZenonT(60) DEF SameRooms, Members, InUse
    <3>2. CASE j = i
      <4>1. t.clients = D /\ ~RoundOver(D, S[i]) /\ R[i].phase = "PLAYING"
        BY <3>2, <2>8, <2>9, SMTT(60)
      <4>2. \A f \in Members(R, i) : C[f].phase \in {"PLAYING", "GAME_OVER"}
        <5>1. CanEnd(C, R) BY ZenonT(60) DEF Inv
        <5>2. i \in Slots /\ R[i].phase = "PLAYING" /\ InUse(R, i) BY <3>1, <3>2, <4>1, ZenonT(60)
        <5> QED BY <5>1, <5>2, ZenonT(60) DEF CanEnd
      <4>3. \A f \in Members(R, i) : D[f].phase \in {"PLAYING", "GAME_OVER"}
        BY <4>2, <2>3, <2>1, <2>6, SMTT(60)
      <4>4. S[i].members # <<>> /\ Range(S[i].members) = Members(R, i) /\ S[i].phase = "PLAYING"
        BY <3>1, <3>2, <4>1, <2>1, <2>8, ZenonT(60) DEF Inv, InSync, SameRooms, Members
      <4>5. \E f \in Members(R, i) : D[f].phase # "GAME_OVER"
        BY <4>1, <4>4, ZenonT(60) DEF RoundOver
      <4> QED BY <3>1, <3>2, <4>1, <4>3, <4>5, ZenonT(60)
    <3>3. CASE j # i
      <4>1. \A f \in Members(R, j) : f \in Fds /\ f \notin Members(R, i)
        BY <3>3, <2>1, OneRoom, ZenonT(60)
      <4>2. \A f \in Members(R, j) : f # fd /\ t.clients[f] = D[f] BY <4>1, <3>1, <2>1, <2>9, ZenonT(60)
      <4>3. R[j].phase = "PLAYING" BY <3>3, <2>8, <2>9, SMTT(60)
      <4>4. /\ \E f \in Members(R, j) : C[f].phase = "PLAYING"
            /\ \A f \in Members(R, j) : C[f].phase \in {"PLAYING", "GAME_OVER"}
        <5>1. CanEnd(C, R) BY ZenonT(60) DEF Inv
        <5>2. j \in Slots /\ R[j].phase = "PLAYING" /\ InUse(R, j) BY <3>1, <4>3, ZenonT(60)
        <5> QED BY <5>1, <5>2, ZenonT(60) DEF CanEnd
      <4>5. \A f \in Members(R, j) : t.clients[f].phase = C[f].phase BY <4>1, <4>2, <2>6, SMTT(60)
      <4> QED BY <3>1, <4>4, <4>5, ZenonT(60)
    <3> QED BY <3>2, <3>3, ZenonT(60)
  <2>11. SameClients(C, t.clients) /\ SameRooms(R, t.rooms)
    <3>1. SameClients(C, t.clients) BY <2>6, <2>9, SameClientsTrans, ZenonT(60)
    <3>2. SameRooms(R, t.rooms) BY <2>8, <2>9, SameRoomsTrans, ZenonT(60)
    <3> QED BY <3>1, <3>2, SMTT(60)
  <2>12. Inv(t.clients, t.rooms) BY <2>9, <2>10, <2>11, SameMembership, ZenonT(60)
  <2> QED BY <2>12, SMTT(60) DEF t
<1>3. CASE C[fd].room_id # ROOM_NONE /\ i = 0
  <2>1. t = over BY <1>3, ZenonT(60) DEF handle_gameover
  <2>2. C[fd].room_id <= 0 /\ \A j \in Slots : fd \notin Members(R, j) BY <1>3, Roomless, ZenonT(60)
  <2>3. C \in [Fds -> ClientType] BY Types
  <2>4. over.clients = D /\ over.rooms = R BY <2>3, ZenonT(60) DEF IsState
  <2>5. /\ D \in [Fds -> ClientType] /\ D[fd].room_id = C[fd].room_id
        /\ \A f \in Fds \ {fd} : D[f] = C[f]
    BY <2>3, ZenonT(60) DEF ClientType, Phases
  <2> HIDE DEF D, over
  <2>6. Inv(D, R) BY <2>2, <2>5, OutsiderKeeps, SMTT(60)
  <2> QED BY <2>1, <2>4, <2>6, ZenonT(60)
<1> QED BY <1>1, <1>2, <1>3, ZenonT(60)

(* And those on finite sets from here on. *)
INSTANCE FiniteSetTheorems

(* One of MAX_ROOMS + 1 numbers is not in use, so room_create(0) finds one. *)
LEMMA SmallestFreeIdFree ==
  ASSUME NEW R
  PROVE  /\ SmallestFreeId(R) \in Nat /\ SmallestFreeId(R) > 0
         /\ \A i \in Slots : R[i].id # SmallestFreeId(R)
<1> DEFINE N == 1..(MAX_ROOMS + 1)
           T == {n \in N : \A i \in Slots : R[i].id # n}
<1>0. MAX_ROOMS \in Nat BY RoomsAssumption DEF RoomsAssumption
<1>1. T # {}
  <2> SUFFICES ASSUME T = {} PROVE FALSE OBVIOUS
  <2> DEFINE f == [n \in N |-> CHOOSE i \in Slots : R[i].id = n]
  <2>1. \A n \in N : f[n] \in Slots /\ R[f[n]].id = n OBVIOUS
  <2>2. f \in [N -> Slots] BY <2>1
  <2>3. IsFiniteSet(N) /\ Cardinality(N) = MAX_ROOMS + 1 BY <1>0, FS_Interval, SMTT(60)
  <2>4. IsFiniteSet(Slots) /\ Cardinality(Slots) = MAX_ROOMS BY <1>0, FS_Interval, SMTT(60) DEF Slots
  <2>5. Cardinality(Slots) < Cardinality(N) BY <1>0, <2>3, <2>4, SMTT(60)
  <2> HIDE DEF f, N
  <2>6. \E x, y \in N : x # y /\ f[x] = f[y] BY <2>2, <2>3, <2>4, <2>5, FS_PigeonHole, SMTT(60)
  <2> QED BY <2>1, <2>6, ZenonT(60)
<1>2. T \in SUBSET Nat BY <1>0
<1>3. PICK n \in T : \A m \in T : n <= m
  <2> HIDE DEF T
  <2> QED BY <1>1, <1>2, NatMin, ZenonT(60)
<1>4. \A m \in 1..(n - 1) : \E i \in Slots : R[i].id = m
  BY <1>0, <1>3
<1>5. /\ SmallestFreeId(R) \in N
      /\ \A i \in Slots : R[i].id # SmallestFreeId(R)
  BY <1>3, <1>4, ZenonT(60) DEF SmallestFreeId
<1> QED BY <1>0, <1>5

-----------------------------------------------------------------------------
(* The inductive invariant, for any clients C and rooms R. *)

(* handle_join keeps the table invariant. *)
LEMMA JoinKeeps ==
  ASSUME NEW st, IsState(st), Inv(st.clients, st.rooms), NEW fd \in Fds, st.clients[fd].live,
         NEW want \in Int
  PROVE  Inv(handle_join(st, fd, want).clients, handle_join(st, fd, want).rooms)
<1> DEFINE t == handle_join(st, fd, want)
           found == room_find(st.rooms, want)
           free == FreeSlot(st.rooms)
           r == st.rooms[found]
           c == st.clients[fd]
<1>1. CASE c.room_id # ROOM_NONE \/ (found # 0 /\ r.phase = "PLAYING")
  <2>1. t = send_reject(st, fd, REJECT_CONFLICT) BY <1>1, ZenonT(60) DEF handle_join
  <2> QED BY <2>1, SendKeeps, SMTT(60)
<1>2. CASE /\ ~(c.room_id # ROOM_NONE \/ (found # 0 /\ r.phase = "PLAYING"))
           /\ (found = 0 /\ free = 0) \/ (found # 0 /\ Len(r.members) >= MAX_ROOM_MEMBERS)
  <2>1. t = send_reject(st, fd, REJECT_FULL) BY <1>2, ZenonT(60) DEF handle_join
  <2> QED BY <2>1, SendKeeps, SMTT(60)
<1>3. CASE /\ ~(c.room_id # ROOM_NONE \/ (found # 0 /\ r.phase = "PLAYING"))
           /\ found # 0 /\ ~(Len(r.members) >= MAX_ROOM_MEMBERS)
  <2>1. t = Admit(st, fd, found, r, -1) BY <1>3, ZenonT(60) DEF handle_join
  <2>2. found \in Slots /\ r.id = want /\ want > 0 BY <1>3, RoomFind, SMTT(60)
  <2>3. r \in RoomType BY <2>2, ZenonT(60) DEF Inv, Typed
  <2> HIDE DEF t, found, r
  <2>4. Inv(Admit(st, fd, found, r, -1).clients, Admit(st, fd, found, r, -1).rooms)
    <3>1. r = st.rooms[found] BY ZenonT(60) DEF r
    <3> QED BY <1>3, <2>2, <2>3, <3>1, AdmitKeeps, SMTT(60)
  <2> QED BY <2>1, <2>4, ZenonT(60) DEF t
<1>4. CASE /\ ~(c.room_id # ROOM_NONE \/ (found # 0 /\ r.phase = "PLAYING"))
           /\ found = 0 /\ free # 0 /\ want >= 0
  <2> DEFINE q == room_create(want, st.rooms)
  <2>1. t = Admit(st, fd, free, q, fd) BY <1>4, ZenonT(60) DEF handle_join
  <2>2. free \in Slots /\ st.rooms[free].id = 0 BY <1>4, FreeSlotFree, ZenonT(60)
  <2>3. want = 0 \/ \A j \in Slots : st.rooms[j].id # want
    BY <1>4, RoomFind, SMTT(60) DEF Slots
  <2>4. /\ q \in RoomType /\ q.members = <<>> /\ q.phase # "PLAYING"
        /\ q.id \in Nat \ {0} /\ \A j \in Slots : st.rooms[j].id # q.id
    <3>1. PICK n \in Nat \ {0} : /\ n = IF want = 0 THEN SmallestFreeId(st.rooms) ELSE want
                                 /\ \A j \in Slots : st.rooms[j].id # n
      <4>1. CASE want = 0 BY <4>1, SmallestFreeIdFree, SMTT(60)
      <4>2. CASE want # 0 BY <1>4, <2>3, <4>2, SMTT(60)
      <4> QED BY <4>1, <4>2
    <3>2. q = [FreeRoom EXCEPT !.id = n] BY <3>1, ZenonT(60) DEF room_create
    <3> HIDE DEF q
    <3> QED BY <3>1, <3>2, FreeRoomType, SMTT(60) DEF RoomType
  <2> HIDE DEF t, free, q
  <2>5. Inv(Admit(st, fd, free, q, fd).clients, Admit(st, fd, free, q, fd).rooms)
    BY <1>4, <2>2, <2>4, AdmitKeeps, ZenonT(60)
  <2> QED BY <2>1, <2>5, ZenonT(60) DEF t
<1>5. CASE /\ ~(c.room_id # ROOM_NONE \/ (found # 0 /\ r.phase = "PLAYING"))
           /\ found = 0 /\ free # 0 /\ ~(want >= 0)
  <2> DEFINE q == room_create(want, st.rooms)
  <2>1. t = Admit(st, fd, free, q, fd) BY <1>5, ZenonT(60) DEF handle_join
  <2>2. free \in Slots /\ st.rooms[free].id = 0 BY <1>5, FreeSlotFree, ZenonT(60)
  <2>3. q = [FreeRoom EXCEPT !.id = want] BY <1>5, SMTT(60) DEF room_create
  <2> HIDE DEF t, free, q
  <2>4. q \in RoomType /\ q.members = <<>> /\ ~(q.id > 0)
    BY <1>5, <2>3, FreeRoomType, SMTT(60) DEF RoomType
  <2>5. Inv(Admit(st, fd, free, q, fd).clients, Admit(st, fd, free, q, fd).rooms)
    BY <1>5, <2>2, <2>4, AdmitStray, ZenonT(60)
  <2> QED BY <2>1, <2>5, ZenonT(60) DEF t
<1> QED BY <1>1, <1>2, <1>3, <1>4, <1>5, ZenonT(60)

(* client_handle keeps the table invariant, whatever the message. *)
LEMMA HandleKeeps ==
  ASSUME NEW st, IsState(st), Inv(st.clients, st.rooms),
         NEW fd \in Fds, st.clients[fd].live, NEW msg \in Messages, NEW seed \in Seeds
  PROVE  Inv(client_handle(st, fd, msg, seed).clients, client_handle(st, fd, msg, seed).rooms)
<1> DEFINE t == client_handle(st, fd, msg, seed)
<1>0. seed \in Nat /\ 0..MaxScore \subseteq Nat /\ JoinIds \subseteq Int BY RoomsAssumption, SMTT(60) DEF RoomsAssumption
<1>1. CASE msg \in [type : {"JOIN"}, room_id : {id \in JoinIds : JoinAllowed(id)}]
  <2>1. msg.room_id \in Int /\ t = handle_join(st, fd, msg.room_id) BY <1>0, <1>1, ZenonT(60) DEF client_handle
  <2> QED BY <2>1, JoinKeeps, SMTT(60)
<1>2. CASE msg \in [type : {"LEAVE", "START"}] /\ msg.type = "LEAVE"
  <2>1. t = handle_leave(st, fd) BY <1>2, ZenonT(60) DEF client_handle
  <2> QED BY <2>1, LeaveKeeps, SMTT(60)
<1>3. CASE msg \in [type : {"LEAVE", "START"}] /\ msg.type = "START"
  <2>1. t = handle_start(st, fd, seed) BY <1>3, ZenonT(60) DEF client_handle
  <2> QED BY <2>1, <1>0, StartKeeps, ZenonT(60)
<1>4. CASE msg \in [type : {"GARBAGE"}, lines : 0..1]
  <2>1. t = handle_garbage(st, fd, msg.lines) BY <1>4, ZenonT(60) DEF client_handle
  <2> QED BY <2>1, GarbageKeeps
<1>5. CASE msg \in [type : {"SCORE", "GAMEOVER"}, score : 0..MaxScore] /\ msg.type = "SCORE"
  <2>1. t = handle_score(st, fd, msg.score) /\ msg.score \in Nat BY <1>0, <1>5, ZenonT(60) DEF client_handle
  <2> QED BY <2>1, ScoreKeeps, SMTT(60)
<1>6. CASE msg \in [type : {"SCORE", "GAMEOVER"}, score : 0..MaxScore] /\ msg.type = "GAMEOVER"
  <2>1. t = handle_gameover(st, fd, msg.score) /\ msg.score \in Nat BY <1>0, <1>6, ZenonT(60) DEF client_handle
  <2> QED BY <2>1, GameoverKeeps, SMTT(60)
<1>7. \/ msg \in [type : {"JOIN"}, room_id : {id \in JoinIds : JoinAllowed(id)}]
      \/ msg \in [type : {"LEAVE", "START"}] /\ (msg.type = "LEAVE" \/ msg.type = "START")
      \/ msg \in [type : {"GARBAGE"}, lines : 0..1]
      \/ /\ msg \in [type : {"SCORE", "GAMEOVER"}, score : 0..MaxScore]
         /\ msg.type = "SCORE" \/ msg.type = "GAMEOVER"
  BY ZenonT(60) DEF Messages
<1> QED BY <1>1, <1>2, <1>3, <1>4, <1>5, <1>6, <1>7, ZenonT(60)

-----------------------------------------------------------------------------

(* Every step of the server keeps the table invariant. *)
LEMMA NextInv ==
  ASSUME Inv(clients, rooms), [Next]_vars
  PROVE  Inv(clients', rooms')
<1>1. IsState(State) /\ State.clients = clients /\ State.rooms = rooms BY DEF State, IsState
<1>2. ASSUME NEW st, NEW full, NEW list, NEW closed, Become(st, full, list, closed),
             Inv(st.clients, st.rooms)
      PROVE  Inv(clients', rooms')
  BY <1>2, ZenonT(60) DEF Become
<1> HIDE DEF State
<1>3. ASSUME NEW full \in SUBSET Blockable, NEW fd \in Fds, Register(fd, full)
      PROVE  Inv(clients', rooms')
  BY <1>1, <1>2, <1>3, AddKeeps, ZenonT(60) DEF Register
<1>4. ASSUME NEW full \in SUBSET Blockable, NEW fd \in Fds, NEW msg \in Messages,
             Route(fd, msg, full)
      PROVE  Inv(clients', rooms')
  BY <1>1, <1>2, <1>4, HandleKeeps, ZenonT(60) DEF Route
<1>5. ASSUME NEW full \in SUBSET Blockable, NEW fd \in Fds, drop_session(fd, full)
      PROVE  Inv(clients', rooms')
  BY <1>1, <1>2, <1>5, CloseKeeps, ZenonT(60) DEF drop_session
<1>6. ASSUME NEW full \in SUBSET Blockable, client_take_wedged(full)
      PROVE  Inv(clients', rooms')
  BY <1>1, <1>2, <1>6, CloseKeeps, ZenonT(60) DEF client_take_wedged
<1>7. ASSUME NEW full \in SUBSET Blockable, Flush(full)
      PROVE  Inv(clients', rooms')
  BY <1>1, <1>2, <1>7, FlushKeeps, ZenonT(60) DEF Flush
<1>8. CASE UNCHANGED vars BY <1>8 DEF vars
<1> QED BY <1>3, <1>4, <1>5, <1>6, <1>7, <1>8, ZenonT(60) DEF Next

(* The room table's invariant, for any number of sessions, rooms, members  *)
(* and any wedged list, and whatever number a JOIN names: no order of      *)
(* joins, leaves, starts, game overs, hangups and full sockets takes the   *)
(* two tables apart, as far as rooms that can be found go.                 *)
THEOREM TablesCorrect ==
  Spec => [](TypeOK /\ Membership /\ OneOwner /\ UniquePlayers /\ RoundNotStuck)
<1>1. ensure_init => Inv(clients, rooms) BY InitInv
<1>2. Inv(clients, rooms) /\ [Next]_vars => Inv(clients, rooms)' BY NextInv, SMTT(60)
<1>3. Inv(clients, rooms) => TypeOK /\ Membership /\ OneOwner /\ UniquePlayers /\ RoundNotStuck
  BY DEF Inv, Typed, TypeOK, Membership, OneOwner, UniquePlayers, RoundNotStuck
<1> QED BY <1>1, <1>2, <1>3, PTL DEF Spec

(* START always has exactly one session that may issue it, however many    *)
(* members leave, hang up or are cut off while they own the room.          *)
THEOREM OneOwnerAlways ==
  Spec => []OneOwner
BY TablesCorrect, PTL

(* client_fd_by_player names at most one session, in any history of joins  *)
(* and departures.                                                         *)
THEOREM UniquePlayersAlways ==
  Spec => []UniquePlayers
BY TablesCorrect, PTL

(* room_check_round_end is called wherever a round may have lost its last  *)
(* player: no round is left running that no game over can end.             *)
THEOREM RoundNotStuckAlways ==
  Spec => []RoundNotStuck
BY TablesCorrect, PTL

-----------------------------------------------------------------------------
(* What the members have been told. *)

(* A room whose members have its roster, and its standings if it plays and *)
(* nothing is marked to be sent.                                           *)
FreshRoom(C, R, i) ==
  /\ \A f \in Members(R, i) : C[f].roster = Roster(C, R[i].members)
  /\ InUse(R, i) /\ R[i].phase = "PLAYING" =>
       R[i].standings_dirty \/ R[i].last_standings = Standings(C, R[i].members)

Fresh(C, R) == \A i \in Slots : FreshRoom(C, R, i)

(* A roster is made of ids and of who owns the room. *)
LEMMA SameRoster ==
  ASSUME NEW C, NEW D, NEW m,
         \A f \in Range(m) : D[f].player_id = C[f].player_id /\ D[f].is_owner = C[f].is_owner
  PROVE  Roster(D, m) = Roster(C, m)
<1> DEFINE Row(E, f) == [player_id |-> E[f].player_id, is_owner |-> E[f].is_owner]
<1>1. \A f \in Range(m) : Row(D, f) = Row(C, f) OBVIOUS
<1> HIDE DEF Row
<1>2. {Row(D, f) : f \in Range(m)} = {Row(C, f) : f \in Range(m)} BY <1>1
<1> QED BY <1>2, ZenonT(60) DEF Roster, Row

(* A room nothing of which has changed is as fresh as it was. *)
LEMMA UntouchedFresh ==
  ASSUME NEW C, NEW R, NEW D, NEW S, NEW j, FreshRoom(C, R, j), S[j] = R[j],
         \A f \in Members(R, j) : D[f] = C[f]
  PROVE  FreshRoom(D, S, j)
<1> DEFINE m == R[j].members
           Row(E, f) == [player_id |-> E[f].player_id, score |-> E[f].score,
                         game_over |-> E[f].phase = "GAME_OVER"]
<1>0. CASE ~InUse(R, j)
  <2>1. ~InUse(S, j) BY <1>0, ZenonT(60) DEF InUse
  <2> QED BY <2>1, NoMembers, ZenonT(60) DEF FreshRoom
<1> SUFFICES ASSUME InUse(R, j) PROVE FreshRoom(D, S, j) BY <1>0, ZenonT(60)
<1>1. Members(S, j) = Members(R, j) /\ Members(R, j) = Range(m) /\ InUse(S, j)
  BY ZenonT(60) DEF Members, InUse
<1>2. Roster(D, m) = Roster(C, m) BY <1>1, SameRoster
<1>3. Standings(D, m) = Standings(C, m)
  <2>1. \A f \in Range(m) : Row(D, f) = Row(C, f) /\ D[f].live = C[f].live BY <1>1, ZenonT(60)
  <2> HIDE DEF Row
  <2>2. Range(m) \cap Live(D) = Range(m) \cap Live(C) BY <2>1, ZenonT(60) DEF Live
  <2>3. {Row(D, f) : f \in Range(m) \cap Live(D)} = {Row(C, f) : f \in Range(m) \cap Live(C)}
    BY <2>1, <2>2, ZenonT(60)
  <2> QED BY <2>3, ZenonT(60) DEF Standings, Row
<1> QED BY <1>1, <1>2, <1>3, ZenonT(60) DEF FreshRoom

(* A step that touches one room has that room alone to answer for. *)
LEMMA OneRoomFresh ==
  ASSUME NEW C, NEW R, NEW D, NEW S, Fresh(C, R), NEW i \in Slots, FreshRoom(D, S, i),
         \A j \in Slots \ {i} : S[j] = R[j] /\ \A f \in Members(R, j) : D[f] = C[f]
  PROVE  Fresh(D, S)
BY UntouchedFresh, ZenonT(60) DEF Fresh

(* A session in no room may come, go or change. *)
LEMMA OutsiderFresh ==
  ASSUME NEW C, NEW R, Inv(C, R), Fresh(C, R), NEW fd, \A j \in Slots : fd \notin Members(R, j),
         NEW D, \A f \in Fds \ {fd} : D[f] = C[f]
  PROVE  Fresh(D, R)
<1>1. \A j \in Slots : \A f \in Members(R, j) : D[f] = C[f] BY Types, ZenonT(60)
<1> QED BY <1>1, UntouchedFresh, ZenonT(60) DEF Fresh

(* Phases and scores may change in a room whose standings are marked, or   *)
(* that does not play.                                                     *)
LEMMA ScoresFresh ==
  ASSUME NEW C, NEW R, NEW D, NEW S, Inv(C, R), Fresh(C, R), NEW i \in Slots, InUse(R, i),
         SameClients(C, D), SameRooms(R, S),
         \A j \in Slots \ {i} : S[j] = R[j], \A f \in Fds \ Members(R, i) : D[f] = C[f],
         \A f \in Fds : D[f].roster = C[f].roster,
         S[i].phase = "PLAYING" => S[i].standings_dirty
  PROVE  Fresh(D, S)
<1>1. ASSUME NEW j \in Slots \ {i}
      PROVE  S[j] = R[j] /\ \A f \in Members(R, j) : D[f] = C[f]
  <2>1. \A f \in Members(R, j) : f \in Fds /\ f \notin Members(R, i) BY <1>1, OneRoom, ZenonT(60)
  <2> QED BY <2>1, ZenonT(60)
<1>2. FreshRoom(D, S, i)
  <2>1. S[i].members = R[i].members /\ Members(S, i) = Members(R, i) /\ Range(R[i].members) = Members(R, i)
    BY ZenonT(60) DEF SameRooms, Members, InUse
  <2>2. Members(R, i) \subseteq Fds BY Types, ZenonT(60)
  <2>3. Roster(D, R[i].members) = Roster(C, R[i].members)
    <3>1. \A f \in Range(R[i].members) : D[f].player_id = C[f].player_id /\ D[f].is_owner = C[f].is_owner
      BY <2>1, <2>2, ZenonT(60) DEF SameClients
    <3> QED BY <3>1, SameRoster, SMTT(60)
  <2>4. FreshRoom(C, R, i) BY ZenonT(60) DEF Fresh
  <2> QED BY <2>1, <2>2, <2>3, <2>4, ZenonT(60) DEF FreshRoom
<1> QED BY <1>1, <1>2, OneRoomFresh, SMTT(60)

(* room_push_sessions_ex brings its room up to date. *)
LEMMA PushFresh ==
  ASSUME NEW st, IsState(st), Typed(st.clients, st.rooms), NEW i \in Slots, NEW creator,
         st.rooms[i].phase # "PLAYING" \/ st.rooms[i].standings_dirty
  PROVE  LET t == room_push_sessions_ex(st, i, creator) IN FreshRoom(t.clients, t.rooms, i)
<1> DEFINE C == st.clients
           m == st.rooms[i].members
           roster == Roster(C, m)
           D == [fd \in Fds |-> IF fd \in Range(m) THEN [C[fd] EXCEPT !.roster = roster] ELSE C[fd]]
           t == room_push_sessions_ex(st, i, creator)
<1>1. Range(m) \subseteq Fds BY RangeBasics DEF Typed, RoomType
<1>2. t.rooms = st.rooms /\ t.clients = D
  BY ZenonT(60) DEF IsState, room_push_sessions_ex, room_broadcast
<1> HIDE DEF roster, t
<1>3. ASSUME NEW f \in Range(m)
      PROVE  /\ D[f].roster = roster
             /\ D[f].player_id = C[f].player_id /\ D[f].is_owner = C[f].is_owner
  <2>1. f \in Fds /\ C[f] \in ClientType BY <1>1 DEF Typed
  <2>2. D[f] = [C[f] EXCEPT !.roster = roster] BY <2>1, SMTT(60)
  <2> HIDE DEF D
  <2> QED BY <2>1, <2>2, SMTT(60) DEF ClientType
<1> HIDE DEF D
<1>4. Roster(D, m) = roster BY <1>3, SameRoster DEF roster
<1>5. Members(t.rooms, i) \subseteq Range(m) BY <1>2, ZenonT(60) DEF Members
<1>6. FreshRoom(t.clients, t.rooms, i) BY <1>2, <1>3, <1>4, <1>5, ZenonT(60) DEF FreshRoom
<1> QED BY <1>6, ZenonT(60) DEF t

(* So does a departure, for those who stay. *)
LEMMA DepartureFresh ==
  ASSUME NEW st, IsState(st), Typed(st.clients, st.rooms), NEW i \in Slots,
         NEW was_owner \in BOOLEAN
  PROVE  LET t == AfterDeparture(st, i, was_owner) IN FreshRoom(t.clients, t.rooms, i)
<1> DEFINE r == st.rooms[i]
           t == AfterDeparture(st, i, was_owner)
           D == Promote(st.clients, r.members, was_owner)
           p == [st EXCEPT !.clients = D]
           m == [p EXCEPT !.rooms[i] = room_mark_standings_dirty(@)]
<1> SUFFICES FreshRoom(t.clients, t.rooms, i) OBVIOUS
<1>0. r \in RoomType /\ r.members \in Seq(Fds) /\ st.rooms \in [Slots -> RoomType]
      /\ st.clients \in [Fds -> ClientType]
  BY DEF Typed, RoomType
<1>1. CASE r.members = <<>>
  <2>1. t.rooms[i] = FreeRoom
    <3>1. Departed(st, i, was_owner, t) BY DepartureEffect, ZenonT(60)
    <3> HIDE DEF t
    <3> QED BY <1>1, <3>1, ZenonT(60) DEF Departed
  <2> HIDE DEF t
  <2>2. Members(t.rooms, i) = {} /\ ~InUse(t.rooms, i)
    BY <2>1, FreeRoomType, SMTT(60) DEF Members, InUse
  <2> QED BY <2>2, ZenonT(60) DEF FreshRoom
<1>2. CASE r.members # <<>>
  <2>1. D \in [Fds -> ClientType] BY <1>0, <1>2, PromoteEffect, ZenonT(60)
  <2> HIDE DEF D
  <2>2. IsState(p) /\ p.clients = D /\ p.rooms = st.rooms BY ZenonT(60) DEF IsState
  <2>3. /\ IsState(m) /\ m.clients = D
        /\ m.rooms = [st.rooms EXCEPT ![i] = room_mark_standings_dirty(r)]
    BY <1>0 DEF IsState
  <2>4. Typed(p.clients, p.rooms) BY <2>1, <2>2, <1>0, ZenonT(60) DEF Typed
  <2>5. CASE RoundOver(D, r)
    <3> DEFINE e == room_check_round_end(p, i)
    <3>1. t = room_push_sessions_ex(e, i, -1)
      BY <1>2, <2>5, <2>2, ZenonT(60) DEF AfterDeparture, D
    <3>2. IsState(e) /\ Typed(e.clients, e.rooms) /\ e.rooms[i].phase # "PLAYING"
      <4> HIDE DEF p
      <4> QED BY <2>2, <2>4, <2>5, CheckRoundEnd, ZenonT(60)
    <3> HIDE DEF e, t
    <3> QED BY <3>1, <3>2, PushFresh, ZenonT(60)
  <2>6. CASE ~RoundOver(D, r)
    <3>1. t = room_push_sessions_ex(m, i, -1)
      BY <1>2, <2>6, <2>2, ZenonT(60) DEF AfterDeparture, D
    <3>2. room_mark_standings_dirty(r) \in RoomType /\ room_mark_standings_dirty(r).standings_dirty
      <4>1. room_mark_standings_dirty(r) \in RoomType BY <1>0, MarkDirty, ZenonT(60)
      <4>2. room_mark_standings_dirty(r).standings_dirty BY <1>0 DEF room_mark_standings_dirty, RoomType
      <4> QED BY <4>1, <4>2, ZenonT(60)
    <3>3. Typed(m.clients, m.rooms) /\ m.rooms[i].standings_dirty
      <4> HIDE DEF m, r
      <4> QED BY <2>1, <2>3, <1>0, <3>2, ZenonT(60) DEF Typed
    <3> HIDE DEF m, t
    <3> QED BY <2>3, <3>1, <3>3, PushFresh, ZenonT(60)
  <2> QED BY <2>5, <2>6, ZenonT(60)
<1> QED BY <1>1, <1>2, ZenonT(60)

(* Leaving and hanging up: the room left is fresh, the others are as they  *)
(* were.                                                                   *)
LEMMA LeftFresh ==
  ASSUME NEW C, NEW R, Inv(C, R), Fresh(C, R), NEW fd \in Fds, NEW i \in Slots,
         fd \in Members(R, i),
         NEW st, IsState(st), st.clients \in [Fds -> ClientType],
         st.rooms = [R EXCEPT ![i].members = room_del_member(@, fd)],
         \A f \in Fds \ {fd} : st.clients[f] = C[f],
         NEW D, \A f \in Fds \ {fd} : D[f] = AfterDeparture(st, i, C[fd].is_owner).clients[f]
  PROVE  Fresh(D, AfterDeparture(st, i, C[fd].is_owner).rooms)
<1> DEFINE t == AfterDeparture(st, i, C[fd].is_owner)
           S == st.rooms
<1>1. /\ C[fd].is_owner \in BOOLEAN /\ R \in [Slots -> RoomType]
      /\ \A j \in Slots : /\ Members(R, j) \subseteq Fds /\ R[j].members \in Seq(Fds)
                          /\ IsInjective(R[j].members)
  BY Types, ZenonT(60)
<1>2. S \in [Slots -> RoomType]
  <2> DEFINE W == [R EXCEPT ![i].members = room_del_member(@, fd)]
  <2>1. W \in [Slots -> RoomType] BY <1>1, WithoutMember, ZenonT(60)
  <2>2. S = W OBVIOUS
  <2> HIDE DEF S, W
  <2> QED BY <2>1, <2>2, SMTT(60)
<1>3. Listed(S, i) = Members(R, i) \ {fd} /\ \A j \in Slots \ {i} : S[j] = R[j]
  <2>1. S[i].members = room_del_member(R[i].members, fd) /\ \A j \in Slots \ {i} : S[j] = R[j]
    BY <1>1, SMTT(60) DEF RoomType
  <2>2. Range(room_del_member(R[i].members, fd)) = Range(R[i].members) \ {fd}
    BY <1>1, DelMember, ZenonT(60)
  <2>3. Members(R, i) = Range(R[i].members)
    <3>1. InUse(R, i) BY ZenonT(60) DEF Inv, InSync
    <3> QED BY <3>1, ZenonT(60) DEF Members
  <2> HIDE DEF S
  <2> QED BY <2>1, <2>2, <2>3, ZenonT(60) DEF Listed
<1>4. Typed(st.clients, st.rooms) BY <1>2, ZenonT(60) DEF Typed
<1>5. Departed(st, i, C[fd].is_owner, t) /\ FreshRoom(t.clients, t.rooms, i)
  BY <1>1, <1>4, DepartureEffect, DepartureFresh, ZenonT(60)
<1> HIDE DEF t, S
<1>6. \A j \in Slots \ {i} : t.rooms[j] = R[j] BY <1>3, <1>5, ZenonT(60) DEF Departed, S
<1>7. Members(t.rooms, i) \subseteq Fds \ {fd}
  <2>1. t.rooms[i] = FreeRoom \/ t.rooms[i].members = S[i].members
    BY <1>5, ZenonT(60) DEF Departed, S
  <2>2. Range(<<>>) = {} /\ FreeRoom.members = <<>> BY EmptyMembers, FreeRoomType, ZenonT(60)
  <2>3. Members(t.rooms, i) \subseteq Listed(S, i)
    BY <2>1, <2>2, ZenonT(60) DEF Members, Listed
  <2> QED BY <2>3, <1>1, <1>3, ZenonT(60)
<1>8. FreshRoom(D, t.rooms, i)
  <2>1. \A f \in Members(t.rooms, i) : D[f] = t.clients[f] BY <1>7, ZenonT(60) DEF t
  <2> QED BY <1>5, <2>1, UntouchedFresh, SMTT(60)
<1>9. ASSUME NEW j \in Slots \ {i} PROVE \A f \in Members(R, j) : D[f] = C[f]
  <2>1. \A f \in Members(R, j) : f \in Fds /\ f \notin Members(R, i) BY <1>9, OneRoom, ZenonT(60)
  <2>2. \A f \in Members(R, j) : f # fd /\ f \in Fds \ Listed(S, i)
    BY <2>1, <1>3, ZenonT(60)
  <2>3. \A f \in Members(R, j) : t.clients[f] = st.clients[f]
    BY <2>2, <1>5, ZenonT(60) DEF Departed, S
  <2> QED BY <2>2, <2>3, ZenonT(60) DEF t
<1>10. Fresh(D, t.rooms) BY <1>6, <1>8, <1>9, OneRoomFresh, SMTT(60)
<1> QED BY <1>10, ZenonT(60) DEF t

(* handle_leave. *)
LEMMA LeaveFresh ==
  ASSUME NEW st, IsState(st), Inv(st.clients, st.rooms), Fresh(st.clients, st.rooms),
         NEW fd \in Fds
  PROVE  Fresh(handle_leave(st, fd).clients, handle_leave(st, fd).rooms)
<1> DEFINE C == st.clients
           R == st.rooms
           c == C[fd]
           i == room_find(R, c.room_id)
           idle == [c EXCEPT !.room_id = ROOM_NONE, !.player_id = 0, !.is_owner = FALSE,
                      !.phase = "IDLE", !.score = 0, !.roster = {}]
           left == send_session([st EXCEPT !.clients[fd] = idle], fd)
           d == [left EXCEPT !.rooms[i].members = room_del_member(@, fd)]
<1>1. C \in [Fds -> ClientType] /\ R \in [Slots -> RoomType] /\ c \in ClientType BY Types
<1>2. idle \in ClientType BY <1>1, IdleType, ZenonT(60)
<1>3. IsState(left) /\ left.clients = [C EXCEPT ![fd] = idle] /\ left.rooms = R
  <2> HIDE DEF idle
  <2> QED BY <1>1, SendKeeps DEF IsState
<1>4. CASE c.room_id = ROOM_NONE
  BY <1>4, SendKeeps, ZenonT(60) DEF handle_leave
<1>5. CASE c.room_id # ROOM_NONE /\ i = 0
  <2>1. handle_leave(st, fd) = left BY <1>5, ZenonT(60) DEF handle_leave
  <2>2. \A j \in Slots : fd \notin Members(R, j) BY <1>5, Roomless, ZenonT(60)
  <2> DEFINE D == [C EXCEPT ![fd] = idle]
  <2> HIDE DEF idle, left
  <2>3. \A f \in Fds \ {fd} : D[f] = C[f] BY <1>1, SMTT(60)
  <2> HIDE DEF D
  <2>4. Fresh(D, R) BY <2>2, <2>3, OutsiderFresh, ZenonT(60)
  <2> QED BY <1>3, <2>1, <2>4, ZenonT(60) DEF D
<1>6. CASE c.room_id # ROOM_NONE /\ i # 0
  <2>1. i \in Slots /\ fd \in Members(R, i) BY <1>6, RoomOf, ZenonT(60)
  <2>2. handle_leave(st, fd) = AfterDeparture(d, i, c.is_owner)
    BY <1>6, ZenonT(60) DEF handle_leave
  <2> HIDE DEF idle, i, left
  <2>6. /\ IsState(d) /\ d.clients = [C EXCEPT ![fd] = idle]
        /\ d.rooms = [R EXCEPT ![i].members = room_del_member(@, fd)]
    BY <2>1, <1>1, <1>3, SMTT(60) DEF IsState
  <2> HIDE DEF d
  <2>7. d.clients \in [Fds -> ClientType] /\ \A f \in Fds \ {fd} : d.clients[f] = C[f]
    BY <1>1, <1>2, <2>6, SMTT(60)
  <2> HIDE DEF C, R
  <2>8. Fresh(AfterDeparture(d, i, C[fd].is_owner).clients, AfterDeparture(d, i, C[fd].is_owner).rooms)
    <3>1. Inv(C, R) /\ Fresh(C, R) BY ZenonT(60) DEF C, R
    <3> QED BY <3>1, <2>1, <2>6, <2>7, LeftFresh, ZenonT(60)
  <2> QED BY <2>2, <2>8, ZenonT(60)
<1> QED BY <1>4, <1>5, <1>6, ZenonT(60)

(* client_close. *)
LEMMA CloseFresh ==
  ASSUME NEW st, IsState(st), Inv(st.clients, st.rooms), Fresh(st.clients, st.rooms),
         NEW fd \in Fds
  PROVE  Fresh(client_close(st, fd).clients, client_close(st, fd).rooms)
<1> DEFINE C == st.clients
           R == st.rooms
           i == room_find(R, C[fd].room_id)
           d == [st EXCEPT !.rooms[i].members = room_del_member(@, fd)]
           t == AfterDeparture(d, i, C[fd].is_owner)
           z == client_close(st, fd)
<1>1. /\ C \in [Fds -> ClientType] /\ R \in [Slots -> RoomType] /\ C[fd].is_owner \in BOOLEAN
      /\ \A j \in Slots : IsInjective(R[j].members)
  BY Types, ZenonT(60)
<1>2. CASE C[fd].room_id = ROOM_NONE \/ i = 0
  <2>1. z = [st EXCEPT !.clients[fd] = NoClient] BY <1>2, ZenonT(60) DEF client_close
  <2>2. z.clients = [C EXCEPT ![fd] = NoClient] /\ z.rooms = R BY <2>1, <1>1, SMTT(60) DEF IsState
  <2>3. \A j \in Slots : fd \notin Members(R, j)
    BY <1>2, Roomless, ZenonT(60)
  <2> DEFINE D == [C EXCEPT ![fd] = NoClient]
  <2>4. \A f \in Fds \ {fd} : D[f] = C[f] BY <1>1, SMTT(60)
  <2> HIDE DEF D, z
  <2>5. Fresh(D, R) BY <2>3, <2>4, OutsiderFresh, SMTT(60)
  <2> QED BY <2>2, <2>5, ZenonT(60) DEF D, z
<1>3. CASE ~(C[fd].room_id = ROOM_NONE \/ i = 0)
  <2>1. i \in Slots /\ fd \in Members(R, i) BY <1>3, RoomOf, ZenonT(60)
  <2>2. z = [t EXCEPT !.clients[fd] = NoClient] BY <1>3, ZenonT(60) DEF client_close
  <2> HIDE DEF i
  <2>3. /\ IsState(d) /\ d.clients = C
        /\ d.rooms = [R EXCEPT ![i].members = room_del_member(@, fd)]
    BY <2>1, <1>1, SMTT(60) DEF IsState
  <2> HIDE DEF d
  <2>4. d.rooms \in [Slots -> RoomType]
    <3> DEFINE S == [R EXCEPT ![i].members = room_del_member(@, fd)]
    <3>1. S \in [Slots -> RoomType] BY <2>1, <1>1, WithoutMember, ZenonT(60)
    <3>2. d.rooms = S BY <2>3, ZenonT(60)
    <3> HIDE DEF S
    <3> QED BY <3>1, <3>2, SMTT(60)
  <2>5. Departed(d, i, C[fd].is_owner, t)
    <3>1. Typed(d.clients, d.rooms) BY <1>1, <2>3, <2>4, ZenonT(60) DEF Typed
    <3> QED BY <3>1, <2>1, <2>3, <1>1, DepartureEffect, ZenonT(60)
  <2> HIDE DEF t, z
  <2>6. IsState(t) /\ t.clients \in [Fds -> ClientType] BY <2>5, ZenonT(60) DEF Departed, Typed
  <2>7. z.clients = [t.clients EXCEPT ![fd] = NoClient] /\ z.rooms = t.rooms
    BY <2>2, <2>6, SMTT(60) DEF IsState
  <2>8. \A f \in Fds \ {fd} : z.clients[f] = t.clients[f] BY <2>6, <2>7, SMTT(60)
  <2>9. d.clients \in [Fds -> ClientType] /\ \A f \in Fds \ {fd} : d.clients[f] = C[f]
    BY <1>1, <2>3, ZenonT(60)
  <2> HIDE DEF C, R
  <2>10. Fresh(z.clients, AfterDeparture(d, i, C[fd].is_owner).rooms)
    <3>1. Inv(C, R) /\ Fresh(C, R) BY ZenonT(60) DEF C, R
    <3>2. \A f \in Fds \ {fd} : z.clients[f] = AfterDeparture(d, i, C[fd].is_owner).clients[f]
      BY <2>8, ZenonT(60) DEF t
    <3> QED BY <3>1, <3>2, <2>1, <2>3, <2>9, LeftFresh, ZenonT(60)
  <2> QED BY <2>7, <2>10, ZenonT(60) DEF t, z
<1> QED BY <1>2, <1>3, ZenonT(60)

(* Admitting a member. *)
LEMMA AdmitFresh ==
  ASSUME NEW st, IsState(st), NEW fd \in Fds, NEW i \in Slots, NEW r \in RoomType, NEW creator,
         Inv(st.clients, st.rooms), Fresh(st.clients, st.rooms),
         st.clients[fd].room_id = ROOM_NONE,
         \/ r = st.rooms[i] /\ InUse(st.rooms, i)
         \/ st.rooms[i].id = 0 /\ r.members = <<>>
  PROVE  LET t == Admit(st, fd, i, r, creator) IN Fresh(t.clients, t.rooms)
<1> DEFINE C == st.clients
           R == st.rooms
           q == room_mark_standings_dirty([r EXCEPT !.members = Append(@, fd),
                  !.next_player_id = @ + 1, !.last_standings = {}])
           D == [C EXCEPT ![fd] = Joiner(@, r)]
           S == [R EXCEPT ![i] = q]
           p == [st EXCEPT !.rooms[i] = q, !.clients[fd] = Joiner(@, r)]
           t == room_push_sessions_ex(p, i, creator)
<1>1. /\ C \in [Fds -> ClientType] /\ R \in [Slots -> RoomType]
      /\ \A j \in Slots : R[j].members \in Seq(Fds) /\ IsInjective(R[j].members) /\ Members(R, j) \subseteq Fds
  BY Types, ZenonT(60)
<1>2. \A j \in Slots : fd \notin Members(R, j) BY Roomless, ZenonT(60)
<1>3. Admit(st, fd, i, r, creator) = t BY ZenonT(60) DEF Admit
<1>4. IsState(p) /\ p.clients = D /\ p.rooms = S BY <1>1, SMTT(60) DEF IsState
<1>5. r.members \in Seq(Fds) /\ Range(r.members) \subseteq Members(R, i) /\ IsInjective(r.members)
      /\ fd \notin Range(r.members)
  BY <1>1, <1>2, EmptyMembers, ZenonT(60) DEF RoomType, Members
<1>6. Append(r.members, fd) \in Seq(Fds)
      /\ Range(Append(r.members, fd)) = Range(r.members) \cup {fd}
  BY <1>5, AppendMember, ZenonT(60)
<1>7. q \in RoomType /\ q.members = Append(r.members, fd) BY <1>6, JoinedType, ZenonT(60)
<1>8. q.standings_dirty
  BY ZenonT(60) DEF room_mark_standings_dirty, RoomType
<1>9. D \in [Fds -> ClientType] /\ \A f \in Fds \ {fd} : D[f] = C[f]
  <2>1. Joiner(C[fd], r) \in ClientType BY <1>1, JoinerType, ZenonT(60)
  <2> QED BY <1>1, <2>1, SMTT(60)
<1>10. S \in [Slots -> RoomType] /\ S[i] = q /\ \A j \in Slots \ {i} : S[j] = R[j]
  BY <1>1, <1>7, ZenonT(60)
<1> HIDE DEF q, D, S, p
<1>11. Typed(p.clients, p.rooms) BY <1>4, <1>9, <1>10, ZenonT(60) DEF Typed
<1>12. p.rooms[i].standings_dirty BY <1>4, <1>8, <1>10, ZenonT(60)
<1>13. FreshRoom(t.clients, t.rooms, i) BY <1>4, <1>11, <1>12, PushFresh, ZenonT(60)
<1>14. t.rooms = S /\ \A f \in Fds \ Listed(S, i) : t.clients[f] = D[f]
  <2>1. t.rooms = p.rooms /\ \A f \in Fds \ Listed(p.rooms, i) : t.clients[f] = p.clients[f]
    <3>1. IsState(p) /\ Typed(p.clients, p.rooms) BY <1>4, <1>11, ZenonT(60)
    <3> HIDE DEF C, R
    <3> QED BY <3>1, PushSessions, SMTT(60)
  <2> HIDE DEF t
  <2> QED BY <1>4, <2>1, ZenonT(60)
<1>15. Listed(S, i) \subseteq Members(R, i) \cup {fd}
  BY <1>5, <1>6, <1>7, <1>10, ZenonT(60) DEF Listed
<1> HIDE DEF t
<1>16. ASSUME NEW j \in Slots \ {i} PROVE t.rooms[j] = R[j] /\ \A f \in Members(R, j) : t.clients[f] = C[f]
  <2>1. \A f \in Members(R, j) : f \in Fds /\ f \notin Members(R, i) /\ f # fd
    BY <1>2, <1>16, OneRoom, ZenonT(60)
  <2> QED BY <2>1, <1>9, <1>10, <1>14, <1>15, ZenonT(60)
<1>17. Inv(C, R) /\ Fresh(C, R) BY ZenonT(60)
<1> HIDE DEF C, R
<1>18. Fresh(t.clients, t.rooms) BY <1>13, <1>16, <1>17, OneRoomFresh, SMTT(60)
<1> QED BY <1>3, <1>18, ZenonT(60)

(* handle_join. *)
LEMMA JoinFresh ==
  ASSUME NEW st, IsState(st), Inv(st.clients, st.rooms), Fresh(st.clients, st.rooms),
         NEW fd \in Fds, NEW want \in Int
  PROVE  Fresh(handle_join(st, fd, want).clients, handle_join(st, fd, want).rooms)
<1> DEFINE t == handle_join(st, fd, want)
           found == room_find(st.rooms, want)
           free == FreeSlot(st.rooms)
           r == st.rooms[found]
           c == st.clients[fd]
           q == room_create(want, st.rooms)
<1>1. \/ t = send_reject(st, fd, REJECT_CONFLICT)
      \/ t = send_reject(st, fd, REJECT_FULL)
      \/ c.room_id = ROOM_NONE /\ found # 0 /\ t = Admit(st, fd, found, r, -1)
      \/ c.room_id = ROOM_NONE /\ found = 0 /\ free # 0 /\ t = Admit(st, fd, free, q, fd)
  BY ZenonT(60) DEF handle_join
<1>2. ASSUME NEW reason, t = send_reject(st, fd, reason)
      PROVE  Fresh(t.clients, t.rooms)
  <2>1. send_reject(st, fd, reason).clients = st.clients /\ send_reject(st, fd, reason).rooms = st.rooms
    BY SendKeeps, ZenonT(60)
  <2>2. t.clients = st.clients /\ t.rooms = st.rooms BY <1>2, <2>1, ZenonT(60)
  <2> QED BY <2>2, ZenonT(60)
<1>3. CASE c.room_id = ROOM_NONE /\ found # 0 /\ t = Admit(st, fd, found, r, -1)
  <2>1. found \in Slots /\ InUse(st.rooms, found) BY <1>3, RoomFind, SMTT(60) DEF InUse
  <2>2. r \in RoomType BY <2>1, SMTT(60) DEF Inv, Typed
  <2> HIDE DEF t, found
  <2>3. Fresh(Admit(st, fd, found, r, -1).clients, Admit(st, fd, found, r, -1).rooms)
    BY <1>3, <2>1, <2>2, AdmitFresh, ZenonT(60)
  <2> QED BY <1>3, <2>3, ZenonT(60) DEF t
<1>4. CASE c.room_id = ROOM_NONE /\ found = 0 /\ free # 0 /\ t = Admit(st, fd, free, q, fd)
  <2>1. free \in Slots /\ st.rooms[free].id = 0 BY <1>4, FreeSlotFree, ZenonT(60)
  <2>2. q \in RoomType /\ q.members = <<>>
    <3>1. PICK n \in Int : n = IF want = 0 THEN SmallestFreeId(st.rooms) ELSE want
      BY SmallestFreeIdFree, SMTT(60)
    <3>2. q = [FreeRoom EXCEPT !.id = n] BY <3>1, ZenonT(60) DEF room_create
    <3> HIDE DEF q
    <3> QED BY <3>1, <3>2, FreeRoomType, SMTT(60) DEF RoomType
  <2> HIDE DEF t, free, q
  <2>3. Fresh(Admit(st, fd, free, q, fd).clients, Admit(st, fd, free, q, fd).rooms)
    BY <1>4, <2>1, <2>2, AdmitFresh, ZenonT(60)
  <2> QED BY <1>4, <2>3, ZenonT(60) DEF t
<1> QED BY <1>1, <1>2, <1>3, <1>4, ZenonT(60)

(* handle_start. *)
LEMMA StartFresh ==
  ASSUME NEW st, IsState(st), Inv(st.clients, st.rooms), Fresh(st.clients, st.rooms),
         NEW fd \in Fds, NEW seed \in Nat
  PROVE  Fresh(handle_start(st, fd, seed).clients, handle_start(st, fd, seed).rooms)
<1> DEFINE C == st.clients
           R == st.rooms
           i == room_find(R, C[fd].room_id)
           r == R[i]
           t == handle_start(st, fd, seed)
           D == [f \in Fds |-> IF f \in Range(r.members)
                               THEN [C[f] EXCEPT !.phase = "PLAYING"] ELSE C[f]]
           q == room_mark_standings_dirty(StartedRoom(r, seed))
           S == [R EXCEPT ![i] = q]
<1>1. \/ t = send_reject(st, fd, REJECT_CONFLICT)
      \/ t = send_reject(st, fd, REJECT_NOT_OWNER)
      \/ i # 0 /\ t.clients = D /\ t.rooms = S
  <2>1. CASE C[fd].room_id = ROOM_NONE BY <2>1, ZenonT(60) DEF handle_start
  <2>2. CASE C[fd].room_id # ROOM_NONE /\ ~C[fd].is_owner BY <2>2, ZenonT(60) DEF handle_start
  <2>3. CASE /\ C[fd].room_id # ROOM_NONE /\ C[fd].is_owner
             /\ i = 0 \/ (i # 0 /\ r.phase = "PLAYING")
    BY <2>3, ZenonT(60) DEF handle_start
  <2>4. CASE /\ C[fd].room_id # ROOM_NONE /\ C[fd].is_owner
             /\ ~(i = 0 \/ (i # 0 /\ r.phase = "PLAYING"))
    BY <2>4, ZenonT(60) DEF handle_start, room_broadcast
  <2> QED BY <2>1, <2>2, <2>3, <2>4, ZenonT(60)
<1>2. ASSUME NEW reason, t = send_reject(st, fd, reason)
      PROVE  Fresh(t.clients, t.rooms)
  <2>1. send_reject(st, fd, reason).clients = st.clients /\ send_reject(st, fd, reason).rooms = st.rooms
    BY SendKeeps, ZenonT(60)
  <2>2. t.clients = st.clients /\ t.rooms = st.rooms BY <1>2, <2>1, SMTT(60)
  <2> QED BY <2>2, ZenonT(60)
<1>3. CASE i # 0 /\ t.clients = D /\ t.rooms = S
  <2>1. i \in Slots /\ InUse(R, i) BY <1>3, RoomOf, ZenonT(60)
  <2>2. C \in [Fds -> ClientType] /\ R \in [Slots -> RoomType] /\ r \in RoomType
    BY <2>1, Types, ZenonT(60)
  <2>3. /\ q.id = r.id /\ q.members = r.members
        /\ q.next_player_id = r.next_player_id /\ q.standings_dirty
    BY <2>2, ZenonT(60) DEF StartedRoom, room_mark_standings_dirty, RoomType
  <2>4. /\ SameClients(C, D) /\ \A f \in Fds : D[f].roster = C[f].roster
        /\ \A f \in Fds \ Members(R, i) : D[f] = C[f]
    <3>1. Members(R, i) = Range(r.members) BY <2>1, ZenonT(60) DEF Members
    <3> QED BY <2>2, <3>1, SMTT(60) DEF ClientType, SameClients
  <2> HIDE DEF q, D
  <2>5. SameRooms(R, S) /\ S[i] = q /\ \A j \in Slots \ {i} : S[j] = R[j]
    BY <2>1, <2>2, <2>3, ZenonT(60) DEF SameRooms
  <2> HIDE DEF S, i
  <2>6. Fresh(D, S)
    <3>1. S[i].standings_dirty BY <2>1, <2>3, <2>4, <2>5, SMTT(60)
    <3>2. Inv(C, R) /\ Fresh(C, R) OBVIOUS
    <3> HIDE DEF C, R
    <3> QED BY <2>1, <2>3, <2>4, <2>5, <3>1, <3>2, ScoresFresh, SMTT(60)
  <2> QED BY <1>3, <2>6, ZenonT(60)
<1> QED BY <1>1, <1>2, <1>3, ZenonT(60)

(* handle_score. *)
LEMMA ScoreFresh ==
  ASSUME NEW st, IsState(st), Inv(st.clients, st.rooms), Fresh(st.clients, st.rooms),
         NEW fd \in Fds, NEW score \in Nat
  PROVE  Fresh(handle_score(st, fd, score).clients, handle_score(st, fd, score).rooms)
<1> DEFINE C == st.clients
           R == st.rooms
           i == room_find(R, C[fd].room_id)
           t == handle_score(st, fd, score)
           scored == [st EXCEPT !.clients[fd].score = score]
           D == [C EXCEPT ![fd].score = score]
           q == room_mark_standings_dirty(R[i])
           S == [R EXCEPT ![i] = q]
<1>1. CASE C[fd].room_id = ROOM_NONE \/ C[fd].score = score
  BY <1>1, ZenonT(60) DEF handle_score
<1>2. CASE C[fd].room_id # ROOM_NONE /\ C[fd].score # score /\ i # 0
  <2>1. i \in Slots /\ fd \in Members(R, i) /\ InUse(R, i) BY <1>2, RoomOf, ZenonT(60)
  <2>2. t = [scored EXCEPT !.rooms[i] = room_mark_standings_dirty(@)]
    BY <1>2, ZenonT(60) DEF handle_score
  <2>3. C \in [Fds -> ClientType] /\ R \in [Slots -> RoomType] /\ R[i] \in RoomType
    BY <2>1, Types, ZenonT(60)
  <2> HIDE DEF i
  <2>4. IsState(scored) /\ scored.clients = D /\ scored.rooms = R BY <2>3, SMTT(60) DEF IsState
  <2> HIDE DEF scored
  <2>5. t.clients = D /\ t.rooms = S BY <2>1, <2>2, <2>3, <2>4, SMTT(60) DEF IsState
  <2>6. /\ SameClients(C, D) /\ \A f \in Fds : D[f].roster = C[f].roster
        /\ \A f \in Fds \ Members(R, i) : D[f] = C[f]
    BY <2>1, <2>3, SMTT(60) DEF ClientType, SameClients
  <2>7. /\ q.id = R[i].id /\ q.members = R[i].members
        /\ q.next_player_id = R[i].next_player_id /\ q.standings_dirty
    BY <2>3, ZenonT(60) DEF room_mark_standings_dirty, RoomType
  <2> HIDE DEF D, q
  <2>8. SameRooms(R, S) /\ S[i] = q /\ \A j \in Slots \ {i} : S[j] = R[j]
    BY <2>1, <2>3, <2>7, ZenonT(60) DEF SameRooms
  <2> HIDE DEF S
  <2>9. Fresh(D, S)
    <3>1. S[i].standings_dirty BY <2>1, <2>6, <2>7, <2>8, SMTT(60)
    <3>2. Inv(C, R) /\ Fresh(C, R) OBVIOUS
    <3> HIDE DEF C, R
    <3> QED BY <2>1, <2>6, <2>7, <2>8, <3>1, <3>2, ScoresFresh, SMTT(60)
  <2> QED BY <2>5, <2>9, ZenonT(60)
<1>3. CASE C[fd].room_id # ROOM_NONE /\ C[fd].score # score /\ i = 0
  <2>1. t = scored BY <1>3, ZenonT(60) DEF handle_score
  <2>2. \A j \in Slots : fd \notin Members(R, j) BY <1>3, Roomless, ZenonT(60)
  <2>3. C \in [Fds -> ClientType] BY Types
  <2>4. scored.clients = D /\ scored.rooms = R BY <2>3 DEF IsState
  <2>5. \A f \in Fds \ {fd} : D[f] = C[f] BY <2>3, ZenonT(60)
  <2> HIDE DEF D, scored
  <2>6. Fresh(D, R) BY <2>2, <2>5, OutsiderFresh, ZenonT(60)
  <2> QED BY <2>1, <2>4, <2>6, ZenonT(60)
<1> QED BY <1>1, <1>2, <1>3, ZenonT(60)

(* The end of a round changes nobody's roster. *)
LEMMA RoundEndRosters ==
  ASSUME NEW st, IsState(st), Typed(st.clients, st.rooms), NEW i \in Slots
  PROVE  LET t == room_check_round_end(st, i)
         IN  \A f \in Fds : t.clients[f].roster = st.clients[f].roster
<1> DEFINE r == st.rooms[i]
           t == room_check_round_end(st, i)
           D == [fd \in Fds |-> IF fd \in Range(r.members)
                                THEN [st.clients[fd] EXCEPT !.phase = "WAITING", !.score = 0]
                                ELSE st.clients[fd]]
<1>1. CASE ~RoundOver(st.clients, r)
  <2>1. t = st BY <1>1, ZenonT(60) DEF room_check_round_end
  <2> QED BY <2>1, ZenonT(60)
<1>2. CASE RoundOver(st.clients, r)
  <2>1. t.clients = D BY <1>2, ZenonT(60) DEF IsState, room_check_round_end
  <2>2. \A f \in Fds : D[f].roster = st.clients[f].roster BY DEF Typed, ClientType
  <2> HIDE DEF D
  <2> QED BY <2>1, <2>2, ZenonT(60)
<1> QED BY <1>1, <1>2, ZenonT(60)

(* handle_gameover. *)
LEMMA GameoverFresh ==
  ASSUME NEW st, IsState(st), Inv(st.clients, st.rooms), Fresh(st.clients, st.rooms),
         NEW fd \in Fds, NEW score \in Nat
  PROVE  Fresh(handle_gameover(st, fd, score).clients, handle_gameover(st, fd, score).rooms)
<1> DEFINE C == st.clients
           R == st.rooms
           i == room_find(R, C[fd].room_id)
           t == handle_gameover(st, fd, score)
           over == [st EXCEPT !.clients[fd].phase = "GAME_OVER", !.clients[fd].score = score]
           o == [over EXCEPT !.rooms[i] = room_mark_standings_dirty(@)]
           D == [C EXCEPT ![fd] = [@ EXCEPT !.phase = "GAME_OVER", !.score = score]]
           q == room_mark_standings_dirty(R[i])
           S == [R EXCEPT ![i] = q]
<1>1. CASE C[fd].room_id = ROOM_NONE
  BY <1>1, ZenonT(60) DEF handle_gameover
<1>2. CASE C[fd].room_id # ROOM_NONE /\ i # 0
  <2>1. i \in Slots /\ fd \in Members(R, i) /\ InUse(R, i) BY <1>2, RoomOf, ZenonT(60)
  <2>2. t = room_check_round_end(o, i) BY <1>2, ZenonT(60) DEF handle_gameover
  <2>3. C \in [Fds -> ClientType] /\ R \in [Slots -> RoomType] /\ R[i] \in RoomType
    BY <2>1, Types, ZenonT(60)
  <2> HIDE DEF i
  <2>4. IsState(over) /\ over.clients = D /\ over.rooms = R BY <2>3, ZenonT(60) DEF IsState
  <2> HIDE DEF over
  <2>5. IsState(o) /\ o.clients = D /\ o.rooms = S BY <2>1, <2>3, <2>4, SMTT(60) DEF IsState
  <2>6. /\ D \in [Fds -> ClientType] /\ SameClients(C, D)
        /\ \A f \in Fds : D[f].roster = C[f].roster
        /\ \A f \in Fds \ Members(R, i) : D[f] = C[f]
    <3>1. D \in [Fds -> ClientType] BY <2>3, ZenonT(60) DEF ClientType, Phases
    <3>2. SameClients(C, D) /\ \A f \in Fds : D[f].roster = C[f].roster
      BY <2>3 DEF ClientType, SameClients
    <3>3. \A f \in Fds \ Members(R, i) : D[f] = C[f] BY <2>1, <2>3, ZenonT(60)
    <3> QED BY <3>1, <3>2, <3>3, ZenonT(60)
  <2>7. /\ q \in RoomType /\ q.id = R[i].id /\ q.members = R[i].members
        /\ q.next_player_id = R[i].next_player_id
    BY <2>3, MarkDirty, ZenonT(60)
  <2>8. q.standings_dirty BY <2>3, ZenonT(60) DEF room_mark_standings_dirty, RoomType
  <2> HIDE DEF D, q, o
  <2>9. /\ S \in [Slots -> RoomType] /\ SameRooms(R, S) /\ S[i] = q
        /\ \A j \in Slots \ {i} : S[j] = R[j]
    BY <2>1, <2>3, <2>7, ZenonT(60) DEF SameRooms
  <2> HIDE DEF S, t
  <2>10. /\ SameClients(D, t.clients) /\ SameRooms(S, t.rooms)
         /\ \A j \in Slots \ {i} : t.rooms[j] = S[j]
         /\ \A f \in Fds \ Members(S, i) : t.clients[f] = D[f]
         /\ t.rooms[i].phase = "PLAYING" => t.rooms = S
         /\ \A f \in Fds : t.clients[f].roster = D[f].roster
    <3>1. Typed(o.clients, o.rooms) BY <2>5, <2>6, <2>9, ZenonT(60) DEF Typed
    <3>2. /\ SameClients(o.clients, t.clients) /\ SameRooms(o.rooms, t.rooms)
          /\ \A j \in Slots \ {i} : t.rooms[j] = o.rooms[j]
          /\ \A f \in Fds \ Listed(o.rooms, i) : t.clients[f] = o.clients[f]
          /\ t.rooms[i].phase = "PLAYING" => t = o
      BY <2>1, <2>2, <2>5, <3>1, CheckRoundEnd, ZenonT(60)
    <3>3. \A f \in Fds : t.clients[f].roster = o.clients[f].roster
      BY <2>1, <2>2, <2>5, <3>1, RoundEndRosters, ZenonT(60)
    <3>4. Listed(S, i) = Members(S, i)
      BY <2>1, <2>9, ListedMembers, ZenonT(60) DEF SameRooms, InUse
    <3> QED BY <2>5, <3>2, <3>3, <3>4, ZenonT(60)
  <2>11. Members(S, i) = Members(R, i) BY <2>1, <2>9, ZenonT(60) DEF SameRooms, Members, InUse
  <2>12. SameClients(C, t.clients) BY <2>6, <2>10, SameClientsTrans, ZenonT(60)
  <2>13. SameRooms(R, t.rooms) BY <2>9, <2>10, SameRoomsTrans, ZenonT(60)
  <2>14. /\ \A j \in Slots \ {i} : t.rooms[j] = R[j]
         /\ \A f \in Fds \ Members(R, i) : t.clients[f] = C[f]
         /\ \A f \in Fds : t.clients[f].roster = C[f].roster
         /\ t.rooms[i].phase = "PLAYING" => t.rooms[i].standings_dirty
    BY <2>6, <2>8, <2>9, <2>10, <2>11, ZenonT(60)
  <2>15. Inv(C, R) /\ Fresh(C, R) OBVIOUS
  <2> HIDE DEF C, R
  <2>16. Fresh(t.clients, t.rooms)
    BY <2>1, <2>12, <2>13, <2>14, <2>15, ScoresFresh, SMTT(60)
  <2> QED BY <2>16, ZenonT(60) DEF t
<1>3. CASE C[fd].room_id # ROOM_NONE /\ i = 0
  <2>1. t = over BY <1>3, ZenonT(60) DEF handle_gameover
  <2>2. \A j \in Slots : fd \notin Members(R, j) BY <1>3, Roomless, ZenonT(60)
  <2>3. C \in [Fds -> ClientType] BY Types
  <2>4. over.clients = D /\ over.rooms = R BY <2>3, ZenonT(60) DEF IsState
  <2>5. \A f \in Fds \ {fd} : D[f] = C[f] BY <2>3, ZenonT(60)
  <2> HIDE DEF D, over
  <2>6. Fresh(D, R) BY <2>2, <2>5, OutsiderFresh, ZenonT(60)
  <2> QED BY <2>1, <2>4, <2>6, ZenonT(60)
<1> QED BY <1>1, <1>2, <1>3, ZenonT(60)

(* room_flush_updates: what is published is what the table says now. *)
LEMMA FlushFresh ==
  ASSUME NEW st, IsState(st), Inv(st.clients, st.rooms), Fresh(st.clients, st.rooms)
  PROVE  Fresh(room_flush_updates(st).clients, room_flush_updates(st).rooms)
<1> DEFINE C == st.clients
           R == st.rooms
           t == room_flush_updates(st)
           S == [i \in Slots |-> IF i \in {j \in Slots : R[j].standings_dirty}
                                 THEN Published(C, R[i]) ELSE R[i]]
<1>1. t.clients = C /\ t.rooms = S BY DEF room_flush_updates
<1>2. R \in [Slots -> RoomType] BY ZenonT(60) DEF Inv, Typed
<1>3. ASSUME NEW i \in Slots
      PROVE  FreshRoom(C, S, i)
  <2>1. S[i] = IF R[i].standings_dirty THEN Published(C, R[i]) ELSE R[i] BY <1>3, ZenonT(60)
  <2>2. FreshRoom(C, R, i) BY <1>3, ZenonT(60) DEF Fresh
  <2> HIDE DEF S
  <2>3. CASE ~R[i].standings_dirty
    <3>1. S[i] = R[i] BY <2>1, <2>3, ZenonT(60)
    <3>2. \A f \in Members(R, i) : C[f] = C[f] OBVIOUS
    <3> QED BY <2>2, <3>1, <3>2, UntouchedFresh, SMTT(60)
  <2>4. CASE R[i].standings_dirty
    <3>1. S[i] = Published(C, R[i]) BY <2>1, <2>4, ZenonT(60)
    <3>2. R[i] \in RoomType BY <1>2, <1>3, ZenonT(60)
    <3>3. S[i].members = R[i].members /\ S[i].id = R[i].id /\ S[i].last_standings = Standings(C, R[i].members)
      BY <3>1, <3>2, ZenonT(60) DEF Published, RoomType
    <3> QED BY <2>2, <3>3, ZenonT(60) DEF FreshRoom, Members, InUse
  <2> QED BY <2>3, <2>4, ZenonT(60)
<1> HIDE DEF S, t
<1>4. Fresh(C, S) BY <1>3, ZenonT(60) DEF Fresh
<1> QED BY <1>1, <1>4, ZenonT(60) DEF t

(* client_add. *)
LEMMA AddFresh ==
  ASSUME NEW st, IsState(st), Inv(st.clients, st.rooms), Fresh(st.clients, st.rooms),
         NEW fd \in Fds, ~st.clients[fd].live
  PROVE  Fresh(client_add(st, fd).clients, client_add(st, fd).rooms)
<1> DEFINE C == st.clients
           R == st.rooms
           t == client_add(st, fd)
           new == [NoClient EXCEPT !.live = TRUE]
           D == [C EXCEPT ![fd] = new]
<1>1. CASE Cardinality(Live(C)) < MAX_SESSIONS
  <2>1. C \in [Fds -> ClientType] BY Types, ZenonT(60)
  <2> HIDE DEF new
  <2>2. t.clients = D /\ t.rooms = R BY <1>1, <2>1, ZenonT(60) DEF client_add, IsState, new
  <2>3. \A f \in Fds \ {fd} : D[f] = C[f] BY <2>1, ZenonT(60)
  <2>4. \A j \in Slots : fd \notin Members(R, j) BY ZenonT(60) DEF Inv, InSync
  <2> HIDE DEF D, t
  <2>5. Fresh(D, R) BY <2>3, <2>4, OutsiderFresh, SMTT(60)
  <2> QED BY <2>2, <2>5, ZenonT(60) DEF t
<1>2. CASE ~(Cardinality(Live(C)) < MAX_SESSIONS)
  <2>1. t = send_reject(st, fd, REJECT_FULL) BY <1>2, ZenonT(60) DEF client_add
  <2>2. /\ send_reject(st, fd, REJECT_FULL).clients = C
        /\ send_reject(st, fd, REJECT_FULL).rooms = R
    BY SendKeeps, ZenonT(60)
  <2>3. t.clients = C /\ t.rooms = R BY <2>1, <2>2
  <2> QED BY <2>3, ZenonT(60)
<1> QED BY <1>1, <1>2, ZenonT(60)

(* client_handle, whatever the message. *)
LEMMA HandleFresh ==
  ASSUME NEW st, IsState(st), Inv(st.clients, st.rooms),
         Fresh(st.clients, st.rooms), NEW fd \in Fds, NEW msg \in Messages, NEW seed \in Seeds
  PROVE  Fresh(client_handle(st, fd, msg, seed).clients, client_handle(st, fd, msg, seed).rooms)
<1> DEFINE t == client_handle(st, fd, msg, seed)
<1>0. seed \in Nat /\ 0..MaxScore \subseteq Nat /\ JoinIds \subseteq Int BY RoomsAssumption DEF RoomsAssumption
<1>1. CASE msg \in [type : {"JOIN"}, room_id : {id \in JoinIds : JoinAllowed(id)}]
  <2>1. msg.room_id \in Int /\ t = handle_join(st, fd, msg.room_id) BY <1>0, <1>1 DEF client_handle
  <2> QED BY <2>1, JoinFresh, ZenonT(60)
<1>2. CASE msg \in [type : {"LEAVE", "START"}] /\ msg.type = "LEAVE"
  <2>1. t = handle_leave(st, fd) BY <1>2 DEF client_handle
  <2> QED BY <2>1, LeaveFresh, ZenonT(60)
<1>3. CASE msg \in [type : {"LEAVE", "START"}] /\ msg.type = "START"
  <2>1. t = handle_start(st, fd, seed) BY <1>3 DEF client_handle
  <2> QED BY <2>1, <1>0, StartFresh, ZenonT(60)
<1>4. CASE msg \in [type : {"GARBAGE"}, lines : 0..1]
  <2>1. t = handle_garbage(st, fd, msg.lines) BY <1>4 DEF client_handle
  <2>2. /\ handle_garbage(st, fd, msg.lines).clients = st.clients
        /\ handle_garbage(st, fd, msg.lines).rooms = st.rooms
    BY DEF handle_garbage, IsState
  <2> QED BY <2>1, <2>2, ZenonT(60)
<1>5. CASE msg \in [type : {"SCORE", "GAMEOVER"}, score : 0..MaxScore] /\ msg.type = "SCORE"
  <2>1. t = handle_score(st, fd, msg.score) /\ msg.score \in Nat BY <1>0, <1>5, SMTT(60) DEF client_handle
  <2> QED BY <2>1, ScoreFresh, ZenonT(60)
<1>6. CASE msg \in [type : {"SCORE", "GAMEOVER"}, score : 0..MaxScore] /\ msg.type = "GAMEOVER"
  <2>1. t = handle_gameover(st, fd, msg.score) /\ msg.score \in Nat BY <1>0, <1>6, SMTT(60) DEF client_handle
  <2> QED BY <2>1, GameoverFresh, ZenonT(60)
<1>7. \/ msg \in [type : {"JOIN"}, room_id : {id \in JoinIds : JoinAllowed(id)}]
      \/ msg \in [type : {"LEAVE", "START"}] /\ (msg.type = "LEAVE" \/ msg.type = "START")
      \/ msg \in [type : {"GARBAGE"}, lines : 0..1]
      \/ /\ msg \in [type : {"SCORE", "GAMEOVER"}, score : 0..MaxScore]
         /\ msg.type = "SCORE" \/ msg.type = "GAMEOVER"
  BY DEF Messages
<1> QED BY <1>1, <1>2, <1>3, <1>4, <1>5, <1>6, <1>7, ZenonT(60)

(* Every step of the server leaves the members up to date. *)
LEMMA NextFresh ==
  ASSUME Inv(clients, rooms), Fresh(clients, rooms), [Next]_vars
  PROVE  Fresh(clients', rooms')
<1>1. /\ IsState(State) /\ Inv(State.clients, State.rooms) /\ Fresh(State.clients, State.rooms)
      /\ State.clients = clients
  BY ZenonT(60) DEF State, IsState
<1>2. ASSUME NEW st, NEW full, NEW list, NEW closed, Become(st, full, list, closed),
             Fresh(st.clients, st.rooms)
      PROVE  Fresh(clients', rooms')
  BY <1>2, ZenonT(60) DEF Become
<1> HIDE DEF State
<1>3. ASSUME NEW full \in SUBSET Blockable, NEW fd \in Fds, Register(fd, full)
      PROVE  Fresh(clients', rooms')
  BY <1>1, <1>2, <1>3, AddFresh, SMTT(60) DEF Register
<1>4. ASSUME NEW full \in SUBSET Blockable, NEW fd \in Fds, NEW msg \in Messages,
             Route(fd, msg, full)
      PROVE  Fresh(clients', rooms')
  BY <1>1, <1>2, <1>4, HandleFresh, SMTT(60) DEF Route
<1>5. ASSUME NEW full \in SUBSET Blockable, NEW fd \in Fds, drop_session(fd, full)
      PROVE  Fresh(clients', rooms')
  BY <1>1, <1>2, <1>5, CloseFresh, SMTT(60) DEF drop_session
<1>6. ASSUME NEW full \in SUBSET Blockable, client_take_wedged(full)
      PROVE  Fresh(clients', rooms')
  BY <1>1, <1>2, <1>6, CloseFresh, SMTT(60) DEF client_take_wedged
<1>7. ASSUME NEW full \in SUBSET Blockable, Flush(full)
      PROVE  Fresh(clients', rooms')
  BY <1>1, <1>2, <1>7, FlushFresh, SMTT(60) DEF Flush
<1>8. CASE UNCHANGED vars BY <1>8, ZenonT(60) DEF vars
<1> QED BY <1>3, <1>4, <1>5, <1>6, <1>7, <1>8, SMTT(60) DEF Next

(* Nobody looks at an out-of-date room: whatever handler has run last, and *)
(* whoever left, was promoted or was cut off in it, every member has been  *)
(* sent the roster as it is now, and the scoreboard of a running round is  *)
(* the true one or is marked for the next flush.                           *)
THEOREM RoomsAlwaysFresh ==
  Spec => []RoomsFresh
<1>1. ensure_init => Inv(clients, rooms) /\ Fresh(clients, rooms)
  <2> SUFFICES ASSUME ensure_init PROVE Inv(clients, rooms) /\ Fresh(clients, rooms) OBVIOUS
  <2>1. Inv(clients, rooms) BY InitInv, SMTT(60)
  <2>2. \A i \in Slots : rooms[i] = FreeRoom BY ZenonT(60) DEF ensure_init
  <2>3. \A i \in Slots : Members(rooms, i) = {} /\ ~InUse(rooms, i)
    BY <2>2, FreeRoomType, SMTT(60) DEF Members, InUse
  <2>4. Fresh(clients, rooms) BY <2>3, ZenonT(60) DEF Fresh, FreshRoom
  <2> QED BY <2>1, <2>4, SMTT(60)
<1>2. Inv(clients, rooms) /\ Fresh(clients, rooms) /\ [Next]_vars =>
        Inv(clients, rooms)' /\ Fresh(clients, rooms)'
  BY NextInv, NextFresh, SMTT(60)
<1>3. Inv(clients, rooms) /\ Fresh(clients, rooms) => RoomsFresh
  BY ZenonT(60) DEF Fresh, FreshRoom, RoomsFresh
<1> QED BY <1>1, <1>2, <1>3, PTL DEF Spec

=============================================================================
