-------------------------------- MODULE Rooms --------------------------------
(***************************************************************************)
(* The room table of tetrisd (tetriSH/src/tetrisd/room.c): the admin       *)
(* thread's record of every connected session (g_clients) and of every     *)
(* active room (g_rooms).  The table is touched by one thread only, so     *)
(* each handler is one action; what interleaves is the order in which the  *)
(* sessions' messages, hangups and full sockets reach it.                  *)
(*                                                                         *)
(* A handler is an operator on a state record                              *)
(*    [clients, rooms, out]                                                *)
(* where out is the list of messages it writes, in the order of the code's *)
(* send_msg calls.  Names are left out and score stands for the pair       *)
(* (score, lines).  A roster or a scoreboard is the set of its rows: its   *)
(* order is a function of the rows, and module Ranking checks the array    *)
(* code that builds it.                                                    *)
(*                                                                         *)
(* A session's JOIN names a room by whatever %d reads off its path, so the *)
(* number may be negative.  room_create takes such a number and room_find  *)
(* refuses it: the room gets its one member, is never found again and is   *)
(* never freed, and -1 is ROOM_NONE besides.  For the members of any other *)
(* room client_find does not fail (that is part of Membership), so only    *)
(* the flush keeps the code's NULL check on members.                       *)
(***************************************************************************)
EXTENDS Integers, Sequences, FiniteSets, FiniteSetsExt, Functions

CONSTANTS
  Fds,              \* socketpair ends a session may be known by
  MAX_SESSIONS,     \* slots of g_clients
  MAX_ROOMS,        \* slots of g_rooms
  MAX_ROOM_MEMBERS, \* slots of Room.members
  MAX_STANDINGS,    \* rows of a roster or scoreboard
  WEDGED_MAX,       \* slots of g_wedged
  JoinIds,          \* room numbers a JOIN may name (0 = a new room; path_ids
                    \* reads any int)
  Seeds,            \* values of gen_seed
  Blockable,        \* sessions that may stop draining their socketpair
  MaxScore,         \* bound: scores reported are 0..MaxScore
  MaxJoins          \* bound: joins one room sees in its life

ASSUME RoomsAssumption ==
  /\ MAX_SESSIONS \in Nat \ {0} /\ MAX_ROOMS \in Nat \ {0}
  /\ MAX_ROOM_MEMBERS \in Nat \ {0} /\ MAX_STANDINGS \in Nat \ {0}
  /\ WEDGED_MAX \in Nat /\ MaxScore \in Nat /\ MaxJoins \in Nat
  /\ JoinIds \subseteq Int /\ Seeds \subseteq Nat /\ Blockable \subseteq Fds

VARIABLES
  clients,  \* g_clients, by fd
  rooms,    \* g_rooms, by slot
  wedged,   \* g_wedged: sessions whose socketpair refused a message
  torn      \* sessions still open whose stream lost (part of) a message

vars == <<clients, rooms, wedged, torn>>

ROOM_NONE == -1
Slots == 1..MAX_ROOMS
Phases == {"IDLE", "WAITING", "PLAYING", "GAME_OVER"}

(* A free slot, and what client_alloc makes of a recycled one before it is *)
(* live.  client_alloc resets neither lines, the name nor the roster, but  *)
(* handle_join rewrites them before they are sent; the one exception, a    *)
(* LEAVE from a session that has never joined, is answered with an idle    *)
(* state whose roster the code leaves stale and this model leaves empty.   *)
NoClient ==
  [live |-> FALSE, phase |-> "IDLE", room_id |-> ROOM_NONE, player_id |-> 0,
   is_owner |-> FALSE, score |-> 0, roster |-> {}]

(* A free slot.  Freeing a room only sets id to 0; its other fields are    *)
(* not read again before room_create rewrites them.  An empty              *)
(* last_standings stands for have_standings = false.                       *)
FreeRoom ==
  [id |-> 0, phase |-> "WAITING", seed |-> 0, next_player_id |-> 0,
   members |-> <<>>, standings_dirty |-> FALSE, last_standings |-> {}]

ensure_init ==
  /\ clients = [fd \in Fds |-> NoClient]
  /\ rooms = [i \in Slots |-> FreeRoom]
  /\ wedged = <<>>
  /\ torn = {}

-----------------------------------------------------------------------------
(* Lookups. *)

Live(C) == {fd \in Fds : C[fd].live}

(* The slot of room id, or 0. *)
room_find(R, id) ==
  IF id > 0 /\ \E i \in Slots : R[i].id = id
  THEN CHOOSE i \in Slots : R[i].id = id /\ \A j \in Slots : j < i => R[j].id # id
  ELSE 0

(* The number room_create(0) gives: the smallest positive one not in use.  *)
SmallestFreeId(R) ==
  CHOOSE n \in 1..(MAX_ROOMS + 1) :
    /\ \A i \in Slots : R[i].id # n
    /\ \A m \in 1..(n - 1) : \E i \in Slots : R[i].id = m

(* The slot room_create fills, or 0 when the room table is full. *)
FreeSlot(R) ==
  IF \E i \in Slots : R[i].id = 0
  THEN CHOOSE i \in Slots : R[i].id = 0 /\ \A j \in Slots : j < i => R[j].id # 0
  ELSE 0

room_create(id, R) ==
  [FreeRoom EXCEPT !.id = IF id = 0 THEN SmallestFreeId(R) ELSE id]

(* Forgetting to shift: the last member stays where it was. *)
room_del_member_truncates(members, fd) ==
  IF fd \in Range(members) THEN SubSeq(members, 1, Len(members) - 1) ELSE members

(* Swap-remove: the last member takes the place of the one removed. *)
room_del_member(members, fd) ==
  LET n == Len(members)
  IN  IF fd \in Range(members)
      THEN [k \in 1..(n - 1) |-> IF members[k] = fd THEN members[n] ELSE members[k]]
      ELSE members

-----------------------------------------------------------------------------
(* Sending. *)

SessionMsg(C, fd, created) ==
  [to |-> fd, type |-> "SESSION", created |-> created,
   phase |-> C[fd].phase, room_id |-> C[fd].room_id,
   player_id |-> C[fd].player_id, is_owner |-> C[fd].is_owner,
   roster |-> C[fd].roster]

send_session(st, fd) ==
  [st EXCEPT !.out = Append(@, SessionMsg(st.clients, fd, FALSE))]

send_reject(st, fd, reason) ==
  [st EXCEPT !.out = Append(@, [to |-> fd, type |-> "REJECT", reason |-> reason])]

(* One message per member, in members order; Msg(fd) is fd's copy. *)
room_broadcast(members, Msg(_)) == [k \in DOMAIN members |-> Msg(members[k])]

(* The rows a bounded insertion keeps: those with fewer than MAX_STANDINGS *)
(* others ranking before them.                                             *)
TopRows(rows, Before(_, _)) ==
  {r \in rows : Cardinality({q \in rows : Before(q, r)}) < MAX_STANDINGS}

Roster(C, members) ==
  TopRows({[player_id |-> C[fd].player_id, is_owner |-> C[fd].is_owner] :
             fd \in Range(members)},
          LAMBDA a, b : a.player_id < b.player_id)

(* As if only the session that acted were told. *)
room_push_sessions_ex_self(st, i, creator) ==
  [st EXCEPT !.clients = [fd \in Fds |->
      IF fd = Head(st.rooms[i].members)
      THEN [st.clients[fd] EXCEPT !.roster = Roster(st.clients, st.rooms[i].members)]
      ELSE st.clients[fd]]]

(* Every member's copy of its own state, carrying the one shared roster.   *)
room_push_sessions_ex(st, i, creator) ==
  LET members == st.rooms[i].members
      roster == Roster(st.clients, members)
      C == [fd \in Fds |-> IF fd \in Range(members)
                           THEN [st.clients[fd] EXCEPT !.roster = roster]
                           ELSE st.clients[fd]]
  IN  [st EXCEPT !.clients = C,
                 !.out = @ \o room_broadcast(members,
                                LAMBDA fd : SessionMsg(C, fd, fd = creator))]

standing_ranks_before(a, b) ==
  \/ a.score > b.score
  \/ a.score = b.score /\ a.player_id < b.player_id

Standings(C, members) ==
  TopRows({[player_id |-> C[fd].player_id, score |-> C[fd].score,
            game_over |-> C[fd].phase = "GAME_OVER"] : fd \in Range(members) \cap Live(C)},
          standing_ranks_before)

(* Broadcast the ranked scoreboard unless it is the one last published.    *)
StandingsMsgs(C, r) ==
  LET table == Standings(C, r.members)
  IN  IF table = r.last_standings THEN <<>>
      ELSE room_broadcast(r.members,
             LAMBDA fd : [to |-> fd, type |-> "STANDINGS", standings |-> table])

(* Either way the board is published and its mark, if any, is cleared.     *)
Published(C, r) ==
  [r EXCEPT !.standings_dirty = FALSE, !.last_standings = Standings(C, r.members)]

(* As if a change of the standings were left for somebody else to mark. *)
room_mark_standings_dirty_never(r) == r

room_mark_standings_dirty(r) == [r EXCEPT !.standings_dirty = TRUE]

-----------------------------------------------------------------------------
(* The end of a round. *)

(* Highest score, ties to the lowest player_id: the member the standings   *)
(* rank first (module Ranking checks the scan that finds it).              *)
Winner(C, members) ==
  LET first == CHOOSE fd \in Range(members) :
                 \A f \in Range(members) \ {fd} : standing_ranks_before(C[fd], C[f])
  IN  C[first].player_id

RoundOver(C, r) ==
  /\ r.phase = "PLAYING"
  /\ r.members # <<>>
  /\ \A fd \in Range(r.members) : C[fd].phase = "GAME_OVER"

(* Publish the table that decided the winner, announce the result, and     *)
(* reset the room and its members for the next round.                      *)
room_check_round_end(st, i) ==
  LET r == st.rooms[i]
      winner == Winner(st.clients, r.members)
      C == [fd \in Fds |-> IF fd \in Range(r.members)
                           THEN [st.clients[fd] EXCEPT !.phase = "WAITING", !.score = 0]
                           ELSE st.clients[fd]]
  IN  IF ~RoundOver(st.clients, r) THEN st
      ELSE [clients |-> C,
            rooms |-> [st.rooms EXCEPT ![i] = [Published(st.clients, r) EXCEPT !.phase = "WAITING"]],
            out |-> st.out \o StandingsMsgs(st.clients, r)
                    \o room_broadcast(r.members,
                         LAMBDA fd : [to |-> fd, type |-> "RESULT", winner |-> winner])]

-----------------------------------------------------------------------------
(* The handlers, as state transformers. *)

REJECT_NOT_OWNER == 403
REJECT_CONFLICT == 409
REJECT_FULL == 429

(* next_player_id++: ids are not reused while the room lives. *)
NewPlayerId(r) == r.next_player_id

(* The new member, in room r as it was before the join. *)
Joiner(c, r) ==
  [c EXCEPT !.room_id = r.id, !.player_id = NewPlayerId(r),
            !.is_owner = (r.members = <<>>), !.phase = "WAITING", !.score = 0]

(* Admitting a member: first member owns the room, everybody gets the new  *)
(* roster, and the newcomer is owed the standings whatever they are.       *)
Admit(st, fd, i, r, creator) ==
  LET joined == [r EXCEPT !.members = Append(@, fd), !.next_player_id = @ + 1,
                          !.last_standings = {}]
  IN  room_push_sessions_ex(
        [st EXCEPT !.rooms[i] = room_mark_standings_dirty(joined),
                   !.clients[fd] = Joiner(@, r)],
        i, creator)

(* JOIN: refused in a room already, for a room whose round is running, and *)
(* when a table is full.                                                   *)
handle_join(st, fd, want) ==
  LET found == room_find(st.rooms, want)
      free == FreeSlot(st.rooms)
      r == st.rooms[found]
  IN  IF \/ st.clients[fd].room_id # ROOM_NONE
         \/ found # 0 /\ r.phase = "PLAYING"
      THEN send_reject(st, fd, REJECT_CONFLICT)
      ELSE IF \/ found = 0 /\ free = 0
              \/ found # 0 /\ Len(r.members) >= MAX_ROOM_MEMBERS
      THEN send_reject(st, fd, REJECT_FULL)
      ELSE IF found # 0 THEN Admit(st, fd, found, r, -1)
      ELSE Admit(st, fd, free, room_create(want, st.rooms), fd)

(* As if the room were left without an owner. *)
Promote_nobody(C, members, was_owner) == C

Promote(C, members, was_owner) ==
  IF was_owner THEN [C EXCEPT ![members[1]].is_owner = TRUE] ELSE C

(* As if only a game over could end a round. *)
AfterDeparture_noRecheck(st, i, was_owner) ==
  LET members == st.rooms[i].members
      promoted == [st EXCEPT !.clients = Promote(@, members, was_owner)]
  IN  IF members = <<>> THEN [st EXCEPT !.rooms[i] = FreeRoom]
      ELSE room_push_sessions_ex([promoted EXCEPT !.rooms[i] = room_mark_standings_dirty(@)],
                                 i, -1)

(* What a departure does to the room left behind: an empty room is freed;  *)
(* otherwise ownership passes on, the departure may be what ends the       *)
(* round, and everyone left gets the new roster.                           *)
AfterDeparture(st, i, was_owner) ==
  LET members == st.rooms[i].members
      promoted == [st EXCEPT !.clients = Promote(@, members, was_owner)]
      marked == [promoted EXCEPT !.rooms[i] = room_mark_standings_dirty(@)]
  IN  IF members = <<>> THEN [st EXCEPT !.rooms[i] = FreeRoom]
      ELSE IF RoundOver(promoted.clients, promoted.rooms[i])
           THEN room_push_sessions_ex(room_check_round_end(promoted, i), i, -1)
      ELSE room_push_sessions_ex(marked, i, -1)

handle_leave(st, fd) ==
  LET c == st.clients[fd]
      i == room_find(st.rooms, c.room_id)
      idle == [c EXCEPT !.room_id = ROOM_NONE, !.player_id = 0, !.is_owner = FALSE,
                 !.phase = "IDLE", !.score = 0, !.roster = {}]
      left == send_session([st EXCEPT !.clients[fd] = idle], fd)
  IN  IF c.room_id = ROOM_NONE THEN send_session(st, fd)
      ELSE IF i = 0 THEN left
      ELSE AfterDeparture([left EXCEPT !.rooms[i].members = room_del_member(@, fd)],
                          i, c.is_owner)

(* As if the seed were handed out and not kept. *)
StartedRoom_seedless(r, seed) == [r EXCEPT !.phase = "PLAYING"]

StartedRoom(r, seed) == [r EXCEPT !.seed = seed, !.phase = "PLAYING"]

(* START: owner only.  One seed for everybody; scores are left as they     *)
(* are, the end of the previous round has zeroed them.                     *)
handle_start(st, fd, seed) ==
  LET c == st.clients[fd]
      i == room_find(st.rooms, c.room_id)
      r == st.rooms[i]
      C == [f \in Fds |-> IF f \in Range(r.members)
                          THEN [st.clients[f] EXCEPT !.phase = "PLAYING"]
                          ELSE st.clients[f]]
  IN  IF c.room_id = ROOM_NONE THEN send_reject(st, fd, REJECT_CONFLICT)
      ELSE IF ~c.is_owner THEN send_reject(st, fd, REJECT_NOT_OWNER)
      ELSE IF i = 0 \/ (i # 0 /\ r.phase = "PLAYING")
           THEN send_reject(st, fd, REJECT_CONFLICT)
      ELSE [clients |-> C,
            rooms |-> [st.rooms EXCEPT ![i] = room_mark_standings_dirty(StartedRoom(r, seed))],
            out |-> st.out \o room_broadcast(r.members,
                      LAMBDA f : [to |-> f, type |-> "SEED", seed |-> seed])]

(* The victim of an attack: among the other members still playing, the     *)
(* first in members order with the highest score.                          *)
Targets(C, members, fd) ==
  SelectSeq(members, LAMBDA t : t # fd /\ C[t].phase = "PLAYING")

Victim(C, targets) ==
  targets[Min({k \in DOMAIN targets :
                 \A j \in DOMAIN targets : C[targets[j]].score <= C[targets[k]].score})]

handle_garbage(st, fd, lines) ==
  LET c == st.clients[fd]
      i == room_find(st.rooms, c.room_id)
      targets == Targets(st.clients, st.rooms[i].members, fd)
  IN  IF c.room_id = ROOM_NONE \/ lines <= 0 \/ i = 0 THEN st
      ELSE IF targets = <<>> THEN st
      ELSE [st EXCEPT !.out = Append(@, [to |-> Victim(st.clients, targets),
                                         type |-> "RECV_GARBAGE", lines |-> lines])]

handle_score(st, fd, score) ==
  LET c == st.clients[fd]
      i == room_find(st.rooms, c.room_id)
      scored == [st EXCEPT !.clients[fd].score = score]
  IN  IF c.room_id = ROOM_NONE \/ c.score = score THEN st
      ELSE IF i = 0 THEN scored
      ELSE [scored EXCEPT !.rooms[i] = room_mark_standings_dirty(@)]

(* GAMEOVER: accepted whatever phase the room is in. *)
handle_gameover(st, fd, score) ==
  LET c == st.clients[fd]
      i == room_find(st.rooms, c.room_id)
      over == [st EXCEPT !.clients[fd].phase = "GAME_OVER", !.clients[fd].score = score]
  IN  IF c.room_id = ROOM_NONE THEN st
      ELSE IF i = 0 THEN over
      ELSE room_check_round_end([over EXCEPT !.rooms[i] = room_mark_standings_dirty(@)], i)

-----------------------------------------------------------------------------
(* The module's entry points, as the admin thread calls them. *)

State == [clients |-> clients, rooms |-> rooms, out |-> <<>>]

(* A new session starts idle, and nothing is sent.  When the table is full *)
(* it is told so instead.                                                  *)
client_add(st, fd) ==
  IF Cardinality(Live(st.clients)) < MAX_SESSIONS
  THEN [st EXCEPT !.clients[fd] = [NoClient EXCEPT !.live = TRUE]]
  ELSE send_reject(st, fd, REJECT_FULL)

(* seed is what gen_seed would return. *)
client_handle(st, fd, msg, seed) ==
  CASE msg.type = "JOIN" -> handle_join(st, fd, msg.room_id)
    [] msg.type = "LEAVE" -> handle_leave(st, fd)
    [] msg.type = "START" -> handle_start(st, fd, seed)
    [] msg.type = "GARBAGE" -> handle_garbage(st, fd, msg.lines)
    [] msg.type = "SCORE" -> handle_score(st, fd, msg.score)
    [] msg.type = "GAMEOVER" -> handle_gameover(st, fd, msg.score)

(* As if a session that hangs up were only struck off the session table. *)
client_close_slotOnly(st, fd) == [st EXCEPT !.clients[fd] = NoClient]

(* The session is gone: leave its room, free its slot. *)
client_close(st, fd) ==
  LET c == st.clients[fd]
      i == room_find(st.rooms, c.room_id)
      left == IF c.room_id = ROOM_NONE \/ i = 0 THEN st
              ELSE AfterDeparture([st EXCEPT !.rooms[i].members = room_del_member(@, fd)],
                                  i, c.is_owner)
  IN  [left EXCEPT !.clients[fd] = NoClient]

(* Publish the standings of every room marked since the last flush. *)
room_flush_updates(st) ==
  LET dirty == {i \in Slots : st.rooms[i].standings_dirty}
      sent[i \in 0..MAX_ROOMS] ==
        IF i = 0 THEN st.out
        ELSE IF i \in dirty THEN sent[i - 1] \o StandingsMsgs(st.clients, st.rooms[i])
        ELSE sent[i - 1]
  IN  [clients |-> st.clients,
       rooms |-> [i \in Slots |-> IF i \in dirty THEN Published(st.clients, st.rooms[i])
                                                 ELSE st.rooms[i]],
       out |-> sent[MAX_ROOMS]]

-----------------------------------------------------------------------------
(* Writing the messages out.  full is the set of sockets that would block; *)
(* a message for one of them is lost and its session is put on the wedged  *)
(* list, if the list has room.                                             *)

mark_wedged(list, fd) ==
  IF fd \in Range(list) \/ Len(list) >= WEDGED_MAX THEN list ELSE Append(list, fd)

Refused(out, full) == SelectSeq(out, LAMBDA m : m.to \in full)

(* list is the wedged list before the step; the sessions in closed have    *)
(* just been closed, which settles whatever their streams had lost.        *)
send_msg(out, full, list, closed) ==
  LET refused == Refused(out, full)
      marked[k \in 0..Len(refused)] ==
        IF k = 0 THEN list ELSE mark_wedged(marked[k - 1], refused[k].to)
  IN  /\ wedged' = marked[Len(refused)]
      /\ torn' = (torn \cup {refused[k].to : k \in DOMAIN refused}) \ closed

Become(st, full, list, closed) ==
  /\ clients' = st.clients
  /\ rooms' = st.rooms
  /\ send_msg(st.out, full, list, closed)

(* The admin's steps on the table.  A session is dropped, and its socket   *)
(* closed, on its hangup or when it is taken off the wedged list; one that *)
(* is on the list but not in the table was dropped on its hangup already,  *)
(* or never got in.                                                        *)
Register(fd, full) ==
  ~clients[fd].live /\ Become(client_add(State, fd), full, wedged, {})

Route(fd, msg, full) ==
  /\ clients[fd].live
  /\ \E seed \in Seeds : Become(client_handle(State, fd, msg, seed), full, wedged, {})

drop_session(fd, full) ==
  clients[fd].live /\ Become(client_close(State, fd), full, wedged, {fd})

client_take_wedged(full) ==
  \E fd \in Fds :
      /\ wedged # <<>> /\ fd = Head(wedged)
      /\ Become(IF clients[fd].live THEN client_close(State, fd) ELSE State,
                full, Tail(wedged), {fd})

Flush(full) == Become(room_flush_updates(State), full, wedged, {})

-----------------------------------------------------------------------------
(* The table on its own: sessions may send anything at any time, and the   *)
(* sockets of those in Blockable may be full.                              *)

(* The bound on joins.  A room that cannot be found sees one in its life.  *)
JoinAllowed(id) ==
  \A i \in Slots : rooms[i].id = id /\ id > 0 => rooms[i].next_player_id < MaxJoins

Messages ==
  [type : {"JOIN"}, room_id : {id \in JoinIds : JoinAllowed(id)}]
  \cup [type : {"LEAVE", "START"}]
  \cup [type : {"GARBAGE"}, lines : 0..1]
  \cup [type : {"SCORE", "GAMEOVER"}, score : 0..MaxScore]

Next ==
  \E full \in SUBSET Blockable :
    \/ \E fd \in Fds : Register(fd, full)
    \/ \E fd \in Fds : \E msg \in Messages : Route(fd, msg, full)
    \/ \E fd \in Fds : drop_session(fd, full)
    \/ client_take_wedged(full)
    \/ Flush(full)

Spec == ensure_init /\ [][Next]_vars

-----------------------------------------------------------------------------
(* Properties.  Those of the tables are stated for any clients C and rooms *)
(* R: a handler is right when it keeps them.                               *)

(* A room that a message can still reach, and the sessions that are in a   *)
(* room as far as it matters: one with a negative number, which nothing    *)
(* reaches, keeps its first member listed, gone or not, and counts for     *)
(* nobody.                                                                 *)
InUse(R, i) == R[i].id > 0
Members(R, i) == IF InUse(R, i) THEN Range(R[i].members) ELSE {}

ClientType ==
  [live : BOOLEAN, phase : Phases, room_id : Int, player_id : Nat, is_owner : BOOLEAN,
   score : Nat, roster : SUBSET [player_id : Nat, is_owner : BOOLEAN]]

RoomType ==
  [id : Int, phase : {"WAITING", "PLAYING"}, seed : Nat, next_player_id : Nat,
   members : Seq(Fds), standings_dirty : BOOLEAN,
   last_standings : SUBSET [player_id : Nat, score : Nat, game_over : BOOLEAN]]

TypeOK == clients \in [Fds -> ClientType] /\ rooms \in [Slots -> RoomType]

(* A room's members are exactly the live sessions whose record names that  *)
(* room, each listed once; no two rooms share a number; a room in use is   *)
(* never empty.                                                            *)
InSync(C, R) ==
  /\ \A i \in Slots : \A fd \in Fds :
       fd \in Members(R, i) <=> InUse(R, i) /\ C[fd].live /\ C[fd].room_id = R[i].id
  /\ \A fd \in Fds : C[fd].room_id > 0 => \E i \in Slots : fd \in Members(R, i)
  /\ \A i \in Slots : IsInjective(R[i].members)
  /\ \A i, j \in Slots : InUse(R, i) /\ R[i].id = R[j].id => i = j
  /\ \A i \in Slots : InUse(R, i) => R[i].members # <<>>

(* "join/leave keep the two views in sync" (room.c): the session table and *)
(* the room table agree, on every room that can be found, after every      *)
(* join, leave, hangup and wedged drop.  On a room made under a negative   *)
(* number they do not agree: room_find refuses it, so that its maker       *)
(* leaves, or is gone, and stays listed, and the slot is never freed.      *)
Membership == InSync(clients, rooms)

(* Every room in use has exactly one owner: ownership survives any order   *)
(* of leaves, drops and wedged sockets.                                    *)
Owned(C, R) ==
  \A i \in Slots : InUse(R, i) => \E o \in Members(R, i) :
    C[o].is_owner /\ \A fd \in Members(R, i) \ {o} : ~C[fd].is_owner

(* START always has exactly one session that may issue it, in a room that  *)
(* can be found.                                                           *)
OneOwner == Owned(clients, rooms)

(* Player ids are unique in a room although members come and go: a kick or *)
(* a scoreboard row addressed by (room, player) means one session.         *)
Distinct(C, R) ==
  \A i \in Slots : \A a, b \in Members(R, i) :
    /\ C[a].player_id < R[i].next_player_id
    /\ C[a].player_id = C[b].player_id => a = b

(* client_fd_by_player finds at most one session. *)
UniquePlayers == Distinct(clients, rooms)

(* While a room plays, some member is still playing (otherwise the result  *)
(* would have been announced already), and nobody in it is waiting without *)
(* a board.                                                                *)
CanEnd(C, R) ==
  \A i \in Slots : R[i].phase = "PLAYING" /\ InUse(R, i) =>
    /\ \E fd \in Members(R, i) : C[fd].phase = "PLAYING"
    /\ \A fd \in Members(R, i) : C[fd].phase \in {"PLAYING", "GAME_OVER"}

(* A round can always still end (the "a round can stop ending" bug that    *)
(* room_check_round_end's comment describes cannot come back).             *)
RoundNotStuck == CanEnd(clients, rooms)

(* Nobody looks at an out-of-date room: every member's roster is the       *)
(* present one, owner mark included, after every handler; the scoreboard   *)
(* of a running round is the true ranking, or marked for the next flush    *)
(* (room_push_sessions_ex, room_mark_standings_dirty).                     *)
RoomsFresh ==
  \A i \in Slots :
    /\ \A fd \in Members(rooms, i) : clients[fd].roster = Roster(clients, rooms[i].members)
    /\ InUse(rooms, i) /\ rooms[i].phase = "PLAYING" =>
         \/ rooms[i].standings_dirty
         \/ rooms[i].last_standings = Standings(clients, rooms[i].members)
=============================================================================
