----------------------------- MODULE GameServer -----------------------------
(***************************************************************************)
(* tetrisd at work: the admin thread (tetrisd.c, admin_thread) with its    *)
(* room table (module Rooms), and one session process per client           *)
(* (session.c, session_main), joined by a stream socketpair each.  Both    *)
(* directions are FIFO; the session's end blocks when it is full, the      *)
(* admin's end does not.  The sessions, the admin and the clients          *)
(* interleave freely, so either side acts on what it last heard.           *)
(*                                                                         *)
(* The board is abstracted to what the rest of the server can see of it:   *)
(* the score and whether it has topped out.  Garbage a clear earns is sent *)
(* in the step that earned it (session_flush_garbage), so none is banked   *)
(* between steps.                                                          *)
(***************************************************************************)
EXTENDS Rooms

CONSTANTS
  UP_CAP,     \* messages a session's outgoing socket buffer holds
  DOWN_CAP,   \* messages the admin may have queued before a write would block
  MaxCmds,    \* bounds: connects, JOINs, LEAVEs and STARTs of each client
  MayExit,    \* sessions whose client may disconnect
  MayStall    \* sessions that may block for good, writing to a dead client

ASSUME ServerAssumption ==
  /\ UP_CAP \in Nat /\ UP_CAP > 2 /\ DOWN_CAP \in Nat \ {0} /\ \A c \in MaxCmds : c \in [Fds -> Nat]
  /\ MayExit \subseteq Fds /\ MayStall \subseteq Fds

VARIABLES
  sess,   \* the session processes: Session, and where their process is
  up,     \* session -> admin
  down,   \* admin -> session
  stage,  \* where the admin loop is: "poll", "serve", "flush", "drain"
  batch,  \* sessions poll() reported and the scan has yet to reach
  cmds,   \* commands each client has left
  rows    \* history rows written for the board a session last started

serverVars == <<sess, up, down, stage, batch, cmds, rows>>
allVars == <<clients, rooms, wedged, torn, serverVars>>

(* session_reset *)
NoSession ==
  [proc |-> "none", phase |-> "IDLE", room_id |-> ROOM_NONE, player_id |-> 0,
   is_owner |-> FALSE, roster |-> {}, seed |-> 0, score |-> 0, over |-> FALSE,
   last_score |-> -1]

Init ==
  /\ ensure_init
  /\ sess = [fd \in Fds |-> NoSession]
  /\ up = [fd \in Fds |-> <<>>]
  /\ down = [fd \in Fds |-> <<>>]
  /\ stage = "poll" /\ batch = {}
  /\ cmds \in MaxCmds
  /\ rows = [fd \in Fds |-> 0]

-----------------------------------------------------------------------------
(* A session process.  Each step is one branch of its poll loop; a blocked *)
(* write is a step that has not happened yet.                              *)

Running(fd) == sess[fd].proc = "running"
adminUnchanged == UNCHANGED <<clients, rooms, wedged, torn, stage, batch>>

admin_send(fd, msgs) ==
  /\ Len(up[fd]) + Len(msgs) <= UP_CAP
  /\ up' = [up EXCEPT ![fd] = @ \o msgs]

(* A client connects: fork and exec, and the admin is told (notify pipe).  *)
Connect(fd) ==
  /\ sess[fd].proc = "none" /\ cmds[fd] > 0
  /\ sess' = [sess EXCEPT ![fd] = [NoSession EXCEPT !.proc = "running"]]
  /\ cmds' = [cmds EXCEPT ![fd] = @ - 1]
  /\ adminUnchanged /\ UNCHANGED <<up, down, rows>>

(* JOIN names any room; LEAVE and START must name the one the session      *)
(* believes it is in.  (In the lobby that is room -1, and the admin's      *)
(* answer changes nothing in the table: module Rooms takes those steps.)   *)
Command(fd, msg) ==
  /\ Running(fd) /\ cmds[fd] > 0
  /\ msg.type # "JOIN" => sess[fd].room_id # ROOM_NONE
  /\ admin_send(fd, <<msg>>)
  /\ cmds' = [cmds EXCEPT ![fd] = @ - 1]
  /\ adminUnchanged /\ UNCHANGED <<sess, down, rows>>

(* What one drop or one tick may do to a board that is still alive: clear  *)
(* lines, which scores and may earn garbage, and top out.                  *)
Outcomes(s) ==
  IF s.over THEN {[gain |-> 0, garbage |-> 0, over |-> TRUE]}
  ELSE {o \in [gain : 0..1, garbage : 0..1, over : BOOLEAN] :
          o.garbage <= o.gain /\ s.score + o.gain <= MaxScore}

session_flush_garbage(o) ==
  IF o.garbage > 0 THEN <<[type |-> "GARBAGE", lines |-> o.garbage]>> ELSE <<>>

(* DROP, only while playing: a piece locks at once. *)
Drop(fd) ==
  /\ Running(fd) /\ sess[fd].phase = "PLAYING" /\ ~sess[fd].over
  /\ \E o \in Outcomes(sess[fd]) :
       /\ admin_send(fd, session_flush_garbage(o))
       /\ sess' = [sess EXCEPT ![fd].score = @ + o.gain, ![fd].over = o.over]
  /\ adminUnchanged /\ UNCHANGED <<down, cmds, rows>>

(* Only a score that moved is reported. *)
ScoreReport(s, score) ==
  IF score = s.last_score THEN <<>> ELSE <<[type |-> "SCORE", score |-> score]>>

(* The gravity tick, only while playing: report garbage, then a score that *)
(* moved, then the end of the game, and record the round.                  *)
Tick(fd, o) ==
  LET s == sess[fd]
      t == [s EXCEPT !.score = @ + o.gain, !.over = o.over]
      gameover == IF t.over THEN <<[type |-> "GAMEOVER", score |-> t.score]>> ELSE <<>>
  IN  /\ Running(fd) /\ s.phase = "PLAYING" /\ o \in Outcomes(s)
      /\ admin_send(fd, session_flush_garbage(o) \o ScoreReport(s, t.score) \o gameover)
      /\ sess' = [sess EXCEPT ![fd] =
                    [t EXCEPT !.last_score = t.score,
                              !.phase = IF t.over THEN "GAME_OVER" ELSE @]]
      /\ rows' = [rows EXCEPT ![fd] = IF t.over THEN @ + 1 ELSE @]
      /\ adminUnchanged /\ UNCHANGED <<down, cmds>>

(* What one message from the admin does to the session.  Garbage reaches a *)
(* board that is in play and may bury it; a reject and the standings are   *)
(* passed on to the client.                                                *)
Heard(s, m) ==
  CASE m.type = "SESSION" ->
         {[s EXCEPT !.phase = m.phase, !.room_id = m.room_id, !.player_id = m.player_id,
                    !.is_owner = m.is_owner, !.roster = m.roster]}
    [] m.type = "SEED" ->
         {[s EXCEPT !.phase = "PLAYING", !.seed = m.seed, !.score = 0, !.over = FALSE]}
    [] m.type = "RECV_GARBAGE" ->
         IF s.phase = "PLAYING" /\ ~s.over
         THEN {s, [s EXCEPT !.over = TRUE]} ELSE {s}
    [] m.type = "RESULT" -> {[s EXCEPT !.phase = "WAITING"]}
    [] OTHER -> {s}

session_handle_admin(fd) ==
  /\ Running(fd) /\ down[fd] # <<>>
  /\ \E s \in Heard(sess[fd], Head(down[fd])) : sess' = [sess EXCEPT ![fd] = s]
  /\ down' = [down EXCEPT ![fd] = Tail(@)]
  /\ rows' = [rows EXCEPT ![fd] = IF Head(down[fd]).type = "SEED" THEN 0 ELSE @]
  /\ adminUnchanged /\ UNCHANGED <<up, cmds>>

(* The client disconnects, or the process dies: its end closes.  What it   *)
(* wrote can still be read.                                                *)
Exit(fd) ==
  /\ fd \in MayExit /\ sess[fd].proc \in {"running", "stalled"}
  /\ sess' = [sess EXCEPT ![fd] = [NoSession EXCEPT !.proc = "dead"]]
  /\ down' = [down EXCEPT ![fd] = <<>>]
  /\ adminUnchanged /\ UNCHANGED <<up, cmds, rows>>

(* The process blocks in a write to a client that has stopped reading. *)
Stall(fd) ==
  /\ fd \in MayStall /\ Running(fd)
  /\ sess' = [sess EXCEPT ![fd].proc = "stalled"]
  /\ adminUnchanged /\ UNCHANGED <<up, down, cmds, rows>>

-----------------------------------------------------------------------------
(* The admin thread. *)

(* The admin's end of a socketpair never blocks the admin. *)
Full == {fd \in Fds : sess[fd].proc # "dead" /\ Len(down[fd]) >= DOWN_CAP}

Queued(out, fd) == SelectSeq(out, LAMBDA m : m.to = fd)

(* As if the admin's ends blocked like the sessions' do. *)
BlockingEnds_all == Fds

(* The admin's ends that make a writer wait when full: the listener sets   *)
(* O_NONBLOCK on every one.                                                *)
BlockingEnds == {}

Waits(out) == \E fd \in Full \cap BlockingEnds : Queued(out, fd) # <<>>

(* The table becomes st; its messages go out, to the sessions still there. *)
Write(st, list, closed) ==
  /\ ~Waits(st.out)
  /\ Become(st, Full, list, closed)
  /\ down' = [fd \in Fds |-> IF fd \in closed THEN <<>>
                             ELSE IF fd \in Full \/ sess[fd].proc = "dead" THEN down[fd]
                             ELSE down[fd] \o Queued(st.out, fd)]

(* A dropped session's socket is closed and its process reaped, by force   *)
(* if it does not go by itself.                                            *)
Reaped(fd) ==
  /\ sess' = [sess EXCEPT ![fd] = NoSession]
  /\ up' = [up EXCEPT ![fd] = <<>>]

Registered(fd) == clients[fd].live

(* (1) a registration from the listener; when the poll set is full the     *)
(* socket is closed, and the session goes.                                 *)
TakeNew(fd) ==
  /\ stage = "poll" /\ sess[fd].proc # "none" /\ ~Registered(fd)
  /\ IF Cardinality(Live(clients)) < MAX_SESSIONS
     THEN Write(client_add(State, fd), wedged, {}) /\ UNCHANGED <<sess, up>>
     ELSE Write(State, wedged, {fd}) /\ Reaped(fd)
  /\ UNCHANGED <<stage, batch, cmds, rows>>

Ready(fd) == Registered(fd) /\ (up[fd] # <<>> \/ sess[fd].proc = "dead")

(* poll() returns the sessions with something to read, or hung up. *)
Poll ==
  /\ stage = "poll" /\ \E fd \in Fds : Ready(fd)
  /\ batch' = {fd \in Fds : Ready(fd)}
  /\ stage' = "serve"
  /\ UNCHANGED <<clients, rooms, wedged, torn, sess, up, down, cmds, rows>>

(* (3) one message of one session, or its hangup *)
Serve(fd) ==
  /\ stage = "serve" /\ fd \in batch
  /\ batch' = batch \ {fd}
  /\ stage' = IF batch' = {} THEN "flush" ELSE "serve"
  /\ UNCHANGED <<cmds, rows>>
  /\ \/ /\ up[fd] # <<>>
        /\ \E seed \in Seeds : Write(client_handle(State, fd, Head(up[fd]), seed), wedged, {})
        /\ up' = [up EXCEPT ![fd] = Tail(@)]
        /\ UNCHANGED sess
     \/ /\ up[fd] = <<>>
        /\ Write(client_close(State, fd), wedged, {fd})
        /\ Reaped(fd)

(* (4) publish, then drop whoever did not take it, then publish again. *)
FlushUpdates ==
  /\ stage = "flush"
  /\ Write(room_flush_updates(State), wedged, {})
  /\ stage' = IF wedged' = <<>> THEN "poll" ELSE "drain"
  /\ UNCHANGED <<sess, up, batch, cmds, rows>>

(* After the last wedged session the standings are flushed once more. *)
AfterDrain_sleeps(list) == IF list = <<>> THEN "poll" ELSE "drain"
AfterDrain(list) == IF list = <<>> THEN "flush" ELSE "drain"

Drain ==
  LET fd == Head(wedged)
  IN  /\ stage = "drain"
      /\ IF Registered(fd)
         THEN Write(client_close(State, fd), Tail(wedged), {fd}) /\ Reaped(fd)
         ELSE Write(State, Tail(wedged), {}) /\ UNCHANGED <<sess, up>>
      /\ stage' = AfterDrain(wedged')
      /\ UNCHANGED <<batch, cmds, rows>>

-----------------------------------------------------------------------------
Commands == [type : {"JOIN"}, room_id : JoinIds] \cup [type : {"LEAVE", "START"}]

AdminStep == \/ \E fd \in Fds : TakeNew(fd) \/ Serve(fd)
             \/ Poll \/ FlushUpdates \/ Drain

SessionStep(fd) ==
  \/ Connect(fd) \/ \E msg \in Commands : Command(fd, msg)
  \/ Drop(fd) \/ \E o \in Outcomes(sess[fd]) : Tick(fd, o)
  \/ session_handle_admin(fd) \/ Exit(fd) \/ Stall(fd)

ServerNext == AdminStep \/ \E fd \in Fds : SessionStep(fd)

ServerSpec == Init /\ [][ServerNext]_allVars

(* What the code's scheduling gives: the admin loop runs whenever it has   *)
(* something to do, a session reads what it is sent, and its tick fires    *)
(* every TICK_MS.  That a board left to gravity tops out in the end is the *)
(* one thing taken from the game itself.                                   *)
TopOut(fd) == \E o \in Outcomes(sess[fd]) : o.over /\ Tick(fd, o)

(* When session_handle_admin(fd) and TopOut(fd) are enabled: there is      *)
(* something to read; a board is in play and its last reports fit.         *)
HasMail(fd) == Running(fd) /\ down[fd] # <<>>

CanTopOut(fd) ==
  /\ Running(fd) /\ sess[fd].phase = "PLAYING"
  /\ Len(up[fd]) + Len(ScoreReport(sess[fd], sess[fd].score)) < UP_CAP

AdminReady ==
  /\ Full \cap BlockingEnds = {}
  /\ \/ stage # "poll"
     \/ \E fd \in Fds : Ready(fd) \/ (sess[fd].proc # "none" /\ ~Registered(fd))

(* Weak fairness of AdminStep, with its ENABLED spelled out; an admin that *)
(* a full socket could hold up would not be ready.  Every step of the      *)
(* admin moves one of these variables (turning a session away is the       *)
(* exception, and takes it off the list), and no other process does.       *)
AdminFair ==
  []<>(~AdminReady) \/ []<><<TRUE>>_<<clients, wedged, stage, batch>>

(* And weak fairness of a session's two steps, spelled out the same way. *)
Fairness ==
  /\ AdminFair
  /\ \A fd \in Fds :
       /\ []<>(~HasMail(fd)) \/ []<><<session_handle_admin(fd)>>_allVars
       /\ []<>(~CanTopOut(fd)) \/ []<><<TopOut(fd)>>_allVars

FairSpec == ServerSpec /\ Fairness

-----------------------------------------------------------------------------
(* Properties. *)

View(x) == <<x.room_id, x.player_id, x.is_owner, x.roster>>

(* What a session believes, or will once it has read its socket. *)
WillBelieve(fd) ==
  LET told == SelectSeq(down[fd], LAMBDA m : m.type = "SESSION")
  IN  IF told = <<>> THEN View(sess[fd]) ELSE View(told[Len(told)])

(* Every change the admin makes to a session's room, player id, ownership  *)
(* or roster is on its way to that session: once it has read its socket it *)
(* agrees with the table, whatever it and its roommates did meanwhile.     *)
SessionsInformed ==
  \A fd \in Fds : sess[fd].proc \in {"running", "stalled"} /\ fd \notin torn =>
                    WillBelieve(fd) = View(clients[fd])

(* All boards of a room in play run on the room's seed, or have it coming  *)
(* ("hand the SAME seed to every member so all boards generate the         *)
(* identical piece stream").                                               *)
SameBoards ==
  \A i \in Slots : InUse(rooms, i) /\ rooms[i].phase = "PLAYING" =>
    \A fd \in Members(rooms, i) \ torn :
      \/ sess[fd].proc = "dead"
      \/ \E k \in DOMAIN down[fd] : down[fd][k].type = "SEED"
      \/ sess[fd].seed = rooms[i].seed

(* The admin does not go to sleep on unpublished standings, although the   *)
(* last flush of a turn may itself cut sessions off, and closing those     *)
(* changes the standings again.                                            *)
PollsClean ==
  stage = "poll" => wedged = <<>> /\ \A i \in Slots : ~rooms[i].standings_dirty

(* A session whose stream lost part of a message is closed before the      *)
(* admin sleeps ("a partial write desyncs the stream - so record the fd    *)
(* and let the admin close it").  It does not hold: the list of such       *)
(* sessions is shorter than a broadcast is wide, and whoever finds it full *)
(* stays connected.                                                        *)
TornClosed == stage = "poll" => torn = {}

(* A finished round leaves one history row behind ("Records one finished   *)
(* round"): a session writes at most one row per board it starts.          *)
OneRowPerRound == \A fd \in Fds : rows[fd] <= 1

(* Every round ends, whoever leaves, drops or is cut off meanwhile, unless *)
(* one of its players' processes has stopped running altogether, or lost a *)
(* message and was not cut off for want of room on the list: nothing in    *)
(* the admin times a round out.                                            *)
RoundsEnd ==
  \A i \in Slots :
    (rooms[i].phase = "PLAYING")
      ~> \/ rooms[i].phase # "PLAYING"
         \/ \E fd \in Members(rooms, i) : sess[fd].proc = "stalled" \/ fd \in torn

(* One stuck client does not stop the admin from serving the others.       *)
EveryoneServed ==
  \A fd \in Fds : (Registered(fd) /\ up[fd] # <<>>) ~> (up[fd] = <<>>)

=============================================================================
