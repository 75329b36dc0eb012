------------------------------ MODULE Logging -------------------------------
(***************************************************************************)
(* Logging: the threads of a process that send records without ever        *)
(* waiting (libtetrisutil/logmsg.c), the datagram socket, tetrislogd's     *)
(* loop that writes them to a file, and the mirror that copies what was    *)
(* written into a database through a bounded queue, a worker thread and a  *)
(* child process (libtetrisdb/pipe).  A record is a level and the number   *)
(* of drops its sender reports with it.                                    *)
(***************************************************************************)
EXTENDS Integers, Sequences, FiniteSetsExt

CONSTANTS Threads,        \* threads of the sending process
          LogPlans,          \* who sends how much, what may fail
          Attempts,       \* log_send_attempts
          SocketCap,      \* datagrams the socket holds
          QueueCap,       \* log_db_queue
          RespawnMax,     \* DB_RESPAWN_MAX
          DrainMax,       \* LOGD_DRAIN_MAX
          ClaimMax        \* LOGD_DROP_CLAIM_MAX

VARIABLES
  glb,   \* the sender's globals: lock, connection, unreported, dropped
  snd,   \* each thread inside log_vsend
  path,  \* the daemon whose socket the file names, 0 for none
  sock,  \* the datagrams in the socket
  d,     \* the daemon
  m,     \* its mirror
  rows,  \* ids in the log table
  plan   \* what is left of the plan: sends, signals, starts, summaries, faults

logVars == <<glb, snd, path, sock, d, m, rows, plan>>

Spend(what) == plan[what] > 0 /\ plan' = [plan EXCEPT ![what] = @ - 1]

-----------------------------------------------------------------------------
(* A sending thread. *)

Up == d.at \notin {"down", "exit"}

(* A thread that finds another inside drops its record.  Otherwise it has  *)
(* the lock, and the record carries every drop not yet reported.           *)
log_vsend(t) ==
  /\ \/ /\ snd[t].pc = "idle" /\ snd[t].left > 0
        /\ glb' = [glb EXCEPT !.lock = TRUE]
        /\ snd' = [snd EXCEPT ![t].pc = IF glb.lock THEN "drop" ELSE "load", ![t].left = @ - 1]
     \/ /\ snd[t].pc = "load"
        /\ snd' = [snd EXCEPT ![t].pc = "send",
                              ![t].msg = [level |-> plan.levels[t], dropped |-> glb.unreported]]
        /\ UNCHANGED glb
  /\ UNCHANGED <<path, sock, d, m, rows, plan>>

(* connect() finds a socket that is open behind the file. *)
sender_connect_socket == IF path # 0 /\ path = d.gen /\ Up THEN path ELSE 0

NoMsg == [level |-> 0, dropped |-> 0]

Leaves(t) == snd' = [snd EXCEPT ![t].pc = "idle", ![t].try = 0, ![t].msg = NoMsg]

(* The thread unlocks first and counts the drop afterwards. *)
Gives(t, fd) ==
  /\ snd' = [snd EXCEPT ![t].pc = "drop"]
  /\ glb' = [glb EXCEPT !.fd = fd, !.lock = FALSE]
  /\ UNCHANGED sock

(* send(): the record is queued, or the queue is full, or the peer has     *)
(* gone, and then the thread connects and tries again.                     *)
Send(t) ==
  /\ snd[t].pc = "send"
  /\ LET fd == IF glb.fd = 0 THEN sender_connect_socket ELSE glb.fd
         peer == fd = d.gen /\ Up
     IN \/ fd = 0 /\ Gives(t, 0)
        \/ /\ fd # 0 /\ peer /\ Len(sock) < SocketCap
           /\ sock' = Append(sock, snd[t].msg)
           /\ snd' = [snd EXCEPT ![t].pc = "settle"]
           /\ glb' = [glb EXCEPT !.fd = fd]
        \/ fd # 0 /\ peer /\ Len(sock) = SocketCap /\ Gives(t, fd)
        \/ /\ fd # 0 /\ ~peer
           /\ IF sender_connect_socket = 0 \/ snd[t].try + 1 = Attempts
              THEN Gives(t, sender_connect_socket)
              ELSE /\ snd' = [snd EXCEPT ![t].try = @ + 1]
                   /\ glb' = [glb EXCEPT !.fd = sender_connect_socket]
                   /\ UNCHANGED sock
  /\ UNCHANGED <<path, d, m, rows, plan>>

(* As if reporting drops cleared the count. *)
Settle_clears(t) ==
  /\ snd[t].pc = "settle"
  /\ glb' = [glb EXCEPT !.unreported = 0, !.lock = FALSE]
  /\ Leaves(t)
  /\ UNCHANGED <<path, sock, d, m, rows, plan>>

(* What the record reported is no longer to be reported; meanwhile other   *)
(* threads may have dropped records.                                       *)
Settle(t) ==
  /\ snd[t].pc = "settle"
  /\ glb' = [glb EXCEPT !.unreported = @ - snd[t].msg.dropped, !.lock = FALSE]
  /\ Leaves(t)
  /\ UNCHANGED <<path, sock, d, m, rows, plan>>

(* The two counters go up one after the other. *)
drop_one(t) ==
  /\ \/ /\ snd[t].pc = "drop"
        /\ glb' = [glb EXCEPT !.dropped = @ + 1]
        /\ snd' = [snd EXCEPT ![t].pc = "report"]
     \/ /\ snd[t].pc = "report"
        /\ glb' = [glb EXCEPT !.unreported = @ + 1]
        /\ Leaves(t)
  /\ UNCHANGED <<path, sock, d, m, rows, plan>>

Sender(t) == log_vsend(t) \/ Send(t) \/ Settle(t) \/ drop_one(t)

-----------------------------------------------------------------------------
(* The mirror: db_submit never waits. *)

NoMirror == [on |-> FALSE, q |-> <<>>, busy |-> 0, try |-> 0, child |-> FALSE, stopping |-> FALSE,
             dead |-> FALSE, dropped |-> 0, errors |-> 0, ok |-> {}, next |-> 1, first |-> 1,
             worker |-> "none"]

(* As if a full queue made room by forgetting its oldest statement. *)
db_submit_evicts(x) ==
  CASE ~x.on -> x
    [] x.on /\ (x.stopping \/ x.dead) -> [x EXCEPT !.dropped = @ + 1]
    [] x.on /\ ~(x.stopping \/ x.dead) /\ Len(x.q) = QueueCap -> [x EXCEPT !.q = Append(Tail(@), x.next)]
    [] OTHER -> [x EXCEPT !.q = Append(@, x.next)]

db_submit(x) ==
  CASE ~x.on -> x
    [] x.on /\ (Len(x.q) = QueueCap \/ x.stopping \/ x.dead) -> [x EXCEPT !.dropped = @ + 1]
    [] OTHER -> [x EXCEPT !.q = Append(@, x.next)]

(* The id goes up whether or not the statement was taken. *)
mirror_log_to_db(x) == IF x.on THEN [db_submit(x) EXCEPT !.next = @ + 1] ELSE x

(* As if a worker that sleeps were not woken to stop. *)
dequeue_asleep ==
  /\ m.worker = "wait"
  /\ m.q # <<>> /\ m' = [m EXCEPT !.q = Tail(@), !.busy = Head(m.q), !.try = 0, !.worker = "run"]
  /\ UNCHANGED <<glb, snd, path, sock, d, rows, plan>>

dequeue ==
  /\ m.worker = "wait"
  /\ \/ /\ m.q # <<>>
        /\ m' = [m EXCEPT !.q = Tail(@), !.busy = Head(m.q), !.try = 0, !.worker = "run"]
     \/ m.q = <<>> /\ m.stopping /\ m' = [m EXCEPT !.worker = "done"]
  /\ UNCHANGED <<glb, snd, path, sock, d, rows, plan>>

Free(x) == [x EXCEPT !.busy = 0, !.try = 0, !.worker = "wait"]

(* db_proc_exec: the child answers OK or not OK, or it dies or takes too   *)
(* long, with the statement done or not.  execute then kills it and tries  *)
(* the statement on a new one; when there is none, every later statement   *)
(* is dropped.                                                             *)
db_proc_exec ==
  /\ m.worker = "run" /\ ~m.dead /\ m.child
  /\ \/ /\ m' = [Free(m) EXCEPT !.ok = @ \cup {m.busy}]
        /\ rows' = rows \cup {m.busy} /\ UNCHANGED plan
     \/ /\ Spend("faults") /\ m' = [Free(m) EXCEPT !.errors = @ + 1] /\ UNCHANGED rows
     \/ /\ Spend("faults") /\ m' = [m EXCEPT !.child = FALSE]
        /\ rows' \in {rows, rows \cup {m.busy}}
  /\ UNCHANGED <<glb, snd, path, sock, d>>

GivesUp(x) == [Free(x) EXCEPT !.dead = TRUE, !.dropped = @ + 1]

db_proc_spawn ==
  /\ m.worker = "run" /\ ~m.dead /\ ~m.child
  /\ \/ m.try < RespawnMax /\ m' = [m EXCEPT !.child = TRUE, !.try = @ + 1] /\ UNCHANGED plan
     \/ m.try = RespawnMax /\ m' = GivesUp(m) /\ UNCHANGED plan
     \/ m.try < RespawnMax /\ Spend("faults") /\ m' = GivesUp(m)
  /\ UNCHANGED <<glb, snd, path, sock, d, rows>>

DropDead ==
  /\ m.worker = "run" /\ m.dead
  /\ m' = [Free(m) EXCEPT !.dropped = @ + 1]
  /\ UNCHANGED <<glb, snd, path, sock, d, rows, plan>>

execute == db_proc_exec \/ db_proc_spawn \/ DropDead

Worker == dequeue \/ execute

-----------------------------------------------------------------------------
(* The daemon. *)

(* db_snapshot: what the mirror has counted. *)
db_snapshot(x) == x.dropped + x.errors

(* db_seed_id: ids go on after the largest one in the table. *)
db_seed_id == IF rows = {} THEN 1 ELSE Max(rows) + 1

(* Without a table or a child there is no mirror; a child that rejects the *)
(* query for the largest id is one, and then ids start at 1.               *)
open_db ==
  {NoMirror} \cup
    IF ~plan.db THEN {}
    ELSE {[NoMirror EXCEPT !.on = TRUE, !.child = TRUE, !.worker = "wait",
                           !.next = id, !.first = id] : id \in {1, db_seed_id}}

(* logd_run up to its loop: the file is replaced by a socket of its own,   *)
(* and the banner is the first line.                                       *)
StartLogd ==
  /\ d.at = "down" /\ Spend("starts")
  /\ path' = d.gen + 1 /\ sock' = <<>>
  /\ \E x \in open_db :
       /\ m' = mirror_log_to_db(x)
       /\ d' = [d EXCEPT !.at = "top", !.gen = @ + 1, !.stop = FALSE, !.reopen = FALSE,
                         !.rc = 0, !.news = FALSE, !.window = 0]
  /\ UNCHANGED <<glb, snd, rows>>

(* The top of the loop: stop, or reopen the log file and say so; a file    *)
(* that cannot be opened leaves the old one in use.                        *)
Top ==
  /\ d.at = "top"
  /\ \/ /\ d.stop
        /\ d' = [d EXCEPT !.at = "drain", !.served = 0]
        /\ UNCHANGED m
     \/ /\ ~d.stop /\ d.reopen
        /\ d' = [d EXCEPT !.at = "recv", !.reopen = FALSE]
        /\ m' \in {m, mirror_log_to_db(m)}
     \/ ~d.stop /\ ~d.reopen /\ d' = [d EXCEPT !.at = "recv"] /\ UNCHANGED m
  /\ UNCHANGED <<glb, snd, path, sock, rows, plan>>

(* A claim that is too large is not taken; that of a record below the      *)
(* level is, before the record is filtered.  The counters of the records   *)
(* are kept as "there is news for the summary".                            *)
Claimed(x, r) == IF r.dropped > ClaimMax THEN [x EXCEPT !.lost = @ + r.dropped]
                                         ELSE [x EXCEPT !.dropped = @ + r.dropped]

(* One datagram; a log file that cannot be written ends the run. *)
serve_one(at, fails) ==
  LET r == Head(sock)
      x == [Claimed(d, r) EXCEPT !.news = TRUE, !.served = IF d.at = "drain" THEN @ + 1 ELSE @]
  IN /\ sock # <<>> /\ sock' = Tail(sock)
     /\ \/ r.level < d.level /\ d' = [x EXCEPT !.at = at] /\ UNCHANGED <<m, plan>>
        \/ /\ r.level >= d.level
           /\ d' = [x EXCEPT !.at = at]
           /\ m' = mirror_log_to_db(m) /\ UNCHANGED plan
        \/ /\ r.level >= d.level /\ Spend("faults")
           /\ d' = [x EXCEPT !.at = fails, !.rc = -1] /\ UNCHANGED m

(* Nothing comes for a second, or a signal does. *)
Tick == d' = [d EXCEPT !.at = "sum"] /\ sock = <<>> /\ UNCHANGED <<sock, m, plan>>

Recv ==
  /\ d.at = "recv"
  /\ Tick \/ serve_one("sum", "banner")
  /\ UNCHANGED <<glb, snd, path, rows>>

(* The window may be over: if anything was counted in it, a line says so,  *)
(* and a log file that cannot take it ends the run.                        *)
summarise ==
  /\ d.at = "sum"
  /\ \/ d' = [d EXCEPT !.at = "top"] /\ UNCHANGED <<m, plan>>
     \/ /\ d.news \/ d.window # db_snapshot(m)
        /\ Spend("summaries")
        /\ d' = [d EXCEPT !.at = "top", !.news = FALSE, !.window = db_snapshot(m)]
        /\ m' = mirror_log_to_db(m)
     \/ /\ d.news \/ d.window # db_snapshot(m)
        /\ Spend("faults")
        /\ d' = [d EXCEPT !.at = "banner", !.rc = -1] /\ UNCHANGED m
  /\ UNCHANGED <<glb, snd, path, sock, rows>>

(* What is queued when the daemon stops is served, up to a bound. *)
Drain ==
  /\ d.at = "drain"
  /\ \/ d.served < DrainMax /\ serve_one("drain", "banner")
     \/ /\ sock = <<>> \/ d.served = DrainMax
        /\ d' = [d EXCEPT !.at = "banner"] /\ UNCHANGED <<sock, m, plan>>
  /\ UNCHANGED <<glb, snd, path, rows>>

(* The last line; then db_stop asks the worker to finish and waits for it. *)
db_stop ==
  /\ \/ /\ d.at = "banner"
        /\ d' = [d EXCEPT !.at = "join"]
        /\ m' = [mirror_log_to_db(m) EXCEPT !.stopping = TRUE]
     \/ /\ d.at = "join" /\ m.worker \in {"none", "done"}
        /\ d' = [d EXCEPT !.at = "close"]
        /\ m' = [m EXCEPT !.child = FALSE, !.q = <<>>, !.dropped = @ + Len(m.q)]
  /\ UNCHANGED <<glb, snd, path, sock, rows, plan>>

LogdEnded == [d EXCEPT !.at = "down", !.stop = FALSE, !.reopen = FALSE, !.news = FALSE, !.window = 0,
                   !.served = 0, !.rc = 0]

Claims(q) == FoldSet(LAMBDA i, sum : q[i].dropped + sum, 0, DOMAIN q)

(* The socket is closed with what it holds, then its file removed. *)
Close ==
  /\ \/ /\ d.at = "close" /\ sock' = <<>> /\ UNCHANGED path
        /\ d' = [d EXCEPT !.at = "exit", !.lost = @ + Claims(sock)]
     \/ d.at = "exit" /\ path' = 0 /\ d' = LogdEnded /\ UNCHANGED sock
  /\ UNCHANGED <<glb, snd, m, rows, plan>>

Logd == StartLogd \/ Top \/ Recv \/ summarise \/ Drain \/ db_stop \/ Close

(* SIGTERM, SIGHUP (which reads the configuration: another level), and     *)
(* SIGKILL; the mirror's child reads the end of its input and ends too.    *)
on_terminate ==
  /\ Up /\ ~d.stop /\ Spend("terms")
  /\ d' = [d EXCEPT !.stop = TRUE]
  /\ UNCHANGED <<glb, snd, path, sock, m, rows>>

on_hangup ==
  /\ Up /\ Spend("hups")
  /\ \E level \in {0, 1} : d' = [d EXCEPT !.reopen = TRUE, !.level = level]
  /\ UNCHANGED <<glb, snd, path, sock, m, rows>>

KillLogd ==
  /\ Up /\ Spend("faults")
  /\ d' = [LogdEnded EXCEPT !.lost = @ + Claims(sock)]
  /\ sock' = <<>> /\ m' = NoMirror
  /\ rows' \in {rows, IF m.busy # 0 /\ m.child THEN rows \cup {m.busy} ELSE rows}
  /\ UNCHANGED <<glb, snd, path>>

LogInit ==
  /\ plan \in LogPlans
  /\ glb = [lock |-> FALSE, fd |-> 0, unreported |-> 0, dropped |-> 0]
  /\ snd = [t \in Threads |-> [pc |-> "idle", left |-> plan.sends[t], try |-> 0,
                               msg |-> NoMsg]]
  /\ path = 0 /\ sock = <<>> /\ rows = {} /\ m = NoMirror
  /\ d = [at |-> "down", gen |-> 0, stop |-> FALSE, reopen |-> FALSE, level |-> plan.level,
          dropped |-> 0, lost |-> 0, news |-> FALSE, window |-> 0, served |-> 0,
          rc |-> 0]

LogNext == Logd \/ Worker \/ on_terminate \/ on_hangup \/ KillLogd \/ \E t \in Threads : Sender(t)

(* The daemon and its worker run on, whatever senders do. *)
LogFairness ==
  /\ WF_logVars(Top \/ Recv \/ summarise \/ Drain \/ db_stop \/ Close)
  /\ WF_logVars(Worker)

LogSpec == LogInit /\ [][LogNext]_logVars /\ LogFairness

-----------------------------------------------------------------------------
(* Properties. *)

Settling == FoldSet(LAMBDA t, sum : snd[t].msg.dropped + sum, 0, {t \in Threads : snd[t].pc = "settle"})

Counting == Cardinality({t \in Threads : snd[t].pc = "report"})

(* No dropped record is forgotten or reported twice: every drop a process  *)
(* counts is still to be reported, or on its way in a record, or counted   *)
(* by the daemon, or went with a socket that was closed or a claim that    *)
(* was refused, although threads drop while another reports.               *)
DropsAccounted ==
  glb.dropped + Settling
    = Counting + glb.unreported + Claims(sock) + d.dropped + d.lost

(* Every statement given to the mirror is in the table, or counted as an   *)
(* error or as dropped, or still queued or being run, through restarts of  *)
(* the child, a full queue, giving up and shutting down.                   *)
MirrorAccounted ==
  /\ m.ok \subseteq rows /\ Len(m.q) <= QueueCap
  /\ m.on => m.next - m.first = Cardinality(m.ok) + m.errors + m.dropped + Len(m.q)
                                  + (IF m.worker = "run" THEN 1 ELSE 0)

(* A daemon told to stop, or whose log file fails, ends: neither its queue *)
(* nor its worker nor a child that does not answer keeps it.               *)
LogdStops == (Up /\ (d.stop \/ d.rc = -1)) ~> d.at = "down"
=============================================================================
