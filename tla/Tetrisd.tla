------------------------------ MODULE Tetrisd ------------------------------
(***************************************************************************)
(* tetrisd as a process, from its start by tetrisctl and dspawn2 to its    *)
(* end: the control socket's file and the pid file, the three threads and  *)
(* the pipes between them, the TCP port and its change on SIGHUP, and the  *)
(* session processes it forks.  What the admin thread does with a session  *)
(* that it serves is module GameServer; here a session is a process that   *)
(* holds descriptors.  Nothing is opened close-on-exec: a session keeps    *)
(* the control socket, the admin's end of every older session's socketpair *)
(* and a listening socket still on its way to the listener.                *)
(***************************************************************************)
EXTENDS Integers, Sequences, FiniteSets

CONSTANTS
  Daemons,       \* bound: daemon processes ever spawned, 1..n; also their pids
  Sessions,      \* bound: session processes ever forked, 1..n
  Ports,         \* values of listen_port
  MAX_SESSIONS,  \* sessions in the poll set
  Operators,     \* tetrisctl programs
  Plans          \* bound: the commands each operator will give, the clients that will
                 \* come, and the faults: signals, failures, stuck sessions, lost patience

ASSUME TetrisdAssumption ==
  /\ MAX_SESSIONS \in Nat
  /\ \E n \in 1..9 : Daemons = 1..n

VARIABLES
  daemon,   \* the tetrisd processes
  sess,     \* the session processes
  sock,     \* the control socket's file: the daemon that bound it, or Unset
  pidfile,  \* var/run/tetrisd.pid
  rc,       \* listen_port in .tetrishrc
  op,       \* the tetrisctl programs
  plan,     \* what is still to come of commands, clients
  faults    \* and faults

daemonVars == <<daemon, sess, sock, pidfile, rc, op, plan, faults>>

Unset == 0
NoDaemon ==
  [at |-> "none", g_port |-> Unset, g_active_port |-> Unset, lfd |-> Unset, relisten |-> <<>>,
   reload |-> FALSE, quit |-> FALSE, admin_quit |-> FALSE, stopping |-> FALSE,
   listener |-> "new", ctl |-> "new", admin |-> "new",
   notify |-> <<>>, table |-> {}, backlog |-> <<>>, ctl_notify |-> <<>>]
Ended(how) == [NoDaemon EXCEPT !.at = how]
NoSession == [at |-> "none", by |-> Unset, refused |-> FALSE, inherits |-> {}, ctl |-> FALSE,
              ports |-> {}]
GoneSession == [NoSession EXCEPT !.at = "gone"]
Idle == [step |-> "idle", cmd |-> "none", confirm |-> FALSE, result |-> "none"]

DaemonInit ==
  /\ daemon = [p \in Daemons |-> NoDaemon]
  /\ sess = [s \in Sessions |-> NoSession]
  /\ sock = Unset /\ pidfile = Unset
  /\ rc \in Ports
  /\ op = [o \in Operators |-> Idle]
  /\ plan \in Plans /\ faults = plan.faults

Alive(p) == daemon[p].at \notin {"none", "exited", "returned", "killed"}
Lives(s) == sess[s].at \in {"login", "up", "stuck"}
Elements(q) == {q[k] : k \in DOMAIN q}
Fault == faults > 0 /\ faults' = faults - 1

Accepts(p) == daemon[p].at = "up" /\ daemon[p].ctl = "run"

(* Somebody has p's control socket listening. *)
Serves(p) ==
  Accepts(p) \/ \E s \in Sessions : Lives(s) /\ sess[s].by = p /\ sess[s].ctl

InUse(port) ==
  \/ \E p \in Daemons : Alive(p) /\ port \in {daemon[p].lfd} \cup Elements(daemon[p].relisten)
  \/ \E s \in Sessions : Lives(s) /\ port \in sess[s].ports

-----------------------------------------------------------------------------
(* tetrisctl *)

(* ctl_start asks before it spawns, then until the daemon answers; the     *)
(* other commands are one request.                                         *)
Verb(cmd) == CASE cmd = "start" -> "STATUS" [] cmd = "stop" -> "SHUTDOWN"
               [] cmd = "reload" -> "RELOAD" [] cmd = "kick" -> "KICK" [] OTHER -> "STATUS"

Finished(o, result) == [op[o] EXCEPT !.step = "idle", !.confirm = FALSE, !.result = result]

Answered(o, answer) ==
  CASE op[o].cmd # "start" -> Finished(o, answer)
    [] op[o].cmd = "start" /\ answer = "200" -> Finished(o, "up")
    [] OTHER -> [op[o] EXCEPT !.step = IF op[o].confirm THEN "ask" ELSE "spawn"]

Command(o) ==
  /\ op[o].step = "idle" /\ plan.cmds[o] # <<>>
  /\ plan' = [plan EXCEPT !.cmds[o] = Tail(@)]
  /\ IF Head(plan.cmds[o]) = "edit"
     THEN rc' \in Ports \ {rc} /\ UNCHANGED op
     ELSE /\ op' = [op EXCEPT ![o] = [Idle EXCEPT !.step = "ask", !.cmd = Head(plan.cmds[o])]]
          /\ UNCHANGED rc
  /\ UNCHANGED <<daemon, sess, sock, pidfile, faults>>

(* ctl_request connects and writes its frame: the connection waits to be   *)
(* accepted.  Where only sessions have the socket nobody ever does.        *)
ctl_request(o) ==
  /\ op[o].step = "ask"
  /\ IF sock # Unset /\ Accepts(sock)
     THEN /\ op' = [op EXCEPT ![o].step = "wait"]
          /\ daemon' = [daemon EXCEPT ![sock].backlog =
                          Append(@, [verb |-> Verb(op[o].cmd), from |-> o])]
     ELSE /\ op' = [op EXCEPT ![o] = Answered(o, IF sock # Unset /\ Serves(sock)
                                                 THEN "TIMEOUT" ELSE "CONNECT")]
          /\ UNCHANGED daemon
  /\ UNCHANGED <<sess, sock, pidfile, rc, plan, faults>>

Waits(o, p) == \E e \in Elements(daemon[p].backlog \o daemon[p].ctl_notify) : e.from = o

(* Requests whose sender no longer listens; of these STATUS does nothing. *)
Withdraw(q, o) ==
  LET kept == SelectSeq(q, LAMBDA e : e.from # o \/ e.verb # "STATUS")
  IN  [k \in DOMAIN kept |-> IF kept[k].from = o THEN [kept[k] EXCEPT !.from = "nobody"]
                             ELSE kept[k]]

(* The answer is late; the request stays where it is. *)
TimesOut(o) ==
  /\ op[o].step = "wait" /\ Fault
  /\ daemon' = [p \in Daemons |->
                  [daemon[p] EXCEPT !.backlog = Withdraw(@, o), !.ctl_notify = Withdraw(@, o)]]
  /\ op' = [op EXCEPT ![o] = Answered(o, "TIMEOUT")]
  /\ UNCHANGED <<sess, sock, pidfile, rc, plan>>

(* Every holder of the connection has closed it. *)
Broken(o) ==
  /\ op[o].step = "wait" /\ \A p \in Daemons : ~Waits(o, p)
  /\ op' = [op EXCEPT ![o] = Answered(o, "IO")]
  /\ UNCHANGED <<daemon, sess, sock, pidfile, rc, plan, faults>>

(* The confirm loop gives up.  dspawn2 is done with the pid file long      *)
(* before.                                                                 *)
GivesUp(o) ==
  /\ op[o].step = "ask" /\ op[o].confirm /\ \A p \in Daemons : daemon[p].at # "fork"
  /\ op' = [op EXCEPT ![o] = Finished(o, "failed")]
  /\ UNCHANGED <<daemon, sess, sock, pidfile, rc, plan, faults>>

-----------------------------------------------------------------------------
(* dspawn2 *)

(* As if nobody asked whether the process is there. *)
already_running_stale == FALSE

already_running == pidfile # Unset /\ Alive(pidfile)

(* It refuses, or forks the daemon; tetrisctl goes on to its confirm loop  *)
(* in both cases.                                                          *)
spawn_dspawn2(o) ==
  /\ op[o].step = "spawn"
  /\ op' = [op EXCEPT ![o].step = "ask", ![o].confirm = TRUE]
  /\ \/ already_running /\ UNCHANGED daemon
     \/ /\ ~already_running
        /\ \E p \in Daemons : /\ daemon[p].at = "none" /\ \A q \in 1..(p - 1) : daemon[q].at # "none"
                              /\ daemon' = [daemon EXCEPT ![p].at = "fork"]
  /\ UNCHANGED <<sess, sock, pidfile, rc, plan, faults>>

(* The daemon process leaves its pid behind and becomes tetrisd, which     *)
(* reads its configuration; when there is no tetrisd to execute the pid    *)
(* file is taken away again.                                               *)
RecordPid(p) ==
  /\ daemon[p].at = "fork"
  /\ \/ /\ pidfile' = p /\ UNCHANGED faults
        /\ daemon' = [daemon EXCEPT ![p].at = "exec", ![p].g_port = rc]
     \/ /\ pidfile' = Unset /\ Fault
        /\ daemon' = [daemon EXCEPT ![p] = Ended("exited")]
  /\ UNCHANGED <<sess, sock, rc, op, plan>>

-----------------------------------------------------------------------------
(* main, and ctl_open: look at the file and ask whoever bound it, then     *)
(* clear it and bind, then listen.                                         *)

ctl_open_probe(p) ==
  /\ daemon[p].at = "exec"
  /\ daemon' = [daemon EXCEPT ![p] = IF sock = Unset THEN [@ EXCEPT !.at = "clear"]
                                     ELSE IF Serves(sock) THEN Ended("exited")
                                     ELSE [@ EXCEPT !.at = "stale"]]
  /\ UNCHANGED <<sess, sock, pidfile, rc, op, plan, faults>>

ctl_open_bind(p) ==
  /\ daemon[p].at \in {"clear", "stale"}
  /\ IF daemon[p].at = "clear" /\ sock # Unset
     THEN daemon' = [daemon EXCEPT ![p] = Ended("exited")] /\ UNCHANGED sock
     ELSE daemon' = [daemon EXCEPT ![p].at = "bound"] /\ sock' = p
  /\ UNCHANGED <<sess, pidfile, rc, op, plan, faults>>

(* The socket listens and the threads are created; main can still return   *)
(* on the way, and leaves the file.                                        *)
ctl_open_listen(p) ==
  /\ daemon[p].at = "bound"
  /\ \/ daemon' = [daemon EXCEPT ![p].at = "up", ![p].ctl = "run"] /\ UNCHANGED faults
     \/ daemon' = [daemon EXCEPT ![p] = Ended("exited")] /\ Fault
  /\ UNCHANGED <<sess, sock, pidfile, rc, op, plan>>

(* main joins the listener and the control thread, then tells the admin    *)
(* thread, joins it and returns.                                           *)
JoinAccepting(p) ==
  /\ daemon[p].at = "up" /\ ~daemon[p].admin_quit
  /\ daemon[p].listener = "done" /\ daemon[p].ctl = "done"
  /\ daemon' = [daemon EXCEPT ![p].admin_quit = TRUE]
  /\ UNCHANGED <<sess, sock, pidfile, rc, op, plan, faults>>

Return(p) ==
  /\ daemon[p].at = "up" /\ daemon[p].admin = "done"
  /\ daemon' = [daemon EXCEPT ![p] = Ended("returned")]
  /\ UNCHANGED <<sess, sock, pidfile, rc, op, plan, faults>>

(* SIGTERM, SIGINT; SIGHUP; SIGKILL. *)
on_terminate(p) ==
  /\ daemon[p].at = "up" /\ ~daemon[p].quit /\ Fault
  /\ daemon' = [daemon EXCEPT ![p].quit = TRUE]
  /\ UNCHANGED <<sess, sock, pidfile, rc, op, plan>>

(* The handler wakes the admin thread and reads the configuration itself. *)
Reloading(d) == [d EXCEPT !.reload = TRUE, !.g_port = rc]

on_reload(p) ==
  /\ daemon[p].at = "up" /\ ~daemon[p].reload /\ Fault
  /\ daemon' = [daemon EXCEPT ![p] = Reloading(@)]
  /\ UNCHANGED <<sess, sock, pidfile, rc, op, plan>>

Kill(p) ==
  /\ daemon[p].at = "up" /\ Fault
  /\ daemon' = [daemon EXCEPT ![p] = Ended("killed")]
  /\ UNCHANGED <<sess, sock, pidfile, rc, op, plan>>

-----------------------------------------------------------------------------
(* The listener thread. *)

Listens(p) == daemon[p].at = "up" /\ daemon[p].listener = "run"

(* It binds its port, or stops the daemon. *)
make_listen_socket(p) ==
  /\ daemon[p].at = "up" /\ daemon[p].listener = "new"
  /\ daemon' = [daemon EXCEPT ![p] =
                  IF InUse(@.g_port) THEN [@ EXCEPT !.listener = "done", !.quit = TRUE]
                  ELSE [@ EXCEPT !.listener = "run", !.lfd = daemon[p].g_port]]
  /\ UNCHANGED <<sess, sock, pidfile, rc, op, plan, faults>>

(* As if the child kept the admin's end of its own socketpair. *)
Forked_whole(p, s) ==
  [NoSession EXCEPT !.at = "login", !.by = p, !.ctl = daemon[p].ctl = "run",
                    !.inherits = Elements(daemon[p].notify) \cup daemon[p].table \cup {s},
                    !.ports = Elements(daemon[p].relisten)]

(* The child closes the listening socket and the admin's end of its own    *)
(* socketpair, and keeps every other descriptor of the daemon.             *)
Forked(p, s) ==
  [NoSession EXCEPT !.at = "login", !.by = p, !.ctl = daemon[p].ctl = "run",
                    !.inherits = Elements(daemon[p].notify) \cup daemon[p].table,
                    !.ports = Elements(daemon[p].relisten)]

(* A client: accept, socketpair, fork, exec; then the admin thread is told.  *)
(* When the pipe does not take it, its end is closed: the session runs, and *)
(* nobody will ever reap it.                                               *)
Accept(p, s) ==
  /\ Listens(p) /\ ~daemon[p].quit
  /\ sess[s].at = "none" /\ \A t \in 1..(s - 1) : sess[t].at # "none"
  /\ \/ /\ daemon' = [daemon EXCEPT ![p].notify = Append(@, s)]
        /\ sess' = [sess EXCEPT ![s] = Forked(p, s)] /\ UNCHANGED faults
     \/ /\ sess' = [sess EXCEPT ![s] = [Forked(p, s) EXCEPT !.refused = TRUE]]
        /\ Fault /\ UNCHANGED daemon
  /\ plan.guests > 0 /\ plan' = [plan EXCEPT !.guests = @ - 1]
  /\ UNCHANGED <<sock, pidfile, rc, op>>

(* The listener takes the new socket, and only it closes the old one. *)
Relisten(p) ==
  /\ Listens(p) /\ daemon[p].relisten # <<>>
  /\ daemon' = [daemon EXCEPT ![p].lfd = Head(daemon[p].relisten), ![p].relisten = Tail(@)]
  /\ UNCHANGED <<sess, sock, pidfile, rc, op, plan, faults>>

(* The quit pipe, or an error that stops the daemon. *)
ListenerEnds(p) ==
  /\ Listens(p)
  /\ \/ daemon[p].quit /\ UNCHANGED faults
     \/ ~daemon[p].quit /\ Fault
  /\ daemon' = [daemon EXCEPT ![p].listener = "done", ![p].lfd = Unset, ![p].quit = TRUE]
  /\ UNCHANGED <<sess, sock, pidfile, rc, op, plan>>

-----------------------------------------------------------------------------
(* The control thread. *)

handle_conn(p) ==
  /\ Accepts(p) /\ ~daemon[p].quit
  /\ daemon[p].backlog # <<>>
  /\ daemon' = [daemon EXCEPT ![p].backlog = Tail(@),
                              ![p].ctl_notify = Append(@, Head(daemon[p].backlog))]
  /\ UNCHANGED <<sess, sock, pidfile, rc, op, plan, faults>>

(* As if the thread ended alone. *)
CtlCloses_alone(p) ==
  /\ Accepts(p)
  /\ \/ daemon[p].quit /\ UNCHANGED faults
     \/ ~daemon[p].quit /\ Fault
  /\ daemon' = [daemon EXCEPT ![p].ctl = "closed", ![p].backlog = <<>>]
  /\ UNCHANGED <<sess, sock, pidfile, rc, op, plan>>

(* The quit pipe, or an error that stops the daemon: the socket is closed, *)
(* with what waits on it, then its file goes.                              *)
CtlCloses(p) ==
  /\ Accepts(p)
  /\ \/ daemon[p].quit /\ UNCHANGED faults
     \/ ~daemon[p].quit /\ Fault
  /\ daemon' = [daemon EXCEPT ![p].ctl = "closed", ![p].quit = TRUE, ![p].backlog = <<>>]
  /\ UNCHANGED <<sess, sock, pidfile, rc, op, plan>>

CtlUnlinks(p) ==
  /\ daemon[p].at = "up" /\ daemon[p].ctl = "closed"
  /\ daemon' = [daemon EXCEPT ![p].ctl = "done"]
  /\ sock' = Unset
  /\ UNCHANGED <<sess, pidfile, rc, op, plan, faults>>

-----------------------------------------------------------------------------
(* The admin thread. *)

Admin(p) == daemon[p].at = "up" /\ daemon[p].admin = "run" /\ ~daemon[p].stopping

AdminStarts(p) ==
  /\ daemon[p].at = "up" /\ daemon[p].admin = "new"
  /\ daemon' = [daemon EXCEPT ![p].admin = "run", ![p].g_active_port = daemon[p].g_port]
  /\ UNCHANGED <<sess, sock, pidfile, rc, op, plan, faults>>

(* There is room in the poll set for the k-th registration. *)
Fits(p, k) == k <= MAX_SESSIONS - Cardinality(daemon[p].table)

(* Registrations, while there is room; the admin's end of the others is    *)
(* closed.                                                                 *)
Register(p) ==
  LET q == daemon[p].notify
      taken == {q[k] : k \in {j \in DOMAIN q : Fits(p, j)}}
  IN  /\ Admin(p) /\ q # <<>>
      /\ daemon' = [daemon EXCEPT ![p].notify = <<>>, ![p].table = @ \cup taken]
      /\ sess' = [s \in Sessions |->
                    [sess[s] EXCEPT !.refused = @ \/ s \in Elements(q) \ taken]]
      /\ UNCHANGED <<sock, pidfile, rc, op, plan, faults>>

Reply(e, status) == op' = [o \in Operators |-> IF o = e.from THEN Answered(o, status) ELSE op[o]]

(* What is left to do once the operator has the answer: a player found is  *)
(* told, ended and reaped, and the room table forgets it; a daemon shut    *)
(* down has its threads woken, in a step of its own.                       *)
AfterKick(p, d) ==
  \E s \in d.table : /\ daemon' = [daemon EXCEPT ![p] = [d EXCEPT !.table = @ \ {s}]]
                     /\ sess' = [sess EXCEPT ![s] = GoneSession]
AfterShutdown(p, d) == daemon' = [daemon EXCEPT ![p] = [d EXCEPT !.stopping = TRUE]] /\ UNCHANGED sess

(* STATUS stands for the verbs that only read. *)
handle_ctl(p) ==
  LET e == Head(daemon[p].ctl_notify)
      d == [daemon[p] EXCEPT !.ctl_notify = Tail(@)]
  IN  /\ Admin(p) /\ daemon[p].ctl_notify # <<>>
      /\ \/ /\ e.verb = "STATUS" /\ Reply(e, "200")
            /\ daemon' = [daemon EXCEPT ![p] = d] /\ UNCHANGED sess
         \/ e.verb = "SHUTDOWN" /\ Reply(e, "200") /\ AfterShutdown(p, d)
         \/ /\ e.verb = "RELOAD" /\ Reply(e, "200")
            /\ daemon' = [daemon EXCEPT ![p] = Reloading(d)] /\ UNCHANGED sess
         \/ /\ e.verb = "KICK" /\ Reply(e, "404")
            /\ daemon' = [daemon EXCEPT ![p] = d] /\ UNCHANGED sess
         \/ e.verb = "KICK" /\ Reply(e, "200") /\ AfterKick(p, d)
      /\ UNCHANGED <<sock, pidfile, rc, plan, faults>>

(* The operator has the answer to SHUTDOWN before anything comes down. *)
request_stop(p) ==
  /\ daemon[p].at = "up" /\ daemon[p].stopping
  /\ daemon' = [daemon EXCEPT ![p].stopping = FALSE, ![p].quit = TRUE]
  /\ UNCHANGED <<sess, sock, pidfile, rc, op, plan, faults>>

(* A port that cannot be bound leaves everything as it is. *)
reload_config(p) ==
  /\ Admin(p) /\ daemon[p].reload
  /\ daemon' = [daemon EXCEPT ![p] =
       IF rc = @.g_active_port \/ InUse(rc) THEN [@ EXCEPT !.reload = FALSE]
       ELSE [@ EXCEPT !.reload = FALSE, !.g_active_port = rc, !.relisten = Append(@, rc)]]
  /\ UNCHANGED <<sess, sock, pidfile, rc, op, plan, faults>>

(* A session has hung up. *)
drop_session(p, s) ==
  /\ Admin(p) /\ s \in daemon[p].table /\ ~Lives(s)
  /\ daemon' = [daemon EXCEPT ![p].table = @ \ {s}]
  /\ UNCHANGED <<sess, sock, pidfile, rc, op, plan, faults>>

Ends(ss) == [s \in Sessions |-> IF s \in ss THEN GoneSession ELSE sess[s]]

(* As if the sessions never registered were forgotten. *)
admin_teardown_registered(p) == sess' = Ends(daemon[p].table)

(* Every session is ended and reaped, registered or not, by force if need  *)
(* be; the operators still waiting read the end of their connection.       *)
admin_teardown(p) == sess' = Ends(Elements(daemon[p].notify) \cup daemon[p].table)

AdminEnds(p) ==
  /\ Admin(p) /\ daemon[p].admin_quit
  /\ admin_teardown(p)
  /\ daemon' = [daemon EXCEPT ![p].admin = "done", ![p].notify = <<>>, ![p].table = {},
                              ![p].ctl_notify = <<>>]
  /\ UNCHANGED <<sock, pidfile, rc, op, plan, faults>>

-----------------------------------------------------------------------------
(* The sessions. *)

(* The admin's end of s's socketpair is open somewhere. *)
Connected(s) ==
  \/ \E p \in Daemons : Alive(p) /\ s \in Elements(daemon[p].notify) \cup daemon[p].table
  \/ \E t \in Sessions : Lives(t) /\ s \in sess[t].inherits

(* session_accept and auth_retry_handler read from the client alone, for   *)
(* as long as it takes; only then does the session look at its admin end.  *)
SignIn(s) ==
  /\ sess[s].at = "login"
  /\ sess' = [sess EXCEPT ![s].at = "up"]
  /\ UNCHANGED <<daemon, sock, pidfile, rc, op, plan, faults>>

(* The client leaves, or is turned away at the gate. *)
Leave(s) ==
  /\ sess[s].at \in {"login", "up"}
  /\ sess' = [sess EXCEPT ![s] = GoneSession]
  /\ UNCHANGED <<daemon, sock, pidfile, rc, op, plan, faults>>

(* The loop finds the admin's end closed. *)
HangUp(s) ==
  /\ sess[s].at = "up" /\ ~Connected(s)
  /\ sess' = [sess EXCEPT ![s] = GoneSession]
  /\ UNCHANGED <<daemon, sock, pidfile, rc, op, plan, faults>>

(* It blocks, writing to a client that no longer reads. *)
Stick(s) ==
  /\ sess[s].at = "up" /\ Fault
  /\ sess' = [sess EXCEPT ![s].at = "stuck"]
  /\ UNCHANGED <<daemon, sock, pidfile, rc, op, plan>>

-----------------------------------------------------------------------------
CtlStep(o) == \/ Command(o) \/ ctl_request(o) \/ TimesOut(o) \/ Broken(o) \/ GivesUp(o)
              \/ spawn_dspawn2(o)

Signal(p) == on_terminate(p) \/ on_reload(p) \/ Kill(p)

DaemonStep(p) ==
  \/ RecordPid(p) \/ ctl_open_probe(p) \/ ctl_open_bind(p) \/ ctl_open_listen(p)
  \/ JoinAccepting(p) \/ Return(p)
  \/ make_listen_socket(p) \/ Relisten(p) \/ ListenerEnds(p)
  \/ handle_conn(p) \/ CtlCloses(p) \/ CtlUnlinks(p)
  \/ AdminStarts(p) \/ Register(p) \/ handle_ctl(p) \/ request_stop(p) \/ reload_config(p)
  \/ AdminEnds(p) \/ \E s \in Sessions : drop_session(p, s)

DaemonNext ==
  \/ \E o \in Operators : CtlStep(o)
  \/ \E p \in Daemons : DaemonStep(p) \/ Signal(p) \/ \E s \in Sessions : Accept(p, s)
  \/ \E s \in Sessions : SignIn(s) \/ Leave(s) \/ HangUp(s) \/ Stick(s)

DaemonSpec == DaemonInit /\ [][DaemonNext]_daemonVars

(* Every thread runs when it can, a quit pipe included, and a session in   *)
(* its loop meets its end of file.  Nothing makes a client sign in.        *)
Threads(p) == \/ JoinAccepting(p) \/ Return(p) \/ make_listen_socket(p)
              \/ (daemon[p].quit /\ (ListenerEnds(p) \/ CtlCloses(p)))
              \/ CtlUnlinks(p) \/ AdminStarts(p) \/ request_stop(p) \/ AdminEnds(p)
DaemonFairness ==
  /\ \A p \in Daemons : WF_daemonVars(Threads(p)) /\ WF_daemonVars(handle_ctl(p))
  /\ \A s \in Sessions : WF_daemonVars(HangUp(s))

-----------------------------------------------------------------------------
(* Properties. *)

(* A running tetrisd can be reached: the control socket's file is its own  *)
(* as long as its control thread accepts, whatever one operator starts,    *)
(* stops or kills around it (otherwise "no tetrisctl can ever reach it     *)
(* again and the only way to stop it is kill").  With two operators who    *)
(* start at the same moment it does not hold: a socket that is bound and   *)
(* not yet listening refuses the probe as a stale one does.                *)
Reachable == \A p \in Daemons : Accepts(p) => sock = p

(* The admin thread's idea of the port is the one the listener has, once   *)
(* no reload and no socket is on its way ("the port actually bound right   *)
(* now").  It does not hold: the handler of SIGHUP rewrites g_port, which    *)
(* listener and admin thread each read when they start, so that a reload   *)
(* between the two leaves them with different ports, and the next reload   *)
(* finds nothing to do, or its own port taken.                             *)
PortsAgree ==
  \A p \in Daemons :
    /\ Listens(p) /\ daemon[p].admin = "run" /\ ~daemon[p].reload /\ daemon[p].relisten = <<>>
    => daemon[p].lfd = daemon[p].g_active_port

(* A tetrisd that returned from main left nothing: not its socket's file,  *)
(* and of its sessions only those it had turned away, for want of room or  *)
(* because the admin thread could not be told of them.                     *)
CleanExit ==
  \A p \in Daemons : daemon[p].at = "returned" =>
    sock # p /\ \A s \in Sessions : Lives(s) /\ sess[s].by = p => sess[s].refused

(* A tetrisd that loses its listener or its control socket, or is told to  *)
(* stop, stops: it does not go on for ever without one of its doors ("Take *)
(* the daemon down instead of failing open"), and a door is not reopened.  *)
Closing(p) ==
  Alive(p) /\ (daemon[p].quit \/ daemon[p].listener = "done" \/ daemon[p].ctl = "done")
Stops == \A p \in Daemons : []<>~Closing(p)

(* A session outlives its daemon for ever only on account of one that is   *)
(* stuck, or whose client is still at the login screen: each younger       *)
(* session holds the older ones' sockets, the youngest sees its end of     *)
(* file and the others follow, and with them goes the killed tetrisd's     *)
(* control socket.  A client that never signs in keeps its session, and    *)
(* that socket, for as long as it likes.                                   *)
SomeHeld == \E s \in Sessions : sess[s].at \in {"stuck", "login"}
Orphan(s) == Lives(s) /\ ~Alive(sess[s].by)
OrphansEnd == \A s \in Sessions : []<>(~Orphan(s) \/ SomeHeld)
=============================================================================
