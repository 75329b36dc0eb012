------------------------------ MODULE Ballotd ------------------------------
(***************************************************************************)
(* ballotd around the brain: the listener forks a worker per connection,   *)
(* the control thread takes the operator's requests, the admin thread owns *)
(* the brain and answers both, main joins them in that order; and the      *)
(* programs at the other ends, ballotu with its session and ballotctl.     *)
(* Nothing is opened close-on-exec: a worker keeps the admin's end of      *)
(* every older worker's socketpair, and the control socket.                *)
(***************************************************************************)
EXTENDS BallotBox, Sequences

CONSTANTS
  Clients,      \* ballotu programs
  Account,      \* the name each of them signs in with
  Workers,      \* bound: worker processes ever forked
  MAX_WORKERS,  \* registered workers
  Starts        \* bound: what is in the store, what the operator will ask for and
                \* how many ballots each client will send

ASSUME BallotdAssumption ==
  /\ Account \in [Clients -> Accounts] /\ MAX_WORKERS \in Nat
  /\ Workers \subseteq Nat \ {0}

(* The store the daemon starts from is one an earlier run has left. *)
ASSUME StartsAssumption == \A s \in Starts : Sound(s.store)

VARIABLES
  main,     \* "up", "returned" or "killed"
  thread,   \* listener, ctl and admin: "run" or "done"
  quit,     \* g_quit and g_admin_quit have been written to
  notify,   \* g_notify: workers not yet registered
  ctlq,     \* g_ctl_notify: operator's requests not yet answered
  table,    \* g_fds: registered workers
  worker,   \* the worker processes
  cli,      \* the clients
  ctl,      \* the operator's connection
  sockFile, \* the control socket's file is there
  shown,    \* receipts the voters have been shown
  plan,     \* requests the operator has still to make
  serving   \* whose request the admin thread is working on

procVars == <<main, thread, quit, notify, ctlq, table, worker, cli, ctl, sockFile, shown,
              plan, serving>>
ballotVars == <<brainVars, procVars>>

NoClient == "nobody"
NoWorker == 0
Operator == -1
FreshWorker == [at |-> "none", client |-> NoClient, inherits |-> {}, ours |-> TRUE, refused |-> FALSE,
                asked |-> NoRequest, reply |-> NoAnswer]
Gone == [FreshWorker EXCEPT !.at = "gone"]
FreshSession == [joined |-> FALSE, id |-> 1, has |-> FALSE, version |-> 0]
FreshClient == [at |-> "connect", worker |-> NoWorker, session |-> FreshSession,
                sent |-> NoRequest, submits |-> 0]
NoCtl == [at |-> "idle", heirs |-> {}]

Init ==
  /\ \E s \in Starts : /\ BrainInit(s.store) /\ plan = s.plan
                      /\ cli = [c \in Clients |-> [FreshClient EXCEPT !.submits = s.submits]]
  /\ main = "up" /\ thread = [t \in {"listener", "ctl", "admin"} |-> "run"]
  /\ quit = [all |-> FALSE, admin |-> FALSE]
  /\ notify = <<>> /\ ctlq = <<>> /\ table = {}
  /\ worker = [w \in Workers |-> FreshWorker]
  /\ ctl = NoCtl /\ sockFile = TRUE
  /\ shown = {}
  /\ serving = NoWorker

Alive(w) == worker[w].at \notin {"none", "gone"}
Runs(t) == main = "up" /\ thread[t] = "run"
Queued == {notify[k] : k \in DOMAIN notify}

(* The other end of w's socketpair is still open somewhere. *)
Connected(w) ==
  (main = "up" /\ w \in Queued \cup table) \/ \E x \in Workers : Alive(x) /\ w \in worker[x].inherits

-----------------------------------------------------------------------------
(* The listener. *)

(* A client connects: accept, socketpair, fork, exec; the admin thread is  *)
(* told.                                                                   *)
Accept(c, w) ==
  /\ Runs("listener") /\ ~quit.all
  /\ cli[c].at = "connect" /\ worker[w].at = "none" /\ \A x \in 1..(w - 1) : worker[x].at # "none"
  /\ worker' = [worker EXCEPT ![w] = [FreshWorker EXCEPT !.at = "auth", !.client = c,
                                        !.inherits = Queued \cup table]]
  /\ notify' = Append(notify, w)
  /\ cli' = [cli EXCEPT ![c].at = "auth", ![c].worker = w]
  /\ ctl' = IF ctl.at = "wait" THEN [ctl EXCEPT !.heirs = @ \cup {w}] ELSE ctl
  /\ UNCHANGED <<brainVars, main, thread, quit, ctlq, table, sockFile, shown, plan,
                 serving>>

StopListener(all) ==
  /\ Runs("listener")
  /\ thread' = [thread EXCEPT !["listener"] = "done"]
  /\ quit' = [quit EXCEPT !.all = @ \/ all]
  /\ UNCHANGED <<store, txn, job, main, notify, ctlq, table, worker, cli, ctl, sockFile, shown, plan, serving>>

(* The quit pipe wins; a failed accept ends the thread alone; no socket to *)
(* listen on ends the daemon.                                              *)
ListenerQuits == quit.all /\ UNCHANGED faults /\ StopListener(FALSE)
AcceptFails == ~quit.all /\ Fault /\ StopListener(FALSE)
BindFails == (\A w \in Workers : worker[w].at = "none") /\ Fault /\ StopListener(TRUE)

-----------------------------------------------------------------------------
(* The control thread and the operator, one request per connection. *)

(* What the operator's screens ask for. *)
Ask(op, id) == [NoRequest EXCEPT !.op = op, !.id = id]
screen_create_election(id) == <<Ask("ADMIN_NEXT_ID", 0), Ask("CREATE", id)>>
transition(op, id) == <<Ask(op, id)>>
screen_view_results(id) == <<Ask("ADMIN_RESULTS", id)>>
screen_check_ballot(id, hash) == <<[Ask("ADMIN_CHECK", id) EXCEPT !.hash = hash]>>

(* One connection and one request at a time. *)
send_via_ctl == ctl.at = "idle" /\ plan # <<>> /\ plan' = Tail(plan)

AdminOps == {"CREATE", "OPEN", "CLOSE", "PUBLISH", "ADMIN_RESULTS", "ADMIN_CHECK", "ADMIN_NEXT_ID"}

(* ballotctl connects and sends; handle_conn forwards the request, and the *)
(* connection with it.                                                     *)
handle_conn ==
  /\ Runs("ctl") /\ ~quit.all
  /\ send_via_ctl /\ Head(plan).op \in AdminOps
  /\ ctlq' = Append(ctlq, Head(plan))
  /\ ctl' = [ctl EXCEPT !.at = "wait"]
  /\ UNCHANGED <<brainVars, main, thread, quit, notify, table, worker, cli, sockFile, shown,
                 serving>>

EndCtl(all) ==
  /\ Runs("ctl")
  /\ thread' = [thread EXCEPT !["ctl"] = "done"]
  /\ sockFile' = FALSE
  /\ quit' = [quit EXCEPT !.all = @ \/ all]
  /\ UNCHANGED <<store, txn, job, main, notify, ctlq, table, worker, cli, ctl, shown, plan,
                 serving>>

CtlQuits == quit.all /\ UNCHANGED faults /\ EndCtl(FALSE)
CtlFails == ~quit.all /\ Fault /\ EndCtl(TRUE)

(* ballotctl reads the end of a connection that was closed unanswered: it  *)
(* comes when no worker forked meanwhile holds the connection either.      *)
CtlDone ==
  /\ ctl.at = "closed" /\ \A w \in ctl.heirs : ~Alive(w)
  /\ ctl' = NoCtl
  /\ UNCHANGED <<brainVars, main, thread, quit, notify, ctlq, table, worker, cli, sockFile, shown,
                 plan, serving>>
-----------------------------------------------------------------------------
(* The admin thread.  Each thing a pass of its loop finds ready is a step. *)

(* New workers are registered while there is room; the others are dropped  *)
(* from the daemon's side.                                                 *)
Register ==
  LET room == MAX_WORKERS - Cardinality(table)
  IN  /\ Runs("admin") /\ serving = NoWorker /\ notify # <<>>
      /\ table' = table \cup {notify[k] : k \in {j \in DOMAIN notify : j <= room}}
      /\ worker' = [w \in Workers |->
                      [worker[w] EXCEPT !.refused = @ \/ w \in Queued \ table']]
      /\ notify' = <<>>
      /\ UNCHANGED <<brainVars, main, thread, quit, ctlq, cli, ctl, sockFile, shown,
                     plan, serving>>

Begin(who, req) ==
  /\ Runs("admin") /\ serving = NoWorker
  /\ serving' = who
  /\ job' = [NoJob EXCEPT !.req = req, !.at = "call"]
  /\ UNCHANGED <<store, txn, faults, main, thread, quit, notify, table, cli, ctl, sockFile,
                 shown, plan>>

TakeCtl ==
  /\ ctlq # <<>> /\ ctlq' = Tail(ctlq)
  /\ Begin(Operator, Head(ctlq))
  /\ UNCHANGED worker

TakeRequest(w) ==
  /\ w \in table /\ worker[w].asked # NoRequest
  /\ worker' = [worker EXCEPT ![w].asked = NoRequest]
  /\ Begin(w, worker[w].asked)
  /\ UNCHANGED ctlq

(* The call itself, BallotBox. *)
Work ==
  /\ serving # NoWorker /\ Call
  /\ UNCHANGED procVars

(* Results the codec has a name for; the others are never encoded. *)
name_from_result(a) == a.status # "RETRY"

(* handle_ctl_req closes the connection in any case; ballotctl reads the   *)
(* answer as it comes.                                                     *)
Reply ==
  /\ job.at = "done"
  /\ IF serving = Operator
     THEN /\ ctl' = IF name_from_result(job.answer) THEN NoCtl ELSE [ctl EXCEPT !.at = "closed"]
          /\ UNCHANGED worker
     ELSE worker' = [worker EXCEPT ![serving].reply = job.answer] /\ UNCHANGED ctl
  /\ job' = NoJob /\ serving' = NoWorker
  /\ UNCHANGED <<store, txn, faults, main, thread, quit, notify, ctlq, table, cli, sockFile, shown,
                 plan>>

drop_worker(w) ==
  /\ Runs("admin") /\ serving = NoWorker
  /\ w \in table /\ ~Alive(w) /\ worker[w].asked = NoRequest
  /\ table' = table \ {w}
  /\ UNCHANGED <<brainVars, main, thread, quit, notify, ctlq, worker, cli, ctl, sockFile, shown,
                 plan, serving>>

Killed(ws) == [w \in Workers |-> IF w \in ws THEN Gone ELSE worker[w]]

(* As if the requests still in the pipe were forgotten. *)
admin_teardown_forgets ==
  /\ worker' = Killed(Queued \cup table)
  /\ notify' = <<>> /\ ctlq' = <<>> /\ table' = {}
  /\ UNCHANGED ctl

(* As if only the registered workers were ended. *)
admin_teardown_registered ==
  /\ worker' = Killed(table)
  /\ notify' = <<>> /\ ctlq' = <<>> /\ table' = {}
  /\ ctl' = IF ctlq = <<>> THEN ctl ELSE [ctl EXCEPT !.at = "closed"]

(* Workers never registered and those registered are ended, requests still *)
(* in the pipe are closed.                                                 *)
admin_teardown ==
  /\ worker' = Killed(Queued \cup table)
  /\ notify' = <<>> /\ ctlq' = <<>> /\ table' = {}
  /\ ctl' = IF ctlq = <<>> THEN ctl ELSE [ctl EXCEPT !.at = "closed"]

AdminQuits ==
  /\ Runs("admin") /\ serving = NoWorker /\ quit.admin
  /\ admin_teardown
  /\ thread' = [thread EXCEPT !["admin"] = "done"]
  /\ UNCHANGED <<brainVars, main, quit, cli, sockFile, shown, plan, serving>>

-----------------------------------------------------------------------------
(* main, and signals. *)

(* SIGTERM or SIGINT *)
on_terminate ==
  /\ main = "up" /\ Fault /\ ~quit.all /\ quit' = [quit EXCEPT !.all = TRUE]
  /\ UNCHANGED <<store, txn, job, main, thread, notify, ctlq, table, worker, cli, ctl, sockFile, shown,
                 plan, serving>>

(* As if the admin thread were joined first. *)
JoinAccepting_last ==
  /\ main = "up" /\ ~quit.admin /\ thread["admin"] = "done"
  /\ quit' = [quit EXCEPT !.admin = TRUE]
  /\ UNCHANGED <<brainVars, main, thread, notify, ctlq, table, worker, cli, ctl, sockFile, shown,
                 plan, serving>>

(* Both accepting threads are joined before the admin thread is stopped. *)
JoinAccepting ==
  /\ main = "up" /\ ~quit.admin /\ thread["listener"] = "done" /\ thread["ctl"] = "done"
  /\ quit' = [quit EXCEPT !.admin = TRUE]
  /\ UNCHANGED <<brainVars, main, thread, notify, ctlq, table, worker, cli, ctl, sockFile, shown,
                 plan, serving>>

Return ==
  /\ main = "up" /\ thread["admin"] = "done"
  /\ main' = "returned"
  /\ UNCHANGED <<brainVars, thread, quit, notify, ctlq, table, worker, cli, ctl, sockFile, shown,
                 plan, serving>>

(* SIGKILL: its connections close, a commit under way may or may not take  *)
(* place, and nobody ends the workers.                                     *)
Kill ==
  /\ main = "up" /\ Fault
  /\ main' = "killed"
  /\ store' \in {store} \cup (IF job.at = "commit" THEN {txn} ELSE {})
  /\ txn' = Empty /\ job' = NoJob /\ serving' = NoWorker
  /\ notify' = <<>> /\ ctlq' = <<>> /\ table' = {}
  /\ ctl' = IF ctl.at = "wait" THEN [ctl EXCEPT !.at = "closed"] ELSE ctl
  /\ UNCHANGED <<thread, quit, worker, cli, sockFile, shown, plan>>

(* ctl_open asks the socket it finds whether anybody is serving it. *)
Answers == sockFile /\ \E w \in Workers : Alive(w) /\ worker[w].ours

Start ==
  /\ main = "killed" /\ ~Answers
  /\ main' = "up" /\ sockFile' = TRUE
  /\ thread' = [t \in DOMAIN thread |-> "run"] /\ quit' = [all |-> FALSE, admin |-> FALSE]
  /\ worker' = [w \in Workers |-> [worker[w] EXCEPT !.ours = ~Alive(w)]]
  /\ UNCHANGED <<brainVars, notify, ctlq, table, cli, ctl, shown, plan, serving>>

-----------------------------------------------------------------------------
(* ballotu and its worker.  The worker does nothing between two messages,  *)
(* so it forwards a request in the step that sends it and the client reads *)
(* an answer in the step that passes it on.                                *)

PeersOnly == UNCHANGED <<brainVars, main, thread, quit, notify, ctlq, table, ctl, sockFile, plan,
                         serving>>

SignIn(c) ==
  LET w == cli[c].worker
  IN  /\ cli[c].at = "auth" /\ worker[w].at = "auth"
      /\ worker' = [worker EXCEPT ![w].at = "loop"]
      /\ cli' = [cli EXCEPT ![c].at = "menu", ![c].session = FreshSession]
      /\ UNCHANGED shown /\ PeersOnly

(* The program is left, from a menu or in the middle of a request. *)
Leave(c) ==
  /\ cli[c].at # "connect"
  /\ cli' = [cli EXCEPT ![c] = [FreshClient EXCEPT !.submits = cli[c].submits]]
  /\ UNCHANGED <<worker, shown>> /\ PeersOnly

(* The worker adds the name its connection signed in with; it drops the    *)
(* request if its own socketpair is closed.                                *)
bcl_send(c, req) ==
  LET w == cli[c].worker
  IN  /\ cli[c].at = "menu"
      /\ cli' = [cli EXCEPT ![c].at = "wait", ![c].sent = req,
                    ![c].submits = IF req.op \in {"CAST", "UPDATE"} THEN @ - 1 ELSE @]
      /\ worker' = IF Alive(w) /\ Connected(w)
                   THEN [worker EXCEPT ![w].at = "asked",
                                       ![w].asked = [req EXCEPT !.name = Account[c]]]
                   ELSE worker
      /\ UNCHANGED shown /\ PeersOnly

Join(c, id) == bcl_send(c, [NoRequest EXCEPT !.op = "JOIN", !.id = id])

bu_route_vote(s) == IF ~s.joined THEN "MUST_JOIN" ELSE IF s.has THEN "UPDATE" ELSE "CAST"

Vote(c, option, nonce) ==
  LET s == cli[c].session
  IN  /\ bu_route_vote(s) # "MUST_JOIN" /\ cli[c].submits > 0
      /\ bcl_send(c, [NoRequest EXCEPT !.op = bu_route_vote(s), !.id = s.id, !.option = option,
                                       !.nonce = nonce])

ViewResults(c, id) == bcl_send(c, [NoRequest EXCEPT !.op = "RESULTS", !.id = id])

CheckVote(c, r) ==
  /\ r.name = Account[c]
  /\ bcl_send(c, [NoRequest EXCEPT !.op = "CHECK", !.id = r.id, !.hash = r.hash])

(* "A refused or lost submission must not move local session state." *)
bu_submit_vote(s, a) == IF a.status = "OK" THEN [s EXCEPT !.has = TRUE, !.version = @ + 1] ELSE s

bu_join(s, id, a) ==
  IF a.status = "OK" THEN [joined |-> TRUE, id |-> id, has |-> a.has, version |-> a.version]
  ELSE IF a.status = "NOT_OPEN" THEN [s EXCEPT !.joined = FALSE, !.id = id] ELSE s

Receive(c, a) ==
  LET r == cli[c].sent
      s == cli[c].session
      taken == r.op \in {"CAST", "UPDATE"}
  IN  /\ cli' = [cli EXCEPT ![c].at = "menu", ![c].sent = NoRequest,
                    ![c].session = IF r.op = "JOIN" THEN bu_join(s, r.id, a)
                                   ELSE IF taken THEN bu_submit_vote(s, a) ELSE s]
      /\ shown' = IF taken /\ a.status = "OK"
                  THEN shown \cup {[name |-> Account[c], id |-> r.id, hash |-> a.hash,
                                    option |-> r.option, version |-> a.version]}
                  ELSE shown

(* The admin thread's answer goes to the client, if it can be encoded and  *)
(* the client is there; the worker waits for the next request.             *)
handle_request(w) ==
  LET c == worker[w].client
      a == worker[w].reply
  IN  /\ worker[w].at = "asked" /\ a # NoAnswer
      /\ worker' = [worker EXCEPT ![w].at = "loop", ![w].reply = NoAnswer]
      /\ IF cli[c].worker = w /\ name_from_result(a)
         THEN Receive(c, a) ELSE UNCHANGED <<cli, shown>>
      /\ PeersOnly

(* The daemon is gone in the middle of the request: so is the answer. *)
Orphaned(w) ==
  /\ worker[w].at = "asked" /\ worker[w].reply = NoAnswer /\ ~Connected(w)
  /\ worker' = [worker EXCEPT ![w].at = "loop", ![w].asked = NoRequest]
  /\ UNCHANGED <<cli, shown>> /\ PeersOnly

(* The client has hung up. *)
WorkerExits(w) ==
  /\ worker[w].at \in {"auth", "loop"} /\ cli[worker[w].client].worker # w
  /\ worker' = Killed({w})
  /\ UNCHANGED <<cli, shown>> /\ PeersOnly

(* The connection ends before the answer: the session is dropped. *)
Disconnected(c) ==
  /\ cli[c].at = "wait" /\ ~Alive(cli[c].worker)
  /\ cli' = [cli EXCEPT ![c] = [FreshClient EXCEPT !.submits = cli[c].submits]]
  /\ UNCHANGED <<worker, shown>> /\ PeersOnly

-----------------------------------------------------------------------------
Admin ==
  \/ Register \/ TakeCtl \/ (\E w \in Workers : TakeRequest(w) \/ drop_worker(w))
  \/ Work \/ Reply \/ AdminQuits

Listener == (\E c \in Clients, w \in Workers : Accept(c, w)) \/ ListenerQuits \/ AcceptFails \/ BindFails

Ctl == handle_conn \/ CtlQuits \/ CtlFails \/ CtlDone

WorkerStep(w) == handle_request(w) \/ Orphaned(w) \/ WorkerExits(w)

ClientStep(c) ==
  \/ SignIn(c) \/ Leave(c)
  \/ \E id \in Ids : Join(c, id) \/ ViewResults(c, id)
  \/ \E option \in OptionIndexes, nonce \in Nonces : Vote(c, option, nonce)
  \/ \E r \in shown : CheckVote(c, r)
  \/ Disconnected(c)

Next ==
  \/ Listener \/ Ctl \/ Admin
  \/ on_terminate \/ JoinAccepting \/ Return \/ Kill \/ Start
  \/ (\E w \in Workers : WorkerStep(w)) \/ (\E c \in Clients : ClientStep(c))

Spec == Init /\ [][Next]_ballotVars

(* The threads run, and every pass of the admin thread's loop looks at all *)
(* its descriptors; nothing is assumed of clients, workers and operators.  *)
FairSpec ==
  /\ Spec
  /\ WF_ballotVars(ListenerQuits) /\ WF_ballotVars(CtlQuits)
  /\ WF_ballotVars(JoinAccepting) /\ WF_ballotVars(Return)
  /\ WF_ballotVars(Work) /\ WF_ballotVars(Reply)
  /\ SF_ballotVars(TakeCtl) /\ SF_ballotVars(AdminQuits)

-----------------------------------------------------------------------------
(* Properties. *)

(* What a voter was told holds, whatever fails, is retried or is killed    *)
(* afterwards: a ballot with a receipt is in the store with the option     *)
(* chosen and is counted unless that voter has a later one; and a session  *)
(* offers an update only where there is a ballot, and shows no version the *)
(* store has not reached (bu_submit_vote, bu_join).                        *)
ReceiptsHold ==
  /\ \A r \in shown :
       \E b \in Matching(store, r.id, r.hash) :
         /\ b.option = r.option
         /\ b.live \/ \E o \in run_get_prior_ballot(store, r.id, r.name) : o.version > r.version
  /\ \A c \in Clients :
       LET s == cli[c].session
       IN  bu_route_vote(s) = "UPDATE" =>
             \E o \in run_get_prior_ballot(store, s.id, Account[c]) : s.version <= o.version

(* When main has returned nothing is left behind: every worker it did not  *)
(* refuse is gone, every request it accepted is answered or closed, the    *)
(* socket's file is removed.                                               *)
CleanExit ==
  main = "returned" =>
    /\ ctl.at # "wait" /\ ~sockFile
    /\ \A w \in Workers : Alive(w) /\ worker[w].ours => worker[w].refused

(* An operator's request does not stay with the daemon: it is answered or  *)
(* its connection closed, also when the daemon is told to stop just after  *)
(* the request was handed over.                                            *)
OperatorServed == (ctl.at = "wait") ~> (ctl.at # "wait")

(* Once told to stop, by a signal or by the failure of one of its threads, *)
(* the daemon ends.                                                        *)
Stops == quit.all ~> (main # "up")
=============================================================================
