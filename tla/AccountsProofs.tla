--------------------------- MODULE AccountsProofs ---------------------------
(* The launchers of the accounts database, and what the statements of the  *)
(* session processes do to the invariant of the sign-in gate.              *)
EXTENDS Accounts, TLAPS

Cmds == {"first", "start", "stop", "idle"}

Places == {"begin", "clear", "provision", "declare", "provisionSecret", "fill", "validate",
           "spawn", "record", "wait", "await", "clearing", "done", "killed"}

JvmStates == {"none", "starting", "listening", "stopping", "dead"}

LaunchTypeOK ==
  /\ lnch \in [Launchers -> [cmd : Cmds, rc : {0, 1}, at : Places]]
  /\ jvm \in [Launchers -> JvmStates]
  /\ lock \in Launchers \cup {None}
  /\ pidf \in Launchers \cup {None}

(* Whoever has the lock file open, launcher or JVM, has the lock; and a    *)
(* launcher that stops the database has no JVM of its own.                 *)
HoldersLock == \A l \in Launchers : Holding(l) => lock = l

StopsOnly == \A l \in Launchers : lnch[l].cmd = "stop" => jvm[l] = "none"

LaunchInv == LaunchTypeOK /\ HoldersLock /\ StopsOnly

(* Nobody has the lock file open when the lock can be had. *)
LEMMA FreeLock ==
  ASSUME LaunchInv, ~Held
  PROVE  \A l \in Launchers : ~Holding(l)
BY LaunchersAssumption DEF LaunchInv, HoldersLock, Held

(* A launcher that goes on or returns moves alone and keeps its command. *)
Moved(l, at) ==
  /\ lnch' \in [Launchers -> [cmd : Cmds, rc : {0, 1}, at : Places]]
  /\ \A k \in Launchers : /\ lnch'[k].cmd = lnch[k].cmd
                          /\ lnch'[k].at = IF k = l THEN at ELSE lnch[k].at
                          /\ k # l => lnch'[k] = lnch[k]

(* A launcher that goes on to its next place. *)
LEMMA GoesMoves ==
  ASSUME LaunchTypeOK, NEW l \in Launchers, NEW at \in Places, Goes(l, at)
  PROVE  Moved(l, at)
BY DEF LaunchTypeOK, Goes, Moved

(* A launcher that returns from db_socket_start_server. *)
LEMMA ReturnsMoves ==
  ASSUME LaunchTypeOK, NEW l \in Launchers, NEW rc \in {0, 1}, Returns(l, rc)
  PROVE  Moved(l, "done") /\ lnch'[l].rc = rc
BY ZenonT(60) DEF LaunchTypeOK, Returns, Moved, Places

(* A step in which no launcher moves. *)
LEMMA NobodyMoves ==
  ASSUME LaunchTypeOK, NEW l \in Launchers, lnch' = lnch
  PROVE  Moved(l, lnch[l].at) /\ lnch[l].at \in Places
BY DEF LaunchTypeOK, Moved

(* It keeps the invariant when it does not open the lock file anew and     *)
(* JVMs at most go on or end,                                              *)
Closes(l, at) == at \in {"begin", "await", "done", "killed"} \/ FileOpen(l)

NoneBorn ==
  /\ jvm' \in [Launchers -> JvmStates]
  /\ \A k \in Launchers : /\ jvm'[k] \in {"starting", "listening", "stopping"} => JvmAlive(k)
                          /\ lnch[k].cmd = "stop" /\ jvm[k] = "none" => jvm'[k] = "none"

(* A move that opens no lock file and starts no JVM keeps LaunchInv. *)
LEMMA MoveKeeps ==
  ASSUME LaunchInv, NEW l \in Launchers, NEW at \in Places, Moved(l, at), Closes(l, at),
         NoneBorn, lock' = lock, pidf' \in Launchers \cup {None}
  PROVE  LaunchInv'
BY DEF LaunchInv, LaunchTypeOK, HoldersLock, StopsOnly, Holding, FileOpen, JvmAlive, Moved, Places,
       Closes, NoneBorn

(* and when it takes a lock that can be had. *)
LEMMA LockKeeps ==
  ASSUME LaunchInv, NEW l \in Launchers, NEW at \in Places, Moved(l, at),
         ~Held, jvm' = jvm, lock' = l, pidf' = pidf
  PROVE  LaunchInv'
BY FreeLock
DEF LaunchInv, LaunchTypeOK, HoldersLock, StopsOnly, Holding, FileOpen, JvmAlive, Moved, Places

(* A step of a launcher or of a JVM, or the end of one, keeps it.  A JVM   *)
(* is born from a launcher that has the lock file open, and so the lock.   *)
LEMMA LauncherKeeps ==
  ASSUME LaunchInv, NEW l \in Launchers, LauncherStep(l) \/ LauncherFault(l)
  PROVE  LaunchInv'
<1> USE DEF LaunchInv
<1>0. \A at \in Places : Goes(l, at) => Moved(l, at)
  BY GoesMoves
<1>d. \A rc \in {0, 1} : Returns(l, rc) => Moved(l, "done")
  BY ReturnsMoves
<1>s. jvm' = jvm => NoneBorn
  BY DEF NoneBorn, LaunchTypeOK, JvmAlive
<1>e. \A k \in Launchers, st \in {"stopping", "dead", "listening"} :
        /\ JvmAlive(k) \/ (st = "dead" /\ lnch[k].cmd # "stop")
        /\ jvm' = [jvm EXCEPT ![k] = st]
        => NoneBorn
  BY DEF NoneBorn, LaunchTypeOK, JvmAlive, JvmStates
<1> USE <1>0, <1>d, <1>s, <1>e
<1>1. CASE db_runner_lock(l)
  <2>1. CASE Held BY <1>1, <2>1, MoveKeeps DEF db_runner_lock, Places, Closes, LaunchTypeOK
  <2>2. CASE ~Held BY <1>1, <2>2, LockKeeps DEF db_runner_lock, Places
  <2> QED BY <2>1, <2>2
<1>2. CASE acquire_lock(l)
  BY <1>2, MoveKeeps, SMTT(60) DEF acquire_lock, At, Places, Closes, FileOpen
<1>3. CASE db_ensure_table(l)
  BY <1>3, MoveKeeps, SMTT(60) DEF db_ensure_table, At, Places, Closes, FileOpen, LaunchTypeOK
<1>4. CASE auth_secret_provision(l)
  BY <1>4, MoveKeeps, SMTT(60) DEF auth_secret_provision, At, Places, Closes, FileOpen, LaunchTypeOK
<1>5. CASE secret_open(l)
  BY <1>5, MoveKeeps DEF secret_open, At, Places, Closes, FileOpen, LaunchTypeOK
<1>6. CASE db_runner_spawn(l)
  <2>1. CASE jvm' = jvm
    BY <1>6, <2>1, MoveKeeps, SMTT(60) DEF db_runner_spawn, At, Places, Closes, FileOpen, LaunchTypeOK
  <2>2. CASE jvm' = [jvm EXCEPT ![l] = "starting"] /\ Goes(l, "record")
    <3>1. lnch[l].cmd = "start" /\ lock = l
      BY <1>6 DEF db_runner_spawn, At, HoldersLock, Holding, FileOpen
    <3>2. Moved(l, "record") BY <2>2 DEF Places
    <3> QED
      BY <1>6, <2>2, <3>1, <3>2, ZenonT(60)
      DEF db_runner_spawn, LaunchTypeOK, JvmStates, HoldersLock, StopsOnly, Holding, FileOpen, JvmAlive, Moved
  <2> QED BY <1>6, <2>1, <2>2, SMTT(60) DEF db_runner_spawn
<1>7. CASE record_pid(l)
  <2>1. Closes(l, "wait") /\ Closes(l, "done") /\ pidf' \in Launchers \cup {None}
    BY <1>7 DEF record_pid, At, Closes, FileOpen
  <2>2. CASE jvm' = jvm BY <1>7, <2>1, <2>2, MoveKeeps DEF record_pid, Places
  <2>3. CASE jvm' = [jvm EXCEPT ![l] = "dead"] /\ Returns(l, 1)
    BY <1>7, <2>1, <2>3, MoveKeeps, ZenonT(60) DEF record_pid, At, Places
  <2> QED BY <1>7, <2>2, <2>3 DEF record_pid
<1>8. CASE db_runner_wait(l)
  BY <1>8, MoveKeeps DEF db_runner_wait, At, Places, Closes, FileOpen, JvmAlive, LaunchTypeOK
<1>9. CASE StopLooks(l)
  <2>1. CASE Held
    BY <1>9, <2>1, MoveKeeps, SMTT(60) DEF StopLooks, Ended, Places, Closes, LaunchTypeOK
  <2>2. CASE ~Held BY <1>9, <2>2, LockKeeps, SMTT(60) DEF StopLooks, Places
  <2> QED BY <2>1, <2>2, SMTT(60)
<1>10. CASE StopWaits(l)
  <2>1. CASE Held BY <1>10, <2>1, MoveKeeps, SMTT(60) DEF StopWaits, Places, Closes, LaunchTypeOK
  <2>2. CASE ~Held BY <1>10, <2>2, LockKeeps DEF StopWaits, Places
  <2> QED BY <2>1, <2>2, SMTT(60)
<1>11. CASE clear_pid(l)
  BY <1>11, MoveKeeps, SMTT(60) DEF clear_pid, Places, Closes
<1>12. CASE JvmSteps(l) \/ JvmKilled(l)
  BY <1>12, NobodyMoves, MoveKeeps, SMTT(60)
  DEF JvmSteps, JvmKilled, JvmAlive, Places, Closes, FileOpen, LaunchTypeOK
<1>13. CASE LauncherKilled(l)
  BY <1>13, MoveKeeps DEF LauncherKilled, Places, Closes, LaunchTypeOK
<1> QED
  BY <1>1, <1>2, <1>3, <1>4, <1>5, <1>6, <1>7, <1>8, <1>9, <1>10, <1>11, <1>12, <1>13
  DEF LauncherStep, LauncherFault, start, stop

(* Sessions and the server leave launchers and JVMs alone. *)
LEMMA OthersStutter ==
  ASSUME [Next]_vars
  PROVE  \/ \E l \in Launchers : LauncherStep(l) \/ LauncherFault(l)
         \/ UNCHANGED launchVars
<1>1. CASE LauncherSteps BY <1>1 DEF LauncherSteps
<1>2. CASE LateEnds BY <1>2, SMTT(60) DEF LateEnds
<1>3. ASSUME NEW p \in Procs, Session(p) PROVE UNCHANGED launchVars
  BY <1>3, ZenonT(60)
  DEF Session, auth_session_parser, SignedIn, reg_acquire, sem_acquire, db_socket_open, db_socket_exec,
      classify, db_wire_late, db_wire_eof, account_login, select_max, select_exists, insert, commit,
      token_handler, history_db_read_player
<1>4. ASSUME NEW p \in Procs, Killed(p) PROVE UNCHANGED launchVars
  BY <1>4 DEF Killed
<1> QED BY <1>1, <1>2, <1>3, <1>4 DEF Next, vars

(* It holds at the start: at most one launcher has started the database. *)
LEMMA InitLaunch ==
  ASSUME Init
  PROVE  LaunchInv
<1>1. PICK plan \in Plans :
        /\ lnch = [l \in Launchers |-> [cmd |-> plan.cmds[l], rc |-> 0,
                    at |-> IF plan.cmds[l] = "first" THEN "done" ELSE "begin"]]
        /\ jvm = [l \in Launchers |-> IF plan.cmds[l] = "first" THEN "listening" ELSE "none"]
        /\ \E first \in {l \in Launchers : plan.cmds[l] = "first"} \cup {None} :
             /\ (first = None) = (\A l \in Launchers : plan.cmds[l] # "first")
             /\ lock = first /\ pidf = first
  BY ZenonT(60) DEF Init
<1>2. /\ plan.cmds \in [Launchers -> Cmds]
      /\ \A l, k \in Launchers : plan.cmds[l] = "first" /\ plan.cmds[k] = "first" => l = k
  BY PlansAssumption DEF Cmds
<1>3. LaunchTypeOK BY <1>1, <1>2 DEF LaunchTypeOK, Cmds, Places, JvmStates
<1>4. HoldersLock
  BY <1>1, <1>2, LaunchersAssumption, ZenonT(60) DEF HoldersLock, Holding, FileOpen, JvmAlive
<1>5. StopsOnly BY <1>1, <1>2 DEF StopsOnly
<1> QED BY <1>3, <1>4, <1>5 DEF LaunchInv

-----------------------------------------------------------------------------
(* Finite sets. *)
LEMMA FiniteEmpty == IsFiniteSet({})
<1>1. << >> \in Seq({}) BY SMTT(60)
<1> QED BY <1>1, ZenonT(60) DEF IsFiniteSet

(* One element more. *)
LEMMA FiniteAdd ==
  ASSUME NEW S, IsFiniteSet(S), NEW x
  PROVE  IsFiniteSet(S \cup {x})
<1> DEFINE T == S \cup {x}
<1>1. PICK seq \in Seq(S) : \A e \in S : \E n \in 1..Len(seq) : seq[n] = e
  BY ZenonT(60) DEF IsFiniteSet
<1> DEFINE all == Append(seq, x)
<1>2. /\ all \in Seq(T) /\ Len(all) = Len(seq) + 1 /\ all[Len(seq) + 1] = x
      /\ \A n \in 1..Len(seq) : all[n] = seq[n]
  BY <1>1, SMTT(60)
<1>3. \A e \in T : \E n \in 1..Len(all) : all[n] = e BY <1>1, <1>2, SMTT(60)
<1> HIDE DEF all
<1> QED BY <1>2, <1>3, ZenonT(60) DEF IsFiniteSet

(* The image of a function. *)
LEMMA FiniteImage ==
  ASSUME NEW S, IsFiniteSet(S), NEW T, NEW f \in [S -> T], \A t \in T : \E e \in S : f[e] = t
  PROVE  IsFiniteSet(T)
<1>1. PICK seq \in Seq(S) : \A e \in S : \E n \in 1..Len(seq) : seq[n] = e
  BY ZenonT(60) DEF IsFiniteSet
<1> DEFINE img == [n \in 1..Len(seq) |-> f[seq[n]]]
<1>2. Len(seq) \in Nat /\ \A n \in 1..Len(seq) : seq[n] \in S BY <1>1, SMTT(60)
<1>3. img \in Seq(T) /\ Len(img) = Len(seq) BY <1>1, <1>2, SMTT(60)
<1>4. \A t \in T : \E n \in 1..Len(img) : img[n] = t BY <1>1, <1>2, <1>3, SMTT(60)
<1> HIDE DEF img
<1> QED BY <1>3, <1>4, ZenonT(60) DEF IsFiniteSet

(* A part of a set. *)
LEMMA FiniteSubset ==
  ASSUME NEW S, IsFiniteSet(S), NEW T \in SUBSET S
  PROVE  IsFiniteSet(T)
<1>1. CASE T = {} BY <1>1, FiniteEmpty, ZenonT(60)
<1>2. CASE T # {}
  <2>1. PICK t0 \in T : TRUE BY <1>2, ZenonT(60)
  <2> DEFINE f == [e \in S |-> IF e \in T THEN e ELSE t0]
  <2>2. f \in [S -> T] /\ \A t \in T : \E e \in S : f[e] = t BY <2>1, SMTT(60)
  <2> HIDE DEF f
  <2> QED BY <2>2, FiniteImage, SMTT(60)
<1> QED BY <1>1, <1>2, ZenonT(60)

-----------------------------------------------------------------------------
(* The invariant of the gate. *)

Fields == {"pc", "i", "loaded", "k", "runner", "req", "user", "playing", "next", "attempt", "id",
           "told", "name", "token", "view"}

Inserting == {"max", "exists", "insert", "commit"}

Pcs == Statements \cup {"gate", "dropped", "lobby", "turn", "open", "mint", "killed"}

SessionOK(p) ==
  /\ DOMAIN s[p] = Fields
  /\ s[p].k \in Nat /\ s[p].i \in Nat /\ s[p].attempt \in Nat /\ s[p].pc \in Pcs
  /\ s[p].pc \in {"turn", "max", "insert", "commit"} => s[p].req.m \in {"REGISTER", "ROUND"}
  /\ s[p].pc = "open" => s[p].req.m \in {"LOGIN", "REGISTER", "HISTORY", "ROUND"}
  /\ s[p].pc = "exists" => s[p].req.m = "REGISTER"
  /\ s[p].pc = "lookup" => s[p].req.m = "LOGIN"
  /\ s[p].pc \in {"recent", "best", "games"} => s[p].req.m = "HISTORY"
  /\ s[p].pc = "mint" => s[p].req.m \in {"LOGIN", "REGISTER"}
  /\ s[p].pc \in {"lookup", "exists"} => s[p].loaded
  /\ s[p].pc \in {"turn", "open", "max", "insert"} /\ s[p].req.m \in {"LOGIN", "REGISTER"} => s[p].loaded
  /\ s[p].req.m = "ROUND" => s[p].req.call \in Nat
  /\ s[p].pc \notin {"lobby", "best", "games", "killed"} => s[p].view = None

SessionsOK == DOMAIN s = Procs /\ \A p \in Procs : SessionOK(p)

Holds(p, tab) == /\ s[p].pc \in Inserting \cup {"open"}
                 /\ Serialised(s[p].req) /\ TableOf(s[p].req) = tab

TurnsOK ==
  /\ sem \in [Tables -> {0, 1}]
  /\ \A p, q \in Procs, tab \in Tables :
       Holds(p, tab) => sem[tab] = 0 /\ (Holds(q, tab) => p = q)

(* A call of history_db_insert yet to be made is nobody else's, is not     *)
(* under way and has no row; one that is under way has none before its     *)
(* insert.                                                                 *)
Pending(p, i) ==
  todo[p][i].m = "ROUND" =>
    /\ todo[p][i].call \in Nat
    /\ \A r \in RowsOf("history") : r.data # todo[p][i].call
    /\ \A q \in Procs : s[q].req.m = "ROUND" => s[q].req.call # todo[p][i].call
    /\ \A q \in Procs : \A j \in DOMAIN todo[q] :
         todo[q][j].m = "ROUND" /\ todo[q][j].call = todo[p][i].call => q = p /\ j = i

Unrecorded == {"turn", "open", "max", "insert"}

Ongoing(p) ==
  s[p].req.m = "ROUND" =>
    /\ \A q \in Procs : s[q].req.m = "ROUND" /\ s[q].req.call = s[p].req.call => q = p
    /\ s[p].pc \in Unrecorded => \A r \in RowsOf("history") : r.data # s[p].req.call

RoundsOK ==
  /\ todo \in [Procs -> Seq(Requests)]
  /\ \A p \in Procs : Ongoing(p) /\ \A i \in DOMAIN todo[p] : Pending(p, i)

RowsOK ==
  /\ DOMAIN db = Tables
  /\ \A tab \in Tables :
       /\ DOMAIN db[tab] = {"rows", "pages"}
       /\ IsFiniteSet(RowsOf(tab))
       /\ \A r \in RowsOf(tab) : DOMAIN r = RowFields /\ r.id \in Nat
  /\ \A r \in RowsOf("history") : r.data \in Nat
  /\ \A r, q \in RowsOf("user") : r.name = q.name \/ r.id = q.id => r = q
  /\ \A r, q \in RowsOf("history") : r.data = q.data \/ r.id = q.id => r = q

Ahead(p) ==
  /\ s[p].pc \in {"exists", "insert"} =>
       /\ s[p].next \in Nat
       /\ \A r \in RowsOf(TableOf(s[p].req)) : r.id < s[p].next
  /\ s[p].pc = "insert" /\ s[p].req.m = "REGISTER" => \A r \in RowsOf("user") : r.name # s[p].user

AheadOK == \A p \in Procs : Ahead(p)

(* An uncommitted row is of a transaction that is committing or was given  *)
(* up, and so is whatever the server still works on.                       *)
Owner(o, live) ==
  \E q \in Procs, k \in Nat :
    o = <<q, k>> /\ k <= s[q].k /\ (k = s[q].k => s[q].pc \in live)

OwnersOK ==
  /\ \A tab \in Tables : \A r \in RowsOf(tab) : r.by = None \/ Owner(r.by, {"commit", "killed"})
  /\ \A e \in late : Owner(e.own, {"killed"})

(* A secret is filled by the launcher that created it, a JVM is started    *)
(* once, and a session is connected to one that was started.               *)
Unborn == {"begin", "clear", "provision", "declare", "provisionSecret", "fill", "validate", "spawn"}

SecretOK ==
  /\ secret \in Launchers \cup {"none", "short"}
  /\ \A l \in Launchers :
       /\ lnch[l].at = "fill" => secret = "short"
       /\ lnch[l].cmd = "start" /\ lnch[l].at \in Unborn => jvm[l] = "none"

Runner(p) ==
  s[p].runner # None => s[p].runner \in Launchers /\ jvm[s[p].runner] \in {"listening", "stopping", "dead"}

(* Who has a token, or is about to get one, has an account; who has asked  *)
(* for the commit of one has its row.                                      *)
Account(id, name) == \E r \in Committed("user") : r.id = id /\ r.name = name

Token(p) ==
  /\ s[p].token # None =>
       /\ Account(s[p].token.sub, s[p].token.name)
       /\ s[p].token.key = secret /\ secret \in Launchers
  /\ s[p].pc = "mint" => Account(s[p].id, s[p].user)
  /\ s[p].pc = "commit" /\ s[p].req.m = "REGISTER" /\ Connected(p) =>
       \E r \in RowsOf("user") : r.by = Txn(p) /\ r.id = s[p].next /\ r.name = s[p].user

(* A client that was told something has spent an attempt on it. *)
Probe(p) ==
  /\ probes[p] \in 0..MaxAttempts
  /\ s[p].pc # "dropped" => probes[p] = 0 \/ (probes[p] <= s[p].i /\ s[p].i < MaxAttempts /\ s[p].loaded)

(* The rounds of a history being read are there to be read again. *)
View(p) ==
  /\ s[p].pc \in {"best", "games"} /\ Connected(p) =>
       /\ DOMAIN s[p].view = {"status", "recent", "best", "games"}
       /\ s[p].view.recent \subseteq {r.data : r \in Mine(p)}
  /\ s[p].pc = "games" /\ Connected(p) => \A x \in s[p].view.recent : x <= s[p].view.best
  /\ s[p].pc = "lobby" /\ s[p].view # None /\ s[p].view.status = "OK" =>
       /\ Cardinality(s[p].view.recent) <= s[p].view.games
       /\ \A x \in s[p].view.recent : x <= s[p].view.best

ClientsOK ==
  /\ DOMAIN probes = Procs
  /\ \A p \in Procs : Runner(p) /\ Token(p) /\ Probe(p) /\ View(p)

GateInv == /\ LaunchInv /\ SecretOK /\ SessionsOK /\ TurnsOK /\ RoundsOK /\ RowsOK
           /\ AheadOK /\ OwnersOK /\ ClientsOK

-----------------------------------------------------------------------------
(* What happens to a session's record. *)

(* A step of a session leaves the others alone, and its own fields outside F. *)
Moves(p, F) ==
  /\ DOMAIN s' = Procs /\ DOMAIN s'[p] = Fields
  /\ \A q \in Procs \ {p} : s'[q] = s[q]
  /\ \A f \in Fields \ F : s'[p][f] = s[p][f]

(* A refusal (auth_retry_handler) counts what checked something, and sends *)
(* the client back to the gate only while it has attempts left.            *)
Refusal(x, y, st) ==
  /\ DOMAIN y = Fields /\ \A f \in Fields \ {"pc", "i", "told"} : y[f] = x[f]
  /\ y.i = IF Counts(st) THEN x.i + 1 ELSE x.i
  /\ y.pc \in {"gate", "dropped"}
  /\ y.pc = "gate" /\ x.loaded => y.i < MaxAttempts

(* The rows an earlier run has left are in order. *)
LEMMA RowsStored ==
  ASSUME NEW plan \in Plans, db = plan.db
  PROVE  RowsOK
<1>1. \A tab \in Tables : RowsOf(tab) = plan.db[tab].rows BY DEF RowsOf
<1>2. RowsOf("user") = plan.db.user.rows /\ RowsOf("history") = plan.db.history.rows
  BY DEF RowsOf
<1> QED BY <1>1, <1>2, StoredAssumption, SMTT(60) DEF RowsOK

(* The calls that sessions will make are told apart from the start. *)
LEMMA RoundsPlanned ==
  ASSUME NEW plan \in Plans, db = plan.db, todo = plan.todo,
         \A q \in Procs : s[q].req.m = "NONE",
         NEW p \in Procs, NEW i \in DOMAIN todo[p]
  PROVE  Pending(p, i)
<1>1. RowsOf("history") = plan.db.history.rows BY DEF RowsOf
<1> QED BY <1>1, CallsAssumption, SMTT(60) DEF Pending

(* A session that is refused: its state is put back and its exchange ends. *)
LEMMA RefusedIs ==
  ASSUME NEW x, DOMAIN x = Fields, NEW st
  PROVE  Refusal(x, Refused(x, st), st)
<1> DEFINE i == IF Counts(st) THEN x.i + 1 ELSE x.i
           pc == IF i < max_attempts(x) THEN "gate" ELSE "dropped"
           y == Refused(x, st)
<1>1. y = [[[x EXCEPT !.i = i] EXCEPT !.told = st] EXCEPT !.pc = pc]
  BY DEF Refused
<1> HIDE DEF i, pc
<1>2. /\ DOMAIN y = Fields /\ y.i = i /\ y.pc = pc
      /\ \A f \in Fields \ {"pc", "i", "told"} : y[f] = x[f]
  BY <1>1, ZenonT(60) DEF Fields
<1>3. pc \in {"gate", "dropped"} /\ (pc = "gate" /\ x.loaded => i < MaxAttempts)
  BY DEF pc, max_attempts
<1> HIDE DEF y
<1> QED BY <1>2, <1>3 DEF Refusal, i, y

(* How a request fails. *)
Failure(x, y, st) ==
  /\ DOMAIN y = Fields /\ \A f \in Fields \ {"pc", "i", "told", "view"} : y[f] = x[f]
  /\ x.req.m \in {"HISTORY", "ROUND"} => y.pc = "lobby" /\ y.i = x.i
  /\ x.req.m = "HISTORY" => y.view = [status |-> "UNAVAILABLE"]
  /\ x.req.m # "HISTORY" => y.view = x.view
  /\ x.req.m \notin {"HISTORY", "ROUND"} => Refusal(x, y, st)

(* A session whose statement failed. *)
LEMMA FailedIs ==
  ASSUME NEW x, DOMAIN x = Fields, NEW st
  PROVE  Failure(x, Failed(x, st), st)
<1> DEFINE y == Failed(x, st)
<1>1. CASE x.req.m = "HISTORY"
  <2>1. y = [[x EXCEPT !.pc = "lobby"] EXCEPT !.view = [status |-> "UNAVAILABLE"]]
    BY <1>1 DEF Failed
  <2> HIDE DEF y
  <2>2. Failure(x, y, st) BY <1>1, <2>1, ZenonT(60) DEF Failure, Fields
  <2> QED BY <2>2 DEF y
<1>2. CASE x.req.m = "ROUND"
  <2>1. y = [x EXCEPT !.pc = "lobby"]
    BY <1>2 DEF Failed
  <2> HIDE DEF y
  <2>2. Failure(x, y, st) BY <1>2, <2>1 DEF Failure, Fields
  <2> QED BY <2>2 DEF y
<1>3. CASE x.req.m \notin {"HISTORY", "ROUND"}
  <2>1. y = Refused(x, st)
    BY <1>3 DEF Failed
  <2>2. Refusal(x, y, st)
    BY <2>1, RefusedIs
  <2> HIDE DEF y
  <2>3. Failure(x, y, st) BY <1>3, <2>2 DEF Failure, Fields, Refusal
  <2> QED BY <2>3 DEF y
<1> QED BY <1>1, <1>2, <1>3

(* The end of a request: the next transaction has a new number, and the    *)
(* turn is given back.                                                     *)
Closed(p, x) ==
  /\ DOMAIN s' = Procs /\ DOMAIN s'[p] = Fields
  /\ \A q \in Procs \ {p} : s'[q] = s[q]
  /\ \A f \in Fields \ {"runner", "next", "attempt", "k"} : s'[p][f] = x[f]
  /\ s'[p].k = x.k + 1 /\ s'[p].runner = None /\ s'[p].attempt = 0
  /\ sem' = IF Serialised(s[p].req) THEN [sem EXCEPT ![TableOf(s[p].req)] = @ + 1] ELSE sem

(* A session that ends its exchange with the database. *)
LEMMA DoneIs ==
  ASSUME DOMAIN s = Procs, NEW p \in Procs, NEW x, DOMAIN x = Fields, NEW st, Done(p, x, st)
  PROVE  Closed(p, x) /\ probes' = Probed(p, st)
<1> DEFINE y == [x EXCEPT !.runner = None, !.next = 0, !.attempt = 0, !.k = @ + 1]
<1>1. s' = [s EXCEPT ![p] = y]
  BY DEF Done
<1>2. /\ DOMAIN y = Fields /\ y.runner = None /\ y.k = x.k + 1 /\ y.attempt = 0
      /\ \A f \in Fields \ {"runner", "next", "attempt", "k"} : y[f] = x[f]
  BY ZenonT(60) DEF Fields
<1> HIDE DEF y
<1> QED BY <1>1, <1>2 DEF Closed, Done

Ending(p, st) ==
  /\ Moves(p, {"pc", "i", "told", "view", "runner", "next", "attempt", "k"})
  /\ s'[p].k = s[p].k + 1 /\ s'[p].runner = None /\ s'[p].attempt = 0
  /\ s[p].req.m \in {"HISTORY", "ROUND"} => s'[p].pc = "lobby" /\ s'[p].i = s[p].i
  /\ s[p].req.m = "HISTORY" => s'[p].view = [status |-> "UNAVAILABLE"]
  /\ s[p].req.m # "HISTORY" => s'[p].view = s[p].view
  /\ s[p].req.m \notin {"HISTORY", "ROUND"} =>
       /\ s'[p].pc \in {"gate", "dropped"}
       /\ s'[p].i = IF Counts(st) THEN s[p].i + 1 ELSE s[p].i
       /\ s'[p].pc = "gate" /\ s[p].loaded => s'[p].i < MaxAttempts
  /\ sem' = IF Serialised(s[p].req) THEN [sem EXCEPT ![TableOf(s[p].req)] = @ + 1] ELSE sem
  /\ probes' = Probed(p, st)

(* A session that ends. *)
LEMMA EndsIs ==
  ASSUME SessionsOK, NEW p \in Procs, NEW st, Ends(p, st)
  PROVE  Ending(p, st)
<1> DEFINE y == Failed(s[p], st)
<1>0. DOMAIN s = Procs /\ DOMAIN s[p] = Fields
  BY DEF SessionsOK, SessionOK
<1>1. Failure(s[p], y, st)
  BY <1>0, FailedIs
<1>2. Done(p, y, st)
  BY DEF Ends
<1> HIDE DEF y
<1>3. Closed(p, y) /\ probes' = Probed(p, st)
  BY <1>0, <1>1, <1>2, DoneIs DEF Failure
<1> QED BY <1>1, <1>3 DEF Ending, Closed, Failure, Refusal, Moves, Fields

-----------------------------------------------------------------------------
(* What happens to the rows of a table. *)

(* A row that stays is the same row, or is now committed. *)
Copy(r, x) ==
  /\ DOMAIN x = RowFields
  /\ x.id = r.id /\ x.name = r.name /\ x.data = r.data
  /\ x.by \in {None, r.by}

(* Rows R become Q when the transactions of O end. *)
Thins(R, Q, O) ==
  /\ IsFiniteSet(Q)
  /\ \A x \in Q : \E r \in R : Copy(r, x)
  /\ \A r \in R, x, y \in Q : Copy(r, x) /\ Copy(r, y) => x = y
  /\ \A r \in R : r.by \notin O => \E x \in Q : Copy(r, x) /\ x.by = r.by

(* Rows of transactions in D go, of those in C are committed. *)
Settle(R, C, D) ==
  {IF r.by \in C THEN [r EXCEPT !.by = None] ELSE r : r \in {q \in R : q.by \notin D}}

IsRows(R) == IsFiniteSet(R) /\ \A r \in R : DOMAIN r = RowFields

Distinct(R) == \A r, q \in R : r.id = q.id => r = q

(* Settling rows drops some and keeps the others as they are. *)
LEMMA SettleThins ==
  ASSUME NEW R, IsRows(R), Distinct(R), NEW C, NEW D
  PROVE  Thins(R, Settle(R, C, D), (C \ {None}) \cup D)
<1> DEFINE K == {q \in R : q.by \notin D}
           F == [r \in K |-> IF r.by \in C THEN [r EXCEPT !.by = None] ELSE r]
           Q == {F[r] : r \in K}
<1>1. Settle(R, C, D) = Q
  BY ZenonT(60) DEF Settle
<1>2. IsFiniteSet(K)
  BY FiniteSubset DEF IsRows
<1>3. F \in [K -> Q] /\ \A x \in Q : \E r \in K : F[r] = x
  BY ZenonT(60)
<1>4. IsFiniteSet(Q)
  <2> HIDE DEF F, K, Q
  <2> QED BY <1>2, <1>3, FiniteImage
<1>5. \A r \in K : Copy(r, F[r])
  <2> SUFFICES ASSUME NEW r \in K PROVE Copy(r, F[r])
    OBVIOUS
  <2>1. DOMAIN r = RowFields
    BY DEF IsRows
  <2>2. CASE r.by \in C
    BY <2>1, <2>2 DEF Copy, RowFields
  <2>3. CASE r.by \notin C
    BY <2>1, <2>3 DEF Copy
  <2> QED BY <2>2, <2>3
<1>6. \A r \in R, z \in K : Copy(r, F[z]) => z = r
  <2> SUFFICES ASSUME NEW r \in R, NEW z \in K, Copy(r, F[z]) PROVE z = r
    OBVIOUS
  <2>1. F[z].id = z.id /\ F[z].id = r.id
    BY <1>5 DEF Copy
  <2> QED BY <2>1 DEF Distinct
<1>7. \A r \in R : r.by \notin (C \ {None}) \cup D => r \in K /\ F[r].by = r.by
  <2> SUFFICES ASSUME NEW r \in R, r.by \notin (C \ {None}) \cup D PROVE r \in K /\ F[r].by = r.by
    OBVIOUS
  <2>1. DOMAIN r = RowFields
    BY DEF IsRows
  <2>2. CASE r.by \in C
    BY <2>1, <2>2 DEF RowFields
  <2> QED BY <2>2
<1> HIDE DEF K, F
<1>8. /\ \A x \in Q : \E r \in R : Copy(r, x)
      /\ \A r \in R, x, y \in Q : Copy(r, x) /\ Copy(r, y) => x = y
      /\ \A r \in R : r.by \notin (C \ {None}) \cup D => \E x \in Q : Copy(r, x) /\ x.by = r.by
  <2>1. K \subseteq R BY DEF K
  <2> QED BY <1>5, <1>6, <1>7, <2>1
<1> HIDE DEF Q
<1> QED BY <1>1, <1>4, <1>8 DEF Thins

(* A transaction that commits, one that is rolled back, and the end of the *)
(* JVM, which keeps what some that were committing had written.            *)
DbThins(O) ==
  /\ DOMAIN db' = Tables
  /\ \A tab \in Tables : DOMAIN db'[tab] = {"rows", "pages"} /\ Thins(RowsOf(tab), RowsOf(tab)', O)

(* Every table has distinct rows. *)
LEMMA TablesOK ==
  ASSUME RowsOK, NEW tab \in Tables
  PROVE  IsRows(RowsOf(tab)) /\ Distinct(RowsOf(tab)) /\ DOMAIN db[tab] = {"rows", "pages"}
BY DEF RowsOK, IsRows, Distinct, Tables

(* A commit keeps what its session wrote and takes no other row. *)
LEMMA CommitThins ==
  ASSUME RowsOK, NEW o, o # None, db' = AfterCommit(o)
  PROVE  /\ DbThins({o})
         /\ \A tab \in Tables : \A r \in RowsOf(tab) :
              r.by = o => \E x \in RowsOf(tab)' : Copy(r, x) /\ x.by = None
<1> SUFFICES ASSUME NEW tab \in Tables
             PROVE  /\ DOMAIN db'[tab] = {"rows", "pages"}
                    /\ Thins(RowsOf(tab), RowsOf(tab)', {o})
                    /\ \A r \in RowsOf(tab) : r.by = o => \E x \in RowsOf(tab)' : Copy(r, x) /\ x.by = None
  BY ZenonT(60) DEF DbThins, AfterCommit
<1>0. IsRows(RowsOf(tab)) /\ Distinct(RowsOf(tab)) /\ DOMAIN db[tab] = {"rows", "pages"}
  BY TablesOK
<1>1. db'[tab] = [db[tab] EXCEPT !.rows = {IF r.by = o THEN [r EXCEPT !.by = None] ELSE r : r \in @}]
  BY DEF AfterCommit
<1>2. RowsOf(tab)' = {IF r.by = o THEN [r EXCEPT !.by = None] ELSE r : r \in RowsOf(tab)}
  BY <1>0, <1>1 DEF RowsOf
<1>3. RowsOf(tab)' = Settle(RowsOf(tab), {o}, {})
  BY <1>2 DEF Settle
<1>4. Thins(RowsOf(tab), RowsOf(tab)', ({o} \ {None}) \cup {})
  BY <1>0, <1>3, SettleThins
<1>5. ({o} \ {None}) \cup {} = {o}
  OBVIOUS
<1>6. ASSUME NEW r \in RowsOf(tab), r.by = o
      PROVE  \E x \in RowsOf(tab)' : Copy(r, x) /\ x.by = None
  <2>1. [r EXCEPT !.by = None] \in RowsOf(tab)'
    BY <1>2, <1>6
  <2>2. Copy(r, [r EXCEPT !.by = None]) /\ [r EXCEPT !.by = None].by = None
    BY <1>0 DEF Copy, IsRows, RowFields
  <2> QED BY <2>1, <2>2, ZenonT(60)
<1> QED BY <1>0, <1>1, <1>4, <1>5, <1>6

(* An abort takes back its session's rows only. *)
LEMMA AbortThins ==
  ASSUME RowsOK, NEW o, db' = AfterAbort(o)
  PROVE  DbThins({o})
<1> SUFFICES ASSUME NEW tab \in Tables
             PROVE  /\ DOMAIN db'[tab] = {"rows", "pages"}
                    /\ Thins(RowsOf(tab), RowsOf(tab)', {o})
  BY ZenonT(60) DEF DbThins, AfterAbort
<1>0. IsRows(RowsOf(tab)) /\ Distinct(RowsOf(tab)) /\ DOMAIN db[tab] = {"rows", "pages"}
  BY TablesOK
<1>1. db'[tab] = [db[tab] EXCEPT !.rows = {r \in @ : r.by # o}]
  BY DEF AfterAbort
<1>2. RowsOf(tab)' = {r \in RowsOf(tab) : r.by # o}
  BY <1>0, <1>1 DEF RowsOf
<1>3. RowsOf(tab)' = Settle(RowsOf(tab), {}, {o})
  BY <1>2 DEF Settle
<1>4. Thins(RowsOf(tab), RowsOf(tab)', ({} \ {None}) \cup {o})
  BY <1>0, <1>3, SettleThins
<1>5. ({} \ {None}) \cup {o} = {o}
  OBVIOUS
<1> QED BY <1>0, <1>1, <1>4, <1>5

(* A server that dies takes rows of unfinished statements only. *)
LEMMA LostThins ==
  ASSUME RowsOK, Lost
  PROVE  \E O : DbThins(O) /\ None \notin O
<1>1. PICK kept \in SUBSET Committing :
        db' = [tab \in Tables |->
               [db[tab] EXCEPT !.rows = {[r EXCEPT !.by = None] : r \in {q \in @ : q.by \in kept \cup {None}}}]]
  BY ZenonT(60) DEF Lost
<1> DEFINE D == {r.by : r \in RowsOf("user") \cup RowsOf("history")} \ (kept \cup {None})
           C == kept \cup {None}
<1>2. ASSUME NEW tab \in Tables
      PROVE  DOMAIN db'[tab] = {"rows", "pages"} /\ Thins(RowsOf(tab), RowsOf(tab)', (C \ {None}) \cup D)
  <2>0. IsRows(RowsOf(tab)) /\ Distinct(RowsOf(tab)) /\ DOMAIN db[tab] = {"rows", "pages"}
    BY TablesOK
  <2>1. db'[tab] = [db[tab] EXCEPT !.rows = {[r EXCEPT !.by = None] : r \in {q \in @ : q.by \in kept \cup {None}}}]
    BY <1>1
  <2>2. RowsOf(tab)' = {[r EXCEPT !.by = None] : r \in {q \in RowsOf(tab) : q.by \in C}}
    BY <2>0, <2>1 DEF RowsOf
  <2>3. \A q \in RowsOf(tab) : q.by \in C <=> q.by \notin D
    BY DEF Tables
  <2> HIDE DEF C, D
  <2>4. RowsOf(tab)' = Settle(RowsOf(tab), C, D)
    BY <2>2, <2>3 DEF Settle
  <2>5. Thins(RowsOf(tab), RowsOf(tab)', (C \ {None}) \cup D)
    BY <2>0, <2>4, SettleThins
  <2> QED BY <2>0, <2>1, <2>5
<1>3. DOMAIN db' = Tables
  BY <1>1
<1>4. None \notin (C \ {None}) \cup D
  OBVIOUS
<1> HIDE DEF C, D
<1>5. DbThins((C \ {None}) \cup D)
  BY <1>2, <1>3, ZenonT(60) DEF DbThins
<1> QED BY <1>4, <1>5

-----------------------------------------------------------------------------
(* What each step of a session does to its record. *)

(* auth_conf_load fills in the configuration and nothing else. *)
LEMMA ConfLoads ==
  ASSUME NEW x, DOMAIN x = Fields
  PROVE  /\ DOMAIN auth_conf_load(x) = Fields /\ auth_conf_load(x).loaded
         /\ \A f \in Fields \ {"loaded"} : auth_conf_load(x)[f] = x[f]
BY DEF auth_conf_load, Fields

(* A sign-in is refused, or goes on to the database. *)
Signing(x, z, m) ==
  /\ DOMAIN z = Fields /\ z.loaded /\ z.attempt = 0
  /\ \A f \in Fields \ {"loaded", "user", "attempt", "pc", "i", "told"} : z[f] = x[f]
  /\ \/ z.pc \in {"gate", "dropped"} /\ z.i \in {x.i, x.i + 1} /\ (z.pc = "gate" => z.i < MaxAttempts)
     \/ z.i = x.i /\ z.pc = "open" /\ m = "LOGIN"
     \/ z.i = x.i /\ z.pc = "turn" /\ m = "REGISTER"

(* A session that starts to log in or to register. *)
LEMMA SignInIs ==
  ASSUME NEW x, DOMAIN x = Fields, NEW req, req.m \in {"LOGIN", "REGISTER"}
  PROVE  Signing(x, SignIn(x, req), req.m)
<1> DEFINE user == user_name_fold(req.user)
           c == auth_conf_load(x)
           y == [c EXCEPT !.user = user, !.attempt = 0]
           z == SignIn(x, req)
<1>1. DOMAIN c = Fields /\ c.loaded /\ \A f \in Fields \ {"loaded"} : c[f] = x[f]
  BY ConfLoads
<1>2. \/ z = Refused(y, 400)
      \/ req.m = "LOGIN" /\ z = [y EXCEPT !.pc = "open"]
      \/ req.m = "REGISTER" /\ z = [y EXCEPT !.pc = "turn"]
  BY DEF SignIn
<1> HIDE DEF c, user, z
<1>3. /\ DOMAIN y = Fields /\ y.loaded = c.loaded /\ y.attempt = 0
      /\ \A f \in Fields \ {"user", "attempt"} : y[f] = c[f]
  BY <1>1, ZenonT(60) DEF Fields
<1> HIDE DEF y
<1>4. y.loaded /\ \A f \in Fields \ {"loaded", "user", "attempt"} : y[f] = x[f]
  BY <1>1, <1>3
<1>5. CASE z = Refused(y, 400)
  <2>1. Refusal(y, z, 400)
    BY <1>3, <1>5, RefusedIs
  <2>2. z.loaded = y.loaded /\ z.i = y.i
    BY <2>1 DEF Refusal, Fields, Counts
  <2>3. y.i = x.i BY <1>4 DEF Fields
  <2> QED BY <1>3, <1>4, <2>1, <2>2, <2>3 DEF Signing, Refusal, Fields, z
<1>6. CASE req.m = "LOGIN" /\ z = [y EXCEPT !.pc = "open"]
  <2>1. DOMAIN z = Fields /\ z.pc = "open" /\ \A f \in Fields \ {"pc"} : z[f] = y[f]
    BY <1>3, <1>6 DEF Fields
  <2>2. z.loaded = y.loaded BY <2>1 DEF Fields
  <2> QED BY <1>3, <1>4, <1>6, <2>1, <2>2 DEF Signing, Fields, z
<1>7. CASE req.m = "REGISTER" /\ z = [y EXCEPT !.pc = "turn"]
  <2>1. DOMAIN z = Fields /\ z.pc = "turn" /\ \A f \in Fields \ {"pc"} : z[f] = y[f]
    BY <1>3, <1>7 DEF Fields
  <2>2. z.loaded = y.loaded BY <2>1 DEF Fields
  <2> QED BY <1>3, <1>4, <1>7, <2>1, <2>2 DEF Signing, Fields, z
<1> QED BY <1>2, <1>5, <1>6, <1>7

(* At the gate. *)
Gated(p) ==
  /\ Moves(p, {"req", "pc", "i", "told", "name", "loaded", "user", "attempt"})
  /\ s'[p].req = Head(todo[p]) /\ s'[p].attempt \in Nat
  /\ s[p].loaded => s'[p].loaded
  /\ \/ s'[p].pc = "lobby" /\ s'[p].i = s[p].i
     \/ /\ s'[p].pc \in {"gate", "dropped"} /\ s'[p].i \in {s[p].i, s[p].i + 1}
        /\ s'[p].pc = "gate" /\ s'[p].loaded => s'[p].i < MaxAttempts
     \/ s'[p].i = s[p].i /\ s'[p].loaded /\ s'[p].pc = "open" /\ s'[p].req.m = "LOGIN"
     \/ s'[p].i = s[p].i /\ s'[p].loaded /\ s'[p].pc = "turn" /\ s'[p].req.m = "REGISTER"

(* What auth_session_parser does with a request before login. *)
LEMMA GateIs ==
  ASSUME SessionsOK, NEW p \in Procs, auth_session_parser(p)
  PROVE  Gated(p)
<1> DEFINE req == Head(todo[p])
           x == [s[p] EXCEPT !.req = req]
           z == CASE req.m = "GUEST" -> [x EXCEPT !.pc = "lobby", !.told = 200, !.name = None]
                  [] req.m = "BAD" -> Refused(x, 400)
                  [] req.m \in {"LOGIN", "REGISTER"} -> SignIn(x, req)
                  [] OTHER -> Refused(x, 401)
<1>0. DOMAIN s = Procs /\ DOMAIN s[p] = Fields /\ s[p].attempt \in Nat
  BY DEF SessionsOK, SessionOK
<1>1. s' = [s EXCEPT ![p] = z]
  BY DEF auth_session_parser
<1>2. DOMAIN x = Fields /\ x.req = req /\ \A f \in Fields \ {"req"} : x[f] = s[p][f]
  BY <1>0 DEF Fields
<1>3. /\ x.i = s[p].i /\ x.loaded = s[p].loaded /\ x.attempt = s[p].attempt
  BY <1>2 DEF Fields
<1>4. \/ z = [x EXCEPT !.pc = "lobby", !.told = 200, !.name = None]
      \/ z = Refused(x, 400) \/ z = Refused(x, 401)
      \/ req.m \in {"LOGIN", "REGISTER"} /\ z = SignIn(x, req)
  OBVIOUS
<1> HIDE DEF z, x
<1>5. s'[p] = z /\ DOMAIN s' = Procs /\ \A q \in Procs \ {p} : s'[q] = s[q]
  BY <1>0, <1>1
<1> HIDE DEF req
<1>6. CASE z = [x EXCEPT !.pc = "lobby", !.told = 200, !.name = None]
  <2>1. DOMAIN z = Fields /\ z.pc = "lobby" /\ \A f \in Fields \ {"pc", "told", "name"} : z[f] = x[f]
    BY <1>2, <1>6, ZenonT(60) DEF Fields
  <2>2. z.i = x.i /\ z.loaded = x.loaded /\ z.attempt = x.attempt /\ z.req = x.req
    BY <2>1 DEF Fields
  <2> QED BY <1>0, <1>2, <1>3, <1>5, <2>1, <2>2 DEF Gated, Moves, Fields, req
<1>7. ASSUME NEW st, z = Refused(x, st) PROVE Gated(p)
  <2>1. Refusal(x, z, st)
    BY <1>2, <1>7, RefusedIs
  <2>2. z.loaded = x.loaded /\ z.attempt = x.attempt /\ z.req = x.req
    BY <2>1 DEF Refusal, Fields
  <2>3. z.i \in {x.i, x.i + 1} /\ z.pc \in {"gate", "dropped"} /\ (z.pc = "gate" /\ x.loaded => z.i < MaxAttempts)
    BY <2>1 DEF Refusal
  <2> QED BY <1>0, <1>2, <1>3, <1>5, <2>1, <2>2, <2>3 DEF Gated, Moves, Fields, req, Refusal
<1>8. CASE req.m \in {"LOGIN", "REGISTER"} /\ z = SignIn(x, req)
  <2>1. Signing(x, z, req.m)
    BY <1>2, <1>8, SignInIs
  <2>2. z.req = x.req /\ z.loaded
    BY <2>1 DEF Signing, Fields
  <2> QED BY <1>0, <1>2, <1>3, <1>5, <2>1, <2>2 DEF Gated, Moves, Fields, req, Signing
<1> QED BY <1>4, <1>6, <1>7, <1>8, ZenonT(60)

(* Signed in. *)
Served(p) ==
  /\ Moves(p, {"req", "attempt", "view", "playing", "told", "pc"})
  /\ s'[p].req = Head(todo[p]) /\ s'[p].attempt \in Nat
  /\ \/ s'[p].pc = "lobby" /\ s'[p].view \in {None, [status |-> "GUEST"]}
     \/ s'[p].pc = "turn" /\ s'[p].req.m = "ROUND" /\ s'[p].view = None
     \/ s'[p].pc = "open" /\ s'[p].req.m = "HISTORY" /\ s'[p].view = None

(* A field that is given any value takes it, and the others stay. *)
Sets(x, y, F) == DOMAIN y = Fields /\ \A f \in Fields \ F : y[f] = x[f]

(* A session that notes whether it plays. *)
LEMMA SetPlaying ==
  ASSUME NEW x, DOMAIN x = Fields, NEW b
  PROVE  Sets(x, [x EXCEPT !.playing = b], {"playing"})
BY DEF Sets, Fields

(* A session that stops playing and asks for its turn. *)
LEMMA SetPlayingPc ==
  ASSUME NEW x, DOMAIN x = Fields, NEW y, y = [x EXCEPT !.playing = FALSE, !.pc = "turn"]
  PROVE  Sets(x, y, {"playing", "pc"}) /\ y.pc = "turn"
BY ZenonT(60) DEF Sets, Fields

(* What a session that is signed in does with a request. *)
LEMMA LobbyIs ==
  ASSUME SessionsOK, NEW p \in Procs, SignedIn(p)
  PROVE  Served(p)
<1> DEFINE req == Head(todo[p])
           x == [s[p] EXCEPT !.req = req, !.attempt = 0, !.view = None]
           z == CASE req.m = "PLAY" -> [x EXCEPT !.playing = TRUE]
                  [] req.m = "ROUND" -> [x EXCEPT !.playing = FALSE, !.pc = "turn"]
                  [] req.m = "HISTORY" -> history_offer(x)
                  [] OTHER -> [x EXCEPT !.told = 409]
<1>0. DOMAIN s = Procs /\ DOMAIN s[p] = Fields
  BY DEF SessionsOK, SessionOK
<1>1. s' = [s EXCEPT ![p] = z] /\ s[p].pc = "lobby"
  BY DEF SignedIn
<1>2. /\ DOMAIN x = Fields /\ x.req = req /\ x.attempt = 0 /\ x.view = None
      /\ \A f \in Fields \ {"req", "attempt", "view"} : x[f] = s[p][f]
  BY <1>0, ZenonT(60) DEF Fields
<1>3. \/ z = [x EXCEPT !.playing = TRUE]
      \/ req.m = "ROUND" /\ z = [x EXCEPT !.playing = FALSE, !.pc = "turn"]
      \/ z = [x EXCEPT !.told = 409]
      \/ req.m = "HISTORY" /\ z = [x EXCEPT !.pc = "open"]
      \/ z = [x EXCEPT !.view = [status |-> "GUEST"]]
  BY DEF history_offer
<1> HIDE DEF z, x
<1>4. s'[p] = z /\ DOMAIN s' = Procs /\ \A q \in Procs \ {p} : s'[q] = s[q]
  BY <1>0, <1>1
<1>5. x.pc = "lobby"
  BY <1>1, <1>2 DEF Fields
<1> HIDE DEF req
<1>6. ASSUME Sets(x, z, {"playing", "told"}) PROVE Served(p)
  BY <1>2, <1>4, <1>5, <1>6 DEF Served, Moves, Fields, Sets, req
<1>7. CASE z = [x EXCEPT !.playing = TRUE]
  <2>1. Sets(x, z, {"playing"}) BY <1>2, <1>7, SetPlaying
  <2> QED BY <1>6, <2>1 DEF Sets
<1>8. CASE req.m = "ROUND" /\ z = [x EXCEPT !.playing = FALSE, !.pc = "turn"]
  <2>1. Sets(x, z, {"playing", "pc"}) /\ z.pc = "turn" BY <1>2, <1>8, SetPlayingPc, ZenonT(60)
  <2> QED BY <1>2, <1>4, <1>5, <1>8, <2>1 DEF Served, Moves, Fields, Sets, req
<1>9. CASE z = [x EXCEPT !.told = 409]
  <2>1. Sets(x, z, {"told"}) BY <1>2, <1>9 DEF Sets, Fields
  <2> QED BY <1>6, <2>1 DEF Sets
<1>10. CASE req.m = "HISTORY" /\ z = [x EXCEPT !.pc = "open"]
  <2>1. Sets(x, z, {"pc"}) /\ z.pc = "open" BY <1>2, <1>10 DEF Sets, Fields
  <2> QED BY <1>2, <1>4, <1>5, <1>10, <2>1 DEF Served, Moves, Fields, Sets, req
<1>11. CASE z = [x EXCEPT !.view = [status |-> "GUEST"]]
  <2>1. Sets(x, z, {"view"}) /\ z.view = [status |-> "GUEST"] BY <1>2, <1>11, ZenonT(60) DEF Sets, Fields
  <2> QED BY <1>2, <1>4, <1>5, <2>1 DEF Served, Moves, Fields, Sets, req
<1> QED BY <1>3, <1>7, <1>8, <1>9, <1>10, <1>11, ZenonT(60)

(* A request that waits too long for its turn. *)
LEMMA NoTurnIs ==
  ASSUME SessionsOK, NEW p \in Procs, NoTurn(p), s[p].pc = "turn"
  PROVE  /\ Moves(p, {"pc", "i", "told"}) /\ UNCHANGED sem
         /\ s'[p].i \in {s[p].i, s[p].i + 1} /\ s'[p].pc \in {"gate", "dropped", "lobby"}
         /\ s'[p].pc = "lobby" => s'[p].i = s[p].i
         /\ s'[p].pc = "gate" /\ s[p].loaded => s'[p].i < MaxAttempts
<1> DEFINE y == Failed(s[p], 500)
<1>0. DOMAIN s = Procs /\ DOMAIN s[p] = Fields /\ s[p].req.m \in {"REGISTER", "ROUND"}
  BY DEF SessionsOK, SessionOK
<1>1. Failure(s[p], y, 500)
  BY <1>0, FailedIs
<1>2. s' = [s EXCEPT ![p] = y] /\ UNCHANGED sem
  BY DEF NoTurn
<1> HIDE DEF y
<1> QED BY <1>0, <1>1, <1>2, ZenonT(60) DEF Moves, Failure, Refusal, Fields

(* A step that gives some of a session's fields new values. *)
LEMMA TurnIs ==
  ASSUME SessionsOK, NEW p \in Procs, Turn(p)
  PROVE  Moves(p, {"pc"}) /\ s'[p].pc = "open"
BY DEF SessionsOK, SessionOK, Turn, Moves, Fields

(* A session that opens a connection to a server. *)
LEMMA OpenIs ==
  ASSUME SessionsOK, NEW p \in Procs, NEW l, NEW pc,
         s' = [s EXCEPT ![p].runner = l, ![p].pc = pc]
  PROVE  Moves(p, {"runner", "pc"}) /\ s'[p].runner = l /\ s'[p].pc = pc
BY ZenonT(60) DEF SessionsOK, SessionOK, Moves, Fields

(* A session that tries again. *)
LEMMA RetryIs ==
  ASSUME SessionsOK, NEW p \in Procs, NEW pc,
         s' = [s EXCEPT ![p].attempt = @ + 1, ![p].k = @ + 1, ![p].next = 0, ![p].pc = pc]
  PROVE  /\ Moves(p, {"attempt", "k", "next", "pc"})
         /\ s'[p].attempt = s[p].attempt + 1 /\ s'[p].k = s[p].k + 1 /\ s'[p].pc = pc
BY DEF SessionsOK, SessionOK, Moves, Fields

(* A session that goes on to its next row. *)
LEMMA NextPcIs ==
  ASSUME SessionsOK, NEW p \in Procs, NEW n, NEW pc, s' = [s EXCEPT ![p].next = n, ![p].pc = pc]
  PROVE  Moves(p, {"next", "pc"}) /\ s'[p].next = n /\ s'[p].pc = pc
BY ZenonT(60) DEF SessionsOK, SessionOK, Moves, Fields

(* A session that goes on. *)
LEMMA PcIs ==
  ASSUME SessionsOK, NEW p \in Procs, NEW pc, s' = [s EXCEPT ![p].pc = pc]
  PROVE  Moves(p, {"pc"}) /\ s'[p].pc = pc
BY DEF SessionsOK, SessionOK, Moves, Fields

(* A session that goes on with a new view of the scores. *)
LEMMA PcViewIs ==
  ASSUME SessionsOK, NEW p \in Procs, NEW pc, NEW v, s' = [s EXCEPT ![p].pc = pc, ![p].view = v]
  PROVE  Moves(p, {"pc", "view"}) /\ s'[p].pc = pc /\ s'[p].view = v
BY ZenonT(60) DEF SessionsOK, SessionOK, Moves, Fields

(* A session that goes on and lets its connection go. *)
LEMMA PcRunnerIs ==
  ASSUME SessionsOK, NEW p \in Procs, NEW pc, s' = [s EXCEPT ![p].pc = pc, ![p].runner = None]
  PROVE  Moves(p, {"pc", "runner"}) /\ s'[p].pc = pc /\ s'[p].runner = None
BY ZenonT(60) DEF SessionsOK, SessionOK, Moves, Fields

-----------------------------------------------------------------------------
(* One part of the invariant after the other. *)

(* Only the session that steps has to be looked at. *)
LEMMA OneSession ==
  ASSUME SessionsOK, NEW p \in Procs, NEW F, Moves(p, F), SessionOK(p)'
  PROVE  SessionsOK'
<1>1. \A q \in Procs \ {p} : SessionOK(q)'
  BY DEF SessionsOK, SessionOK, Moves
<1> QED BY <1>1 DEF SessionsOK, Moves

(* Turns: a session that takes none has none more, *)
LEMMA TurnsKept ==
  ASSUME TurnsOK, NEW p \in Procs, NEW F, Moves(p, F), sem' = sem,
         \A tab \in Tables : Holds(p, tab)' => Holds(p, tab)
  PROVE  TurnsOK'
<1>1. \A q \in Procs, tab \in Tables : Holds(q, tab)' => Holds(q, tab)
  BY DEF Moves, Holds
<1> HIDE DEF Holds
<1> QED BY <1>1, ZenonT(60) DEF TurnsOK

(* one that takes it found it free, *)
LEMMA TurnTaken ==
  ASSUME TurnsOK, SessionsOK, NEW p \in Procs, Turn(p)
  PROVE  TurnsOK'
<1> DEFINE t == TableOf(s[p].req)
<1>1. Moves(p, {"pc"})
  BY TurnIs
<1>2. t \in Tables /\ sem[t] = 1 /\ sem' = [sem EXCEPT ![t] = 0]
  <2>1. t \in Tables BY DEF TableOf, Tables
  <2>2. sem[t] > 0 /\ sem' = [sem EXCEPT ![t] = @ - 1] BY DEF Turn
  <2> HIDE DEF t
  <2>3. sem[t] = 1 BY <2>1, <2>2 DEF TurnsOK
  <2> QED BY <2>1, <2>2, <2>3
<1>3. \A tab \in Tables : Holds(p, tab)' => tab = t
  BY <1>1 DEF Moves, Holds, TableOf, Fields
<1>4. \A q \in Procs \ {p}, tab \in Tables : Holds(q, tab)' => Holds(q, tab)
  BY <1>1 DEF Moves, Holds
<1> HIDE DEF Holds, t
<1> QED BY <1>2, <1>3, <1>4 DEF TurnsOK

(* and one that gives it back had it. *)
LEMMA TurnGiven ==
  ASSUME TurnsOK, NEW p \in Procs, NEW F, Moves(p, F),
         \A tab \in Tables : ~Holds(p, tab)',
         Serialised(s[p].req) => Holds(p, TableOf(s[p].req)),
         sem' = IF Serialised(s[p].req) THEN [sem EXCEPT ![TableOf(s[p].req)] = @ + 1] ELSE sem
  PROVE  TurnsOK'
<1> DEFINE t == TableOf(s[p].req)
<1>0. t \in Tables
  BY DEF TableOf, Tables
<1>1. \A q \in Procs \ {p}, tab \in Tables : Holds(q, tab)' => Holds(q, tab)
  BY DEF Moves, Holds
<1>2. CASE Serialised(s[p].req)
  <2>1. Holds(p, t) /\ sem' = [sem EXCEPT ![t] = @ + 1]
    BY <1>2
  <2> HIDE DEF t, Holds
  <2>2. sem[t] = 0 /\ \A q \in Procs \ {p} : ~Holds(q, t)
    BY <1>0, <2>1 DEF TurnsOK
  <2> QED BY <1>0, <1>1, <2>1, <2>2 DEF TurnsOK
<1>3. CASE ~Serialised(s[p].req)
  <2> HIDE DEF Holds
  <2> QED BY <1>1, <1>3, ZenonT(60) DEF TurnsOK
<1> QED BY <1>2, <1>3, ZenonT(60)

(* Rows: what ends leaves fewer, *)
LEMMA RowsThinned ==
  ASSUME RowsOK, NEW O, DbThins(O)
  PROVE  RowsOK'
<1>1. ASSUME NEW tab \in Tables
      PROVE  /\ DOMAIN db'[tab] = {"rows", "pages"}
             /\ IsFiniteSet(RowsOf(tab)')
             /\ \A x \in RowsOf(tab)' : DOMAIN x = RowFields /\ \E r \in RowsOf(tab) : Copy(r, x)
             /\ \A r \in RowsOf(tab), x, y \in RowsOf(tab)' : Copy(r, x) /\ Copy(r, y) => x = y
  BY ZenonT(60) DEF DbThins, Thins, Copy
<1>2. \A tab \in Tables : \A x \in RowsOf(tab)' : x.id \in Nat
  BY <1>1 DEF RowsOK, Copy
<1>3. \A x \in RowsOf("history")' : x.data \in Nat
  BY <1>1, ZenonT(60) DEF RowsOK, Copy, Tables
<1>4. ASSUME NEW x \in RowsOf("user")', NEW y \in RowsOf("user")', x.name = y.name \/ x.id = y.id
      PROVE  x = y
  <2>1. PICK r \in RowsOf("user") : Copy(r, x) BY <1>1 DEF Tables
  <2>2. PICK q \in RowsOf("user") : Copy(q, y) BY <1>1, ZenonT(60) DEF Tables
  <2>3. r = q BY <1>4, <2>1, <2>2, ZenonT(60) DEF Copy, RowsOK
  <2> QED BY <1>1, <2>1, <2>2, <2>3, ZenonT(60) DEF Tables
<1>5. ASSUME NEW x \in RowsOf("history")', NEW y \in RowsOf("history")', x.data = y.data \/ x.id = y.id
      PROVE  x = y
  <2>1. PICK r \in RowsOf("history") : Copy(r, x) BY <1>1 DEF Tables
  <2>2. PICK q \in RowsOf("history") : Copy(q, y) BY <1>1, ZenonT(60) DEF Tables
  <2>3. r = q BY <1>5, <2>1, <2>2 DEF Copy, RowsOK
  <2> QED BY <1>1, <2>1, <2>2, <2>3, ZenonT(60) DEF Tables
<1> QED BY <1>1, <1>2, <1>3, <1>4, <1>5, ZenonT(60) DEF RowsOK, DbThins

(* A step that leaves the tables alone takes no row. *)
LEMMA Unthinned ==
  ASSUME RowsOK, db' = db
  PROVE  DbThins({})
<1> SUFFICES ASSUME NEW tab \in Tables PROVE Thins(RowsOf(tab), RowsOf(tab)', {})
  BY DEF DbThins, RowsOK
<1>1. RowsOf(tab)' = RowsOf(tab) BY DEF RowsOf
<1>2. IsRows(RowsOf(tab)) /\ Distinct(RowsOf(tab)) BY TablesOK
<1>3. \A r \in RowsOf(tab) : Copy(r, r) BY <1>2 DEF IsRows, Copy
<1>4. \A r, x \in RowsOf(tab) : Copy(r, x) => x = r BY <1>2, ZenonT(60) DEF Distinct, Copy
<1> HIDE DEF Copy
<1> QED BY <1>1, <1>2, <1>3, <1>4, ZenonT(60) DEF Thins, IsRows

(* The database a step of p leaves, when what p had open may have ended. *)
LEMMA ThinsMore ==
  ASSUME NEW O, NEW P, O \subseteq P, DbThins(O)
  PROVE  DbThins(P)
BY DEF DbThins, Thins

(* Ids stay below the next one. *)
LEMMA AheadThinned ==
  ASSUME AheadOK, NEW O, DbThins(O), \A q \in Procs : s'[q] = s[q] \/ Ahead(q)'
  PROVE  AheadOK'
<1>1. \A tab \in Tables : \A x \in db'[tab].rows : \E r \in db[tab].rows : x.id = r.id /\ x.name = r.name
  BY SMTT(60) DEF DbThins, Thins, Copy, RowsOf
<1>2. ASSUME NEW q \in Procs, s'[q] = s[q] PROVE Ahead(q)'
  <2>2. TableOf(s[q].req) \in Tables /\ "user" \in Tables BY DEF TableOf, Tables
  <2>3. Ahead(q) BY DEF AheadOK
  <2>4. PICK n : n = TableOf(s[q].req) OBVIOUS
  <2> HIDE DEF TableOf
  <2>5. s[q].pc \in {"exists", "insert"} =>
          s[q].next \in Nat /\ \A r \in db'[n].rows : r.id < s[q].next
    BY <1>1, <2>2, <2>3, <2>4, ZenonT(60) DEF Ahead, RowsOf
  <2>6. s[q].pc = "insert" /\ s[q].req.m = "REGISTER" => \A r \in db'["user"].rows : r.name # s[q].user
    BY <1>1, <2>2, <2>3, ZenonT(60) DEF Ahead, RowsOf
  <2> QED BY <1>2, <2>4, <2>5, <2>6 DEF Ahead, RowsOf
<1> QED BY <1>2, ZenonT(60) DEF AheadOK

(* Rounds: a session that records none anew, *)
LEMMA RoundsThinned ==
  ASSUME RoundsOK, NEW O, DbThins(O), todo' = todo,
         \A q \in Procs :
           /\ s'[q].req = s[q].req
           /\ s[q].req.m = "ROUND" /\ s'[q].pc \in Unrecorded => s[q].pc \in Unrecorded
  PROVE  RoundsOK'
<1>1. \A x \in RowsOf("history")' : \E r \in RowsOf("history") : x.data = r.data
  BY ZenonT(60) DEF DbThins, Thins, Copy, RowsOf, Tables
<1> HIDE DEF RowsOf
<1>4. ASSUME NEW q \in Procs PROVE Ongoing(q)'
  <2>1. Ongoing(q) BY DEF RoundsOK
  <2> QED BY <1>1, <2>1 DEF Ongoing
<1>5. ASSUME NEW q \in Procs, NEW i \in DOMAIN todo[q] PROVE Pending(q, i)'
  <2>1. Pending(q, i) BY DEF RoundsOK
  <2> QED BY <1>1, <2>1 DEF Pending
<1> QED BY <1>4, <1>5, ZenonT(60) DEF RoundsOK

(* one whose client asks for something, *)
LEMMA TailOf ==
  ASSUME NEW S, NEW t \in Seq(S), t # <<>>
  PROVE  /\ Head(t) = t[1] /\ 1 \in DOMAIN t /\ Tail(t) \in Seq(S)
         /\ \A i \in DOMAIN Tail(t) : /\ i \in Nat /\ i + 1 \in DOMAIN t /\ i + 1 # 1
                                      /\ Tail(t)[i] = t[i + 1]
OBVIOUS

(* A request that is received is no longer to come. *)
LEMMA RoundReceived ==
  ASSUME RoundsOK, NEW p \in Procs, NEW F, Moves(p, F), db' = db, Receives(p),
         s'[p].req = Head(todo[p])
  PROVE  RoundsOK'
<1> DEFINE t == todo[p]
<1>0. t \in Seq(Requests) /\ t # <<>> /\ todo' = [todo EXCEPT ![p] = Tail(t)] /\ DOMAIN todo = Procs
  BY DEF RoundsOK, Receives
<1>1. /\ Head(t) = t[1] /\ 1 \in DOMAIN t /\ Tail(t) \in Seq(Requests)
      /\ \A i \in DOMAIN Tail(t) : i \in Nat /\ i + 1 \in DOMAIN t /\ i + 1 # 1 /\ Tail(t)[i] = t[i + 1]
  BY <1>0, TailOf
<1>2. todo' \in [Procs -> Seq(Requests)]
  BY <1>0, <1>1 DEF RoundsOK
<1>3. todo'[p] = Tail(t) /\ \A q \in Procs \ {p} : todo'[q] = todo[q]
  BY <1>0
<1>4. s'[p].req = t[1] /\ \A q \in Procs \ {p} : s'[q] = s[q]
  BY <1>1 DEF Moves
<1>5. RowsOf("history")' = RowsOf("history")
  BY DEF RowsOf
(* Where each request still to come was before. *)
<1> DEFINE Was(q, i) == IF q = p THEN i + 1 ELSE i
<1>6. \A q \in Procs : \A i \in DOMAIN todo'[q] :
        /\ i \in Nat /\ Was(q, i) \in DOMAIN todo[q] /\ todo'[q][i] = todo[q][Was(q, i)]
        /\ <<q, Was(q, i)>> # <<p, 1>>
  <2> SUFFICES ASSUME NEW q \in Procs, NEW i \in DOMAIN todo'[q]
               PROVE  /\ i \in Nat /\ Was(q, i) \in DOMAIN todo[q] /\ todo'[q][i] = todo[q][Was(q, i)]
                      /\ <<q, Was(q, i)>> # <<p, 1>>
    OBVIOUS
  <2>1. CASE q = p BY <1>1, <1>3, <2>1, ZenonT(60)
  <2>2. CASE q # p
    <3>1. todo[q] \in Seq(Requests) BY DEF RoundsOK
    <3> QED BY <1>3, <2>2, <3>1
  <2> QED BY <2>1, <2>2, ZenonT(60)
<1>7. \A q \in Procs : \A i, j \in Nat : Was(q, i) = Was(q, j) => i = j
  OBVIOUS
<1>8. \A q \in Procs : \A i \in DOMAIN todo[q] : Pending(q, i)
  BY DEF RoundsOK
<1> HIDE DEF Was, t
<1>9. ASSUME NEW q \in Procs, NEW i \in DOMAIN todo'[q] PROVE Pending(q, i)'
  <2> DEFINE n == todo'[q][i].call
  <2>0. SUFFICES ASSUME todo'[q][i].m = "ROUND" PROVE
          /\ n \in Nat
          /\ \A r \in RowsOf("history")' : r.data # n
          /\ \A w \in Procs : s'[w].req.m = "ROUND" => s'[w].req.call # n
          /\ \A w \in Procs : \A j \in DOMAIN todo'[w] :
               todo'[w][j].m = "ROUND" /\ todo'[w][j].call = n => w = q /\ j = i
    BY ZenonT(60) DEF Pending
  <2>1. Pending(q, Was(q, i)) BY <1>6, <1>8, ZenonT(60)
  <2>2. todo[q][Was(q, i)].m = "ROUND" /\ n = todo[q][Was(q, i)].call BY <1>6, <2>0, ZenonT(60)
  <2>3. n \in Nat /\ \A r \in RowsOf("history")' : r.data # n BY <1>5, <2>1, <2>2, ZenonT(60) DEF Pending
  <2>4. \A w \in Procs : \A j \in DOMAIN todo[w] :
          todo[w][j].m = "ROUND" /\ todo[w][j].call = n => w = q /\ j = Was(q, i)
    BY <2>1, <2>2, ZenonT(60) DEF Pending
  <2>5. \A w \in Procs : s[w].req.m = "ROUND" => s[w].req.call # n
    BY <2>1, <2>2, ZenonT(60) DEF Pending
  <2> HIDE DEF n
  <2>6. ASSUME t[1].m = "ROUND" PROVE t[1].call # n
    BY <1>1, <1>6, <2>4, <2>6, ZenonT(60) DEF t
  <2>7. \A w \in Procs : s'[w].req.m = "ROUND" => s'[w].req.call # n
    BY <1>4, <2>5, <2>6, ZenonT(60)
  <2>8. ASSUME NEW w \in Procs, NEW j \in DOMAIN todo'[w], todo'[w][j].m = "ROUND", todo'[w][j].call = n
        PROVE  w = q /\ j = i
    <3>1. w = q /\ Was(w, j) = Was(q, i) BY <1>6, <2>4, <2>8
    <3> QED BY <1>6, <1>7, <3>1, ZenonT(60)
  <2> QED BY <2>3, <2>7, <2>8, ZenonT(60)
<1>10. ASSUME NEW q \in Procs PROVE Ongoing(q)'
  <2>1. Pending(p, 1) BY <1>1, <1>8, ZenonT(60) DEF t
  <2>2. CASE q = p
    BY <1>4, <1>5, <2>1, <2>2, ZenonT(60) DEF Ongoing, Pending, t
  <2>3. CASE q # p
    <3>1. Ongoing(q) BY ZenonT(60) DEF RoundsOK
    <3> QED BY <1>4, <1>5, <2>1, <2>3, <3>1, ZenonT(60) DEF Ongoing, Pending, t
  <2> QED BY <2>2, <2>3
<1> QED BY <1>2, <1>9, <1>10 DEF RoundsOK

(* Owners: a transaction that is no longer its session's current one stays *)
(* so.                                                                     *)
LEMMA OwnersThinned ==
  ASSUME OwnersOK, SessionsOK, NEW O, DbThins(O),
         \A q \in Procs : \/ s'[q] = s[q]
                          \/ s'[q].k = s[q].k + 1
                          \/ s'[q].k = s[q].k /\ (s[q].pc \notin {"commit", "killed"} \/ s'[q].pc = "killed"),
         \A e \in late' : e \in late \/ Owner(e.own, {"killed"})'
  PROVE  OwnersOK'
<1>0. \A q \in Procs : s[q].k \in Nat
  BY ZenonT(60) DEF SessionsOK, SessionOK
<1>1. ASSUME NEW o, NEW live \in {{"killed"}, {"commit", "killed"}}, Owner(o, live)
      PROVE  Owner(o, live)'
  <2>1. PICK q \in Procs, k \in Nat : o = <<q, k>> /\ k <= s[q].k /\ (k = s[q].k => s[q].pc \in live)
    BY <1>1 DEF Owner
  <2>2. k <= s'[q].k /\ (k = s'[q].k => s'[q].pc \in live)
    BY <1>0, <2>1
  <2> QED BY <2>1, <2>2, ZenonT(60) DEF Owner
<1> HIDE DEF Owner
<1>2. \A tab \in Tables : \A x \in RowsOf(tab)' : \E r \in RowsOf(tab) : x.by \in {None, r.by}
  BY ZenonT(60) DEF DbThins, Thins, Copy
<1>3. \A tab \in Tables : \A x \in RowsOf(tab)' : x.by = None \/ Owner(x.by, {"commit", "killed"})'
  BY <1>1, <1>2, ZenonT(60) DEF OwnersOK
<1>4. \A e \in late' : Owner(e.own, {"killed"})'
  BY <1>1, ZenonT(60) DEF OwnersOK
<1> QED BY <1>3, <1>4, ZenonT(60) DEF OwnersOK

(* Rows of other transactions stay. *)
DbKeeps(O) ==
  /\ None \notin O
  /\ \A tab \in Tables : \A r \in RowsOf(tab) :
       r.by \notin O => \E x \in RowsOf(tab)' : Copy(r, x) /\ x.by = r.by

(* What a settled statement leaves keeps every account. *)
LEMMA ThinsKeeps ==
  ASSUME NEW O, None \notin O, DbThins(O)
  PROVE  DbKeeps(O)
BY DEF DbThins, Thins, DbKeeps

(* An account that is there stays there. *)
LEMMA AccountStays ==
  ASSUME NEW O, DbKeeps(O), NEW id, NEW name, Account(id, name)
  PROVE  Account(id, name)'
<1>1. PICK r \in RowsOf("user") : r.by = None /\ r.id = id /\ r.name = name
  BY DEF Account, Committed
<1>2. PICK x \in RowsOf("user")' : Copy(r, x) /\ x.by = None
  BY <1>1 DEF DbKeeps, Tables
<1> QED BY <1>1, <1>2 DEF Account, Committed, Copy

(* What holds of a client still does when the client has not moved, the    *)
(* secret is the same, if it was a whole one, and its connection is no     *)
(* better than it was.                                                     *)
LEMMA ClientStays ==
  ASSUME NEW O, DbKeeps(O), NEW q \in Procs, s'[q] = s[q], probes'[q] = probes[q],
         secret \in Launchers => secret' = secret,
         Connected(q)' => Connected(q) /\ (s[q].pc # "killed" => Txn(q) \notin O),
         Token(q), Probe(q), View(q)
  PROVE  Token(q)' /\ Probe(q)' /\ View(q)'
<1>1. \A id, name : Account(id, name) => Account(id, name)'
  BY AccountStays, ZenonT(60)
<1>2. ASSUME s[q].pc = "commit", s[q].req.m = "REGISTER", Connected(q)'
      PROVE  \E r \in RowsOf("user")' : r.by = Txn(q)' /\ r.id = s'[q].next /\ r.name = s'[q].user
  <2>1. PICK r \in RowsOf("user") : r.by = Txn(q) /\ r.id = s[q].next /\ r.name = s[q].user
    BY <1>2, ZenonT(60) DEF Token
  <2>2. PICK x \in RowsOf("user")' : Copy(r, x) /\ x.by = r.by
    BY <1>2, <2>1, ZenonT(60) DEF DbKeeps, Tables
  <2>3. Txn(q)' = Txn(q) BY ZenonT(60) DEF Txn
  <2> QED BY <2>1, <2>2, <2>3, ZenonT(60) DEF Copy
<1>3. Token(q)'
  <2>1. s[q].token # None =>
          Account(s[q].token.sub, s[q].token.name)' /\ s[q].token.key = secret' /\ secret' \in Launchers
    BY <1>1, ZenonT(60) DEF Token
  <2>2. s[q].pc = "mint" => Account(s[q].id, s[q].user)'
    BY <1>1, ZenonT(60) DEF Token
  <2> HIDE DEF Account, Connected
  <2> QED BY <1>2, <2>1, <2>2, ZenonT(60) DEF Token, Account, Connected
<1>4. Probe(q)'
  BY ZenonT(60) DEF Probe
<1>5. ASSUME Connected(q)', s[q].pc # "killed" PROVE {r.data : r \in Mine(q)} \subseteq {r.data : r \in Mine(q)'}
  <2> SUFFICES ASSUME NEW r \in Mine(q) PROVE \E x \in Mine(q)' : x.data = r.data
    BY ZenonT(60)
  <2>1. r \in RowsOf("history") /\ r.by \in {None, Txn(q)} /\ r.name = s[q].name
    BY ZenonT(60) DEF Mine, Visible
  <2>2. PICK x \in RowsOf("history")' : Copy(r, x) /\ x.by = r.by
    BY <1>5, <2>1, ZenonT(60) DEF DbKeeps, Tables
  <2>3. Txn(q)' = Txn(q) BY ZenonT(60) DEF Txn
  <2>4. x.by \in {None, Txn(q)'} /\ x.name = s'[q].name /\ x.data = r.data
    BY <2>1, <2>2, <2>3, ZenonT(60) DEF Copy
  <2>5. x \in Mine(q)' BY <2>2, <2>4 DEF Mine, Visible
  <2> QED BY <2>4, <2>5, ZenonT(60)
<1>6. View(q)'
  <2> HIDE DEF Connected, Mine
  <2> QED BY <1>5, ZenonT(60) DEF View
<1> QED BY <1>3, <1>4, <1>6, ZenonT(60)

(* No transaction is None. *)
LEMMA TxnIs ==
  ASSUME SessionsOK, NEW p \in Procs
  PROVE  Txn(p) # None /\ \A q \in Procs : Txn(q) = Txn(p) => q = p
BY ConfAssumption DEF SessionsOK, SessionOK, Txn

(* A step that no launcher takes keeps what is known of them. *)
LEMMA LaunchStill ==
  ASSUME LaunchInv, SecretOK, UNCHANGED launchVars
  PROVE  LaunchInv' /\ SecretOK'
BY ZenonT(60) DEF launchVars, LaunchInv, LaunchTypeOK, HoldersLock, StopsOnly, Holding, FileOpen, JvmAlive, SecretOK

(* A step of session p keeps the invariant when its own part is kept, the  *)
(* turns and the rounds are, and no transaction but its own has ended.     *)
LEMMA SessionKeeps ==
  ASSUME GateInv, NEW p \in Procs, NEW F, Moves(p, F), UNCHANGED launchVars, DbThins({Txn(p)}),
         SessionOK(p)', TurnsOK', RoundsOK', Ahead(p)',
         \/ s'[p].k = s[p].k + 1
         \/ s'[p].k = s[p].k /\ (s[p].pc \notin {"commit", "killed"} \/ s'[p].pc = "killed"),
         \A e \in late' : e \in late \/ Owner(e.own, {"killed"})',
         DOMAIN probes' = Procs, \A q \in Procs \ {p} : probes'[q] = probes[q],
         Runner(p)', Token(p)', Probe(p)', View(p)'
  PROVE  GateInv'
<1>0. \A q \in Procs \ {p} : s'[q] = s[q]
  BY ZenonT(60) DEF Moves
<1>1. LaunchInv' /\ SecretOK'
  BY LaunchStill, ZenonT(60) DEF GateInv
<1>2. SessionsOK'
  BY OneSession, ZenonT(60) DEF GateInv
<1>3. RowsOK'
  BY RowsThinned, ZenonT(60) DEF GateInv
<1>4. AheadOK'
  BY <1>0, AheadThinned, ZenonT(60) DEF GateInv
<1>5. OwnersOK'
  <2>1. \A q \in Procs : \/ s'[q] = s[q]
                         \/ s'[q].k = s[q].k + 1
                         \/ s'[q].k = s[q].k /\ (s[q].pc \notin {"commit", "killed"} \/ s'[q].pc = "killed")
    BY <1>0, ZenonT(60)
  <2> QED BY <2>1, OwnersThinned, ZenonT(60) DEF GateInv
<1>6. ASSUME NEW q \in Procs \ {p}
      PROVE  Runner(q)' /\ Token(q)' /\ Probe(q)' /\ View(q)'
  <2>1. Runner(q) /\ Token(q) /\ Probe(q) /\ View(q)
    BY ZenonT(60) DEF GateInv, ClientsOK
  <2>2. Txn(p) # None /\ Txn(q) # Txn(p)
    BY TxnIs, ZenonT(60) DEF GateInv
  <2>3. DbKeeps({Txn(p)})
    BY <2>2, ThinsKeeps, ZenonT(60)
  <2>4. jvm' = jvm /\ secret' = secret
    BY ZenonT(60) DEF launchVars
  <2>5. Connected(q)' => Connected(q) /\ Txn(q) \notin {Txn(p)}
    BY <1>0, <2>2, <2>4, ZenonT(60) DEF Connected
  <2>6. s'[q] = s[q] /\ probes'[q] = probes[q]
    BY <1>0, ZenonT(60)
  <2>7. Token(q)' /\ Probe(q)' /\ View(q)'
    BY <2>1, <2>3, <2>4, <2>5, <2>6, ClientStays, ZenonT(60)
  <2> QED BY <2>1, <2>4, <2>6, <2>7, ZenonT(60) DEF Runner
<1>7. ClientsOK'
  BY <1>6, ZenonT(60) DEF ClientsOK
<1> QED BY <1>1, <1>2, <1>3, <1>4, <1>5, <1>7, ZenonT(60) DEF GateInv

-----------------------------------------------------------------------------
(* One step of a session after the other. *)

(* What the invariant says of one session. *)
LEMMA OfSession ==
  ASSUME GateInv, NEW p \in Procs
  PROVE  /\ SessionOK(p) /\ Ahead(p) /\ Runner(p) /\ Token(p) /\ Probe(p) /\ View(p) /\ Ongoing(p)
         /\ DOMAIN probes = Procs /\ SessionsOK
BY DEF GateInv, SessionsOK, AheadOK, ClientsOK, RoundsOK

(* A step that leaves the database and what was probed alone. *)
Idle == UNCHANGED <<launchVars, dbVars, probes>>

(* A step outside the database takes no row. *)
LEMMA IdleThins ==
  ASSUME GateInv, Idle, NEW O
  PROVE  DbThins(O)
<1>1. DbThins({})
  BY Unthinned, ZenonT(60) DEF GateInv, Idle, dbVars
<1> QED BY <1>1, ThinsMore

(* Tokens do not change but when one is handed out; accounts stay. *)
LEMMA TokenStays ==
  ASSUME GateInv, NEW O, DbKeeps(O), NEW p \in Procs, UNCHANGED launchVars,
         s'[p].token = s[p].token, s'[p].pc \notin {"mint", "commit"}
  PROVE  Token(p)'
<1>1. \A id, name : Account(id, name) => Account(id, name)'
  BY AccountStays, ZenonT(60)
<1>2. Token(p)
  BY OfSession
<1>3. secret' = secret
  BY ZenonT(60) DEF launchVars
<1>4. s[p].token # None =>
        Account(s[p].token.sub, s[p].token.name)' /\ s[p].token.key = secret' /\ secret' \in Launchers
  BY <1>1, <1>2, <1>3 DEF Token
<1> HIDE DEF Account
<1> QED BY <1>4 DEF Token, Account

=============================================================================
