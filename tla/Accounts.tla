------------------------------ MODULE Accounts ------------------------------
(***************************************************************************)
(* What a game session process asks of the database: the sign-in gate of   *)
(* libtetrisauth (GUEST, LOGIN, REGISTER), the row written at the end of a *)
(* round and the player's history, over libtetrisdb's socket client, while *)
(* bin/tetrisdb starts and stops the database (Tetrisdb).  The database is *)
(* modelled from its locking rules: a statement is atomic, pages are       *)
(* locked to the end of the transaction, and a table that is full grows by *)
(* a page nobody else has locked.                                          *)
(***************************************************************************)
EXTENDS Tetrisdb, FiniteSetsExt

CONSTANTS Procs,           \* session processes
          Plans,           \* what clients and operators do, and how much may fail
          MaxAttempts,     \* auth_max_attempts in the configuration
          DefaultAttempts, \* its value before the configuration is loaded
          TxnAttempts,     \* TXN_ATTEMPTS
          PageSlots,       \* rows on a page
          BodyRows,        \* rows that fit in a reply's body
          Fold             \* the account name a typed name stands for, None when it has none

Tables == {"user", "history"}

RowFields == {"page", "id", "name", "data", "by"}

Requests == UNION {UNION {{plan.todo[p][j] : j \in DOMAIN plan.todo[p]} : p \in Procs} : plan \in Plans}

(* A transaction, a process and a number, is not None. *)
ASSUME ConfAssumption ==
  None \notin Procs \X Nat /\ MaxAttempts \in Nat \ {0} /\ DefaultAttempts \in Nat

(* A plan says which launcher, if any, has already started the database,   *)
(* what clients ask, and what an earlier run has left in the database.     *)
ASSUME PlansAssumption ==
  \A plan \in Plans :
    /\ plan.cmds \in [Launchers -> {"first", "start", "stop", "idle"}]
    /\ \A l, k \in Launchers : plan.cmds[l] = "first" /\ plan.cmds[k] = "first" => l = k

(* Calls of history_db_insert are told apart by their number, which stands *)
(* for what they store.  A round may make more than one (two results for   *)
(* one round, module GameServer), so calls are not rounds.                 *)
ASSUME CallsAssumption ==
  \A plan \in Plans :
    /\ plan.todo \in [Procs -> Seq(Requests)]
    /\ \A p \in Procs : \A i \in DOMAIN plan.todo[p] :
         plan.todo[p][i].m = "ROUND" =>
           /\ plan.todo[p][i].call \in Nat
           /\ \A r \in plan.db.history.rows : r.data # plan.todo[p][i].call
           /\ \A q \in Procs : \A j \in DOMAIN plan.todo[q] :
                plan.todo[q][j].m = "ROUND" /\ plan.todo[q][j].call = plan.todo[p][i].call
                  => q = p /\ j = i

ASSUME StoredAssumption ==
  \A plan \in Plans :
    /\ DOMAIN plan.db = Tables
    /\ \A tab \in Tables :
         /\ DOMAIN plan.db[tab] = {"rows", "pages"}
         /\ IsFiniteSet(plan.db[tab].rows)
         /\ \A r \in plan.db[tab].rows : DOMAIN r = RowFields /\ r.by = None /\ r.id \in Nat
    /\ \A r, q \in plan.db.user.rows : r.name = q.name \/ r.id = q.id => r = q
    /\ \A r, q \in plan.db.history.rows : r.data = q.data \/ r.id = q.id => r = q
    /\ \A r \in plan.db.history.rows : r.data \in Nat

VARIABLES
  s,       \* each session process
  todo,    \* the requests its client has yet to send
  sem,     \* the named semaphores that serialise inserts, one per table
  db,      \* per table its rows and its number of pages
  shared,  \* read locks of open transactions: <<transaction, table, page>>
  late,    \* statements whose client no longer waits for them
  probes   \* ghost: refusals that told a client something about an account

dbVars   == <<db, shared, late>>
sessVars == <<s, todo, sem, probes>>
vars     == <<launchVars, faults, sessVars, dbVars>>

(* sem_acquire and reg_acquire each use the semaphore of their table. *)
TableOf(req) == IF req.m \in {"LOGIN", "REGISTER"} THEN "user" ELSE "history"

Txn(p) == <<p, s[p].k>>

-----------------------------------------------------------------------------
(* The database. *)

RowsOf(tab) == db[tab].rows

Committed(tab) == {r \in RowsOf(tab) : r.by = None}

Visible(o, tab) == {r \in RowsOf(tab) : r.by \in {None, o}}

ReadBlocked(o, tab) == \E r \in RowsOf(tab) : r.by \notin {None, o}

OnPage(tab, pg) == {r \in RowsOf(tab) : r.page = pg}

(* HeapFile.insertTuple: the first page with a free slot, or a new one. *)
InsertPage(tab) ==
  LET free == {pg \in 1..db[tab].pages : Cardinality(OnPage(tab, pg)) < PageSlots}
  IN IF free = {} THEN db[tab].pages + 1 ELSE Min(free)

InsertBlocked(o, tab) ==
  \/ ReadBlocked(o, tab)
  \/ \E l \in shared : l[1] # o /\ l[2] = tab /\ l[3] = InsertPage(tab)

AfterRead(o, tab) == shared \cup {<<o, tab, pg>> : pg \in 1..db[tab].pages}

AfterInsert(o, tab, id, name, data) ==
  [db EXCEPT ![tab].rows = @ \cup {[page |-> InsertPage(tab), id |-> id, name |-> name,
                                    data |-> data, by |-> o]},
             ![tab].pages = Max({@, InsertPage(tab)})]

AfterCommit(o) ==
  [tab \in Tables |-> [db[tab] EXCEPT !.rows = {IF r.by = o THEN [r EXCEPT !.by = None] ELSE r : r \in @}]]

AfterAbort(o) == [tab \in Tables |-> [db[tab] EXCEPT !.rows = {r \in @ : r.by # o}]]

Unlocked(o) == {l \in shared : l[1] # o}

(* A statement whose client has gone still runs: a commit commits, and the *)
(* end of the connection rolls back whatever else is open.                 *)
LateEnds ==
  \E e \in late :
    /\ late' = late \ {e}
    /\ shared' = Unlocked(e.own)
    /\ \/ e.stmt = "commit" /\ db' = AfterCommit(e.own)
       \/ e.stmt # "commit" /\ db' = AfterAbort(e.own)
    /\ UNCHANGED <<launchVars, faults, sessVars>>

(* A JVM that ends takes every open transaction with it; one whose commit  *)
(* was under way may have been committed.  Left out: the shutdown hook's   *)
(* flushAllPages, which would also write the pages of a session that is    *)
(* still open five seconds after it was told to end.                       *)
Committing == {Txn(p) : p \in {q \in Procs : s[q].pc = "commit"}}
                \cup {e.own : e \in {f \in late : f.stmt = "commit"}}

Lost ==
  /\ \E kept \in SUBSET Committing :
       db' = [tab \in Tables |->
               [db[tab] EXCEPT !.rows = {[r EXCEPT !.by = None] : r \in {q \in @ : q.by \in kept \cup {None}}}]]
  /\ shared' = {} /\ late' = {}

LauncherSteps ==
  /\ \E l \in Launchers : LauncherStep(l) \/ LauncherFault(l)
  /\ IF \E l \in Launchers : JvmAlive(l) /\ jvm'[l] = "dead" THEN Lost ELSE UNCHANGED dbVars
  /\ UNCHANGED sessVars

-----------------------------------------------------------------------------
(* The sign-in gate. *)

max_attempts(x) == IF x.loaded THEN MaxAttempts ELSE DefaultAttempts

(* auth_retry_handler: a 400 has checked nothing, and is not counted. *)
Counts(status) == status # 400

Refused(x, status) ==
  LET i == IF Counts(status) THEN x.i + 1 ELSE x.i
  IN [x EXCEPT !.i = i, !.told = status,
               !.pc = IF i < max_attempts(x) THEN "gate" ELSE "dropped"]

Probed(p, status) == [probes EXCEPT ![p] = IF status \in {401, 404, 409} THEN @ + 1 ELSE @]

Receives(p) == todo[p] # <<>> /\ todo' = [todo EXCEPT ![p] = Tail(@)]

(* Letters count as lower case; other characters, and names too long, are  *)
(* no name.                                                                *)
user_name_fold(u) == Fold[u]

auth_conf_load(x) == [x EXCEPT !.loaded = TRUE]

(* auth_handler up to the first thing that can wait: a guest is let in, a  *)
(* method that is none of the gate's is refused, and so are a frame that   *)
(* does not parse, a body without a name and a password, a name that does  *)
(* not fold and a password of the wrong length.                            *)
SignIn(x, req) ==
  LET user == user_name_fold(req.user)
      y    == [auth_conf_load(x) EXCEPT !.user = user, !.attempt = 0]
  IN CASE user = None -> Refused(y, 400)
       [] user # None /\ req.m = "LOGIN" -> [y EXCEPT !.pc = "open"]
       [] user # None /\ req.m = "REGISTER" /\ req.pass = None -> Refused(y, 400)
       [] OTHER -> [y EXCEPT !.pc = "turn"]

auth_session_parser(p) ==
  /\ s[p].pc = "gate" /\ Receives(p)
  /\ LET req == Head(todo[p])
         x   == [s[p] EXCEPT !.req = req]
     IN s' = [s EXCEPT ![p] =
          CASE req.m = "GUEST" -> [x EXCEPT !.pc = "lobby", !.told = 200, !.name = None]
            [] req.m = "BAD" -> Refused(x, 400)
            [] req.m \in {"LOGIN", "REGISTER"} -> SignIn(x, req)
            [] OTHER -> Refused(x, 401)]
  /\ UNCHANGED <<launchVars, faults, sem, dbVars, probes>>

(* Signed in: the end of a round is recorded, guests' rounds too; a        *)
(* history request reads the database unless a round is on or the player   *)
(* is a guest (history_offer), and a sign-in is refused (auth_offer).      *)
history_offer(x) ==
  CASE x.playing -> [x EXCEPT !.told = 409]
    [] ~x.playing /\ x.name # None -> [x EXCEPT !.pc = "open"]
    [] OTHER -> [x EXCEPT !.view = [status |-> "GUEST"]]

SignedIn(p) ==
  /\ s[p].pc = "lobby" /\ Receives(p)
  /\ LET req == Head(todo[p])
         x   == [s[p] EXCEPT !.req = req, !.attempt = 0, !.view = None]
     IN s' = [s EXCEPT ![p] =
          CASE req.m = "PLAY" -> [x EXCEPT !.playing = TRUE]
            [] req.m = "ROUND" -> [x EXCEPT !.playing = FALSE, !.pc = "turn"]
            [] req.m = "HISTORY" -> history_offer(x)
            [] OTHER -> [x EXCEPT !.told = 409]]
  /\ UNCHANGED <<launchVars, faults, sem, dbVars, probes>>

-----------------------------------------------------------------------------
(* The database client. *)

Serialised(req) == req.m \in {"REGISTER", "ROUND"}

(* How a request ends: a history that could not be read is unavailable, a  *)
(* round that could not be recorded is not, a refused sign-in is counted.  *)
Failed(x, status) ==
  CASE x.req.m = "HISTORY" -> [x EXCEPT !.pc = "lobby", !.view = [status |-> "UNAVAILABLE"]]
    [] x.req.m = "ROUND"   -> [x EXCEPT !.pc = "lobby"]
    [] OTHER               -> Refused(x, status)

Succeeded(x) == [x EXCEPT !.pc = IF x.req.m = "REGISTER" THEN "mint" ELSE "lobby"]

(* The connection is closed and the semaphore posted. *)
Done(p, x, status) ==
  /\ s' = [s EXCEPT ![p] = [x EXCEPT !.runner = None, !.next = 0, !.attempt = 0, !.k = @ + 1]]
  /\ sem' = IF Serialised(s[p].req) THEN [sem EXCEPT ![TableOf(s[p].req)] = @ + 1] ELSE sem
  /\ probes' = Probed(p, status)

Ends(p, status) == Done(p, Failed(s[p], status), status)

Turn(p) ==
  /\ sem[TableOf(s[p].req)] > 0
  /\ sem' = [sem EXCEPT ![TableOf(s[p].req)] = @ - 1]
  /\ s' = [s EXCEPT ![p].pc = "open"]

NoTurn(p) ==
  /\ sem[TableOf(s[p].req)] = 0
  /\ s' = [s EXCEPT ![p] = Failed(@, 500)]
  /\ UNCHANGED sem

(* As if nobody waited for a turn. *)
reg_acquire_rude(p) ==
  /\ s[p].pc = "turn" /\ s[p].req.m = "REGISTER"
  /\ s' = [s EXCEPT ![p].pc = "open"]
  /\ UNCHANGED <<launchVars, faults, todo, sem, dbVars, probes>>

(* As if a turn were waited for without end. *)
reg_acquire_patient(p) ==
  /\ s[p].pc = "turn" /\ s[p].req.m = "REGISTER"
  /\ Turn(p)
  /\ UNCHANGED <<launchVars, faults, todo, dbVars, probes>>

(* The semaphore is polled for a while, and then the request fails:        *)
(* reg_acquire for an account, sem_acquire for a round.                    *)
reg_acquire(p) ==
  /\ s[p].pc = "turn" /\ s[p].req.m = "REGISTER"
  /\ Turn(p) \/ NoTurn(p)
  /\ UNCHANGED <<launchVars, faults, todo, dbVars, probes>>

sem_acquire(p) ==
  /\ s[p].pc = "turn" /\ s[p].req.m = "ROUND"
  /\ Turn(p) \/ NoTurn(p)
  /\ UNCHANGED <<launchVars, faults, todo, dbVars, probes>>

db_socket_open(p) ==
  /\ s[p].pc = "open"
  /\ \/ /\ Listening # {}
        /\ s' = [s EXCEPT ![p].runner = CHOOSE l \in Listening : TRUE,
                          ![p].pc = CASE s[p].req.m = "LOGIN" -> "lookup"
                                      [] s[p].req.m = "HISTORY" -> "recent"
                                      [] OTHER -> "max"]
        /\ UNCHANGED <<sem, probes>>
     \/ Listening = {} /\ Ends(p, 500)
  /\ UNCHANGED <<launchVars, faults, todo, dbVars>>

Retriable(st) == st = "RETRY"

(* register_txn, history_insert_txn: a transaction the server gave up is   *)
(* run again from its start, on the same connection, TXN_ATTEMPTS times in *)
(* all; account_login asks twice; a history is read once.                  *)
AttemptsOf(req) == CASE req.m \in {"REGISTER", "ROUND"} -> TxnAttempts
                   [] req.m = "LOGIN" -> 2
                     [] OTHER -> 1

NotOk(p, st) ==
  IF Retriable(st) /\ s[p].attempt + 1 < AttemptsOf(s[p].req)
  THEN /\ s' = [s EXCEPT ![p].attempt = @ + 1, ![p].k = @ + 1, ![p].next = 0,
                         ![p].pc = IF s[p].req.m = "LOGIN" THEN "lookup" ELSE "max"]
       /\ UNCHANGED <<sem, probes>>
  ELSE Ends(p, 500)

Statements == {"lookup", "max", "exists", "insert", "commit", "recent", "best", "games"}

Connected(p) == s[p].runner # None /\ jvm[s[p].runner] \in {"listening", "stopping"}

Blocked(p) ==
  IF s[p].pc = "insert" THEN InsertBlocked(Txn(p), TableOf(s[p].req))
  ELSE s[p].pc # "commit" /\ ReadBlocked(Txn(p), TableOf(s[p].req))

(* What can come back instead of a result.  The server ends a transaction  *)
(* that waits for a lock in a circle (here: any that waits), or one that   *)
(* fails.                                                                  *)
classify(p) ==
  /\ s[p].pc \in Statements /\ Connected(p)
  /\ \/ Blocked(p) /\ NotOk(p, "RETRY") /\ UNCHANGED faults
     \/ faults > 0 /\ faults' = faults - 1 /\ NotOk(p, "ERROR")
  /\ db' = AfterAbort(Txn(p)) /\ shared' = Unlocked(Txn(p))
  /\ UNCHANGED <<launchVars, todo, late>>

(* The reply does not come in time, and what was asked may yet be done. *)
db_wire_late(p) ==
  /\ s[p].pc \in Statements /\ Connected(p)
  /\ Blocked(p) \/ faults > 0
  /\ faults' = IF Blocked(p) THEN faults ELSE faults - 1
  /\ NotOk(p, "TIMEOUT")
  /\ late' = late \cup {[own |-> Txn(p), stmt |-> s[p].pc]}
  /\ UNCHANGED <<launchVars, todo, db, shared>>

(* The connection is gone. *)
db_wire_eof(p) ==
  /\ s[p].pc \in Statements /\ ~Connected(p)
  /\ NotOk(p, "IO")
  /\ UNCHANGED <<launchVars, faults, todo, dbVars>>

db_socket_exec(p) == classify(p) \/ db_wire_late(p) \/ db_wire_eof(p)

-----------------------------------------------------------------------------
(* What each statement does when the server answers OK. *)

Answers(p, pc) == s[p].pc = pc /\ Connected(p) /\ ~Blocked(p)

(* A reply's rows, none when it did not fit in its buffer. *)
db_row_count(rows) == IF Cardinality(rows) > BodyRows THEN -1 ELSE Cardinality(rows)

(* PBKDF2, taken as collision free. *)
password_hash(pass, salt) == <<pass, salt>>

Matches(p, r) == r.data.digest = password_hash(s[p].req.pass, r.data.salt)

(* parse_login_db_result: no row is an unknown user; the digest of what    *)
(* was typed is compared with the one in the first row.                    *)
account_login(p) ==
  /\ Answers(p, "lookup")
  /\ LET found == {r \in Visible(Txn(p), "user") : r.name = s[p].user}
     IN \/ db_row_count(found) = 0 /\ Ends(p, 404)
        \/ db_row_count(found) < 0 /\ Ends(p, 500)
        \/ /\ db_row_count(found) > 0
           /\ \E r \in found :
                IF Matches(p, r) THEN Done(p, [s[p] EXCEPT !.pc = "mint", !.id = r.id], 0)
                                 ELSE Ends(p, 401)
  /\ UNCHANGED <<launchVars, faults, todo, dbVars>>

(* db_next_id: one more than the largest id, 1 in an empty table. *)
db_next_id(tab, o) == LET ids == {r.id : r \in Visible(o, tab)}
                      IN IF ids = {} THEN 1 ELSE Max(ids) + 1

select_max(p) ==
  /\ Answers(p, "max")
  /\ LET tab == TableOf(s[p].req)
     IN /\ shared' = AfterRead(Txn(p), tab)
        /\ s' = [s EXCEPT ![p].next = db_next_id(tab, Txn(p)),
                          ![p].pc = IF tab = "user" THEN "exists" ELSE "insert"]
  /\ UNCHANGED <<launchVars, faults, todo, sem, probes, db, late>>

(* A name that is taken rolls the transaction back: 409. *)
select_exists(p) ==
  /\ Answers(p, "exists")
  /\ IF \E r \in Visible(Txn(p), "user") : r.name = s[p].user
     THEN Ends(p, 409) /\ shared' = Unlocked(Txn(p))
     ELSE s' = [s EXCEPT ![p].pc = "insert"] /\ UNCHANGED <<sem, probes, shared>>
  /\ UNCHANGED <<launchVars, faults, todo, db, late>>

Inserted(p) ==
  IF s[p].req.m = "REGISTER"
  THEN AfterInsert(Txn(p), "user", s[p].next, s[p].user,
                   [salt |-> p, digest |-> password_hash(s[p].req.pass, p)])
  ELSE AfterInsert(Txn(p), "history", s[p].next, s[p].name, s[p].req.call)

(* As if the transaction needed no commit. *)
insert_last(p) ==
  /\ Answers(p, "insert")
  /\ db' = Inserted(p)
  /\ Done(p, [Succeeded(s[p]) EXCEPT !.id = s[p].next], 0)
  /\ UNCHANGED <<launchVars, faults, todo, shared, late>>

insert(p) ==
  /\ Answers(p, "insert")
  /\ db' = Inserted(p)
  /\ s' = [s EXCEPT ![p].pc = "commit"]
  /\ shared' = AfterRead(Txn(p), TableOf(s[p].req))
  /\ UNCHANGED <<launchVars, faults, todo, sem, probes, late>>

commit(p) ==
  /\ Answers(p, "commit")
  /\ Done(p, [Succeeded(s[p]) EXCEPT !.id = s[p].next], 0)
  /\ db' = AfterCommit(Txn(p)) /\ shared' = Unlocked(Txn(p))
  /\ UNCHANGED <<launchVars, faults, todo, late>>

token_mint(p) == [sub |-> s[p].id, name |-> s[p].user, key |-> secret]

(* token_handler: the token says who, and is signed with the secret on     *)
(* disk; without a whole secret the sign-in fails, whatever was committed. *)
token_handler(p) ==
  /\ s[p].pc = "mint"
  /\ s' = [s EXCEPT ![p] =
       IF secret \in Launchers
       THEN [@ EXCEPT !.pc = "lobby", !.told = 200, !.name = s[p].user, !.token = token_mint(p)]
       ELSE Refused(@, 500)]
  /\ UNCHANGED <<launchVars, faults, todo, sem, probes, dbVars>>

(* history_db_read_player: one connection, one autocommitted query after   *)
(* another: the rounds (a reply too long for its buffer is no table), the  *)
(* best score, the number of games.                                        *)
Mine(p) == {r \in Visible(Txn(p), "history") : r.name = s[p].name}

(* As if the games were counted before the rounds are read. *)
read_player_early(p) ==
  /\ \/ /\ Answers(p, "recent")
        /\ s' = [s EXCEPT ![p].pc = "best",
                          ![p].view = [status |-> "OK", recent |-> {}, best |-> 0,
                                       games |-> Cardinality(Mine(p))]]
        /\ UNCHANGED <<sem, probes>>
     \/ /\ Answers(p, "best")
        /\ s' = [s EXCEPT ![p].pc = "games", ![p].view.best = Max({0} \cup {r.data : r \in Mine(p)})]
        /\ UNCHANGED <<sem, probes>>
     \/ /\ Answers(p, "games")
        /\ Done(p, [s[p] EXCEPT !.pc = "lobby", !.view.recent = {r.data : r \in Mine(p)}], 0)
  /\ UNCHANGED <<launchVars, faults, todo, dbVars>>

history_db_read_player(p) ==
  /\ \/ /\ Answers(p, "recent")
        /\ IF db_row_count(Mine(p)) <= 0
           THEN Done(p, [s[p] EXCEPT !.pc = "lobby",
                  !.view = [status |-> IF db_row_count(Mine(p)) = 0 THEN "EMPTY" ELSE "UNAVAILABLE"]], 0)
           ELSE /\ s' = [s EXCEPT ![p].pc = "best",
                       ![p].view = [status |-> "OK", recent |-> {r.data : r \in Mine(p)},
                                    best |-> 0, games |-> 0]]
                /\ UNCHANGED <<sem, probes>>
     \/ /\ Answers(p, "best")
        /\ s' = [s EXCEPT ![p].pc = "games", ![p].view.best = Max({r.data : r \in Mine(p)})]
        /\ UNCHANGED <<sem, probes>>
     \/ /\ Answers(p, "games")
        /\ Done(p, [s[p] EXCEPT !.pc = "lobby", !.view.games = Cardinality(Mine(p))], 0)
  /\ UNCHANGED <<launchVars, faults, todo, dbVars>>

-----------------------------------------------------------------------------
(* A session process is killed: its connection ends, and with it its       *)
(* transaction, unless a commit is under way; a semaphore it holds stays   *)
(* taken.                                                                  *)
Killed(p) ==
  /\ s[p].pc \in Statements \cup {"turn", "open", "mint"}
  /\ faults > 0 /\ faults' = faults - 1
  /\ late' = IF Connected(p) THEN late \cup {[own |-> Txn(p), stmt |-> s[p].pc]} ELSE late
  /\ s' = [s EXCEPT ![p].pc = "killed", ![p].runner = None]
  /\ UNCHANGED <<launchVars, todo, sem, probes, db, shared>>

Session(p) ==
  \/ auth_session_parser(p) \/ SignedIn(p) \/ reg_acquire(p) \/ sem_acquire(p) \/ db_socket_open(p)
  \/ db_socket_exec(p) \/ account_login(p) \/ select_max(p) \/ select_exists(p)
  \/ insert(p) \/ commit(p) \/ token_handler(p) \/ history_db_read_player(p)

NewSession(name) ==
  [pc |-> IF name = None THEN "gate" ELSE "lobby", i |-> 0, loaded |-> FALSE, k |-> 1,
   runner |-> None, req |-> [m |-> "NONE"], user |-> None, playing |-> FALSE, next |-> 0, attempt |-> 0, id |-> 0,
   told |-> 0, name |-> name, token |-> None, view |-> None]

Init ==
  \E plan \in Plans :
    /\ lnch = [l \in Launchers |-> [cmd |-> plan.cmds[l], rc |-> 0,
                at |-> IF plan.cmds[l] = "first" THEN "done" ELSE "begin"]]
    /\ jvm = [l \in Launchers |-> IF plan.cmds[l] = "first" THEN "listening" ELSE "none"]
    /\ \E first \in {l \in Launchers : plan.cmds[l] = "first"} \cup {None} :
         /\ (first = None) = (\A l \in Launchers : plan.cmds[l] # "first")
         /\ lock = first /\ pidf = first
         /\ tables = (IF first = None THEN "none" ELSE "declared")
         /\ secret = (IF first = None THEN "none" ELSE first)
    /\ faults = plan.faults
    /\ s = [p \in Procs |-> NewSession(plan.names[p])]
    /\ todo = plan.todo
    /\ db = plan.db
  /\ sem = [tab \in Tables |-> 1] /\ shared = {} /\ late = {}
  /\ probes = [p \in Procs |-> 0]

Next == LauncherSteps \/ LateEnds \/ \E p \in Procs : Session(p) \/ Killed(p)

(* A session process runs on, and the server finishes what it was asked. *)
Fairness == WF_vars(LateEnds) /\ \A p \in Procs : WF_vars(Session(p))

Spec == Init /\ [][Next]_vars /\ Fairness

-----------------------------------------------------------------------------
(* Properties. *)

(* No two accounts have one name or one id, and one call of                *)
(* history_db_insert leaves at most one row, under an id of its own,       *)
(* however inserts overlap, retry, time out or die: the database has no    *)
(* unique index, and two transactions that each add a page to a full table *)
(* do not meet there.  How often the call is made for a round is another   *)
(* matter (OneRowPerRound, module GameServer).                             *)
RowsUnique ==
  /\ \A r, q \in Committed("user") : r.name = q.name \/ r.id = q.id => r = q
  /\ \A r, q \in Committed("history") : r.data = q.data \/ r.id = q.id => r = q

check_signature(t) == t.key = secret

(* The gate gives away no more than it should.  Whoever holds a token has  *)
(* an account in the database, with that id and that name (a registration  *)
(* whose commit is not known to have happened gives none), and it verifies *)
(* with the secret on disk; and a connection learns whether an account     *)
(* exists, or a password is right, at most auth_max_attempts times.        *)
GateHolds ==
  \A p \in Procs :
    /\ s[p].token # None =>
         /\ \E r \in Committed("user") : r.id = s[p].token.sub /\ r.name = s[p].token.name
         /\ check_signature(s[p].token)
    /\ probes[p] <= MaxAttempts

(* A history that is shown adds up, although its figures are read one      *)
(* after another while rounds are recorded: the best is no worse than any  *)
(* round listed, and no fewer games are counted than are listed.           *)
ViewConsistent ==
  \A p \in Procs :
    LET v == s[p].view
    IN s[p].pc = "lobby" /\ v # None /\ v.status = "OK" =>
         Cardinality(v.recent) <= v.games /\ \A r \in v.recent : r <= v.best

(* Every request is answered, or its session ends: nothing a database, a   *)
(* launcher or another session does or fails to do keeps a player waiting. *)
Answered ==
  \A p \in Procs :
    s[p].pc \notin {"gate", "lobby", "dropped", "killed"}
      ~> s[p].pc \in {"gate", "lobby", "dropped", "killed"}
=============================================================================
