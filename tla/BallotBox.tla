----------------------------- MODULE BallotBox -----------------------------
(***************************************************************************)
(* libballotbrain: elections, ballots, owners and nonces in the shared SQL *)
(* store, and the calls that read and change them.  One thread makes all   *)
(* the calls, so a call is the job below; a ballot is recorded by a        *)
(* transaction whose statements are steps of their own, because any of     *)
(* them may be told to retry, fail, or be cut off by the end of the        *)
(* process.  A receipt hash is the pair it is derived from.                *)
(***************************************************************************)
EXTENDS Integers, FiniteSets

CONSTANTS
  Accounts,         \* names an authenticated voter may have
  Ids,              \* election ids; the first is what allocation starts from
  Nonces,           \* nonces a client may draw
  NumOptions,       \* options of an election
  BB_TXN_ATTEMPTS,  \* times a ballot's transaction is tried
  MaxFaults         \* bound: statements that do not succeed, signals, kills

ASSUME BallotAssumption ==
  /\ 1 \in Ids /\ Ids = 1..Cardinality(Ids)
  /\ NumOptions \in Nat \ {0, 1} /\ BB_TXN_ATTEMPTS \in Nat \ {0} /\ MaxFaults \in Nat

VARIABLES
  store,   \* what is committed
  txn,     \* the open transaction's view of it
  job,     \* the call being run
  faults   \* things that have gone wrong so far

brainVars == <<store, txn, job, faults>>

OptionIndexes == 0..(NumOptions - 1)
States == {"DRAFT", "OPEN", "CLOSED", "PUBLISHED"}
NoHash == <<"none", 0>>
NoRequest == [op |-> "none", id |-> 1, name |-> "none", option |-> 0, nonce |-> "none",
              hash |-> NoHash]
Empty == [election |-> {}, options |-> [i \in Ids |-> 0], eligible |-> [i \in Ids |-> {}],
          ballot |-> {}, owner |-> {}, nonce |-> {}]
NoAnswer == [status |-> "none", id |-> 0, has |-> FALSE, version |-> 0, hash |-> NoHash,
             option |-> 0, tally |-> [o \in OptionIndexes |-> 0]]
Status(s) == [NoAnswer EXCEPT !.status = s]
NoRow == [id |-> 0, hash |-> NoHash, option |-> 0, version |-> 0, live |-> FALSE]
NoJob == [req |-> NoRequest, at |-> "idle", attempt |-> 1, prior |-> NoHash, row |-> NoRow,
          answer |-> NoAnswer]

BrainInit(tables) == store = tables /\ txn = Empty /\ job = NoJob /\ faults = 0

-----------------------------------------------------------------------------
(* The statements (db.c), on the tables T. *)

(* The rows of one id; a read takes any of them for the election. *)
Elections(T, id) == {e \in T.election : e.id = id}

run_get_election(T, id) ==
  {[state |-> e.state, options |-> T.options[id], eligible |-> T.eligible[id]] :
     e \in Elections(T, id)}

run_insert_election(T, id, names) ==
  [T EXCEPT !.election = @ \cup {[id |-> id, state |-> "DRAFT"]},
            !.options[id] = @ + NumOptions,
            !.eligible[id] = @ \cup names]

run_update_state(T, id, to) ==
  [T EXCEPT !.election = (@ \ Elections(T, id)) \cup {[id |-> id, state |-> to]}]

run_append_ballot(T, id, row) == [T EXCEPT !.ballot = @ \cup {row}]

Matching(T, id, hash) == {b \in T.ballot : b.id = id /\ b.hash = hash}

(* As if an update left the earlier ballot counted. *)
run_mark_superseded_nothing(T, id, hash) == T

run_mark_superseded(T, id, hash) ==
  [T EXCEPT !.ballot = (@ \ Matching(T, id, hash))
                         \cup {[b EXCEPT !.live = FALSE] : b \in Matching(T, id, hash)}]

OwnerRows(T, id, name) == {o \in T.owner : o.id = id /\ o.name = name}

run_set_owner(T, id, name, hash, version) ==
  [T EXCEPT !.owner = (@ \ OwnerRows(T, id, name))
                        \cup {[id |-> id, name |-> name, hash |-> hash, version |-> version]}]

run_nonce_mark(T, id, nonce) == [T EXCEPT !.nonce = @ \cup {<<id, nonce>>}]

run_nonce_seen(T, id, nonce) == <<id, nonce>> \in T.nonce

run_get_prior_ballot(T, id, name) == OwnerRows(T, id, name)

Live(T, id) == {b \in T.ballot : b.id = id /\ b.live}

run_get_tally(T, id) ==
  [o \in OptionIndexes |-> Cardinality({b \in Live(T, id) : b.option = o})]

run_find_hash(T, id, hash) == {b \in Live(T, id) : b.hash = hash}

IsTables(T) ==
  T = [election |-> T.election, options |-> T.options, eligible |-> T.eligible,
       ballot |-> T.ballot, owner |-> T.owner, nonce |-> T.nonce]

(* What a run leaves in the tables, and the next one finds there: a ballot *)
(* is known by its hash and has used up its nonce, and the live ballots    *)
(* are the ones the owner rows point to, one per voter.                    *)
ElectionsSound(T) ==
  /\ T.options \in [Ids -> Nat]
  /\ \A e \in T.election : e.id \in Ids

BallotsSound(T) ==
  /\ IsFiniteSet(T.ballot) /\ IsFiniteSet(T.owner)
  /\ \A b \in T.ballot :
       /\ b = [id |-> b.id, hash |-> b.hash, option |-> b.option, version |-> b.version, live |-> b.live]
       /\ b.hash = <<b.hash[1], b.version>> /\ b.version \in Nat \ {0}
       /\ b.live \in BOOLEAN /\ <<b.id, b.hash[1]>> \in T.nonce
       /\ b.live => \E o \in T.owner : o.id = b.id /\ o.hash = b.hash
  /\ \A b, c \in T.ballot : b.id = c.id /\ b.hash = c.hash => b = c
  /\ \A o \in T.owner :
       \E b \in T.ballot : b.live /\ b.id = o.id /\ b.hash = o.hash /\ b.version = o.version
  /\ \A o, p \in T.owner : o.id = p.id /\ (o.name = p.name \/ o.hash = p.hash) => o = p

Sound(T) == IsTables(T) /\ ElectionsSound(T) /\ BallotsSound(T)

(* bb_alloc_id: one past the largest id; the first one if the table is     *)
(* empty or if it cannot be read.                                          *)
Taken == {e.id : e \in store.election}
bb_alloc_id(readable) ==
  IF Taken = {} \/ ~readable THEN 1 ELSE 1 + CHOOSE m \in Taken : \A i \in Taken : i <= m

-----------------------------------------------------------------------------
(* The rules. *)

bb_is_legal_transition(from, to) ==
  <<from, to>> \in {<<"DRAFT", "OPEN">>, <<"OPEN", "CLOSED">>, <<"CLOSED", "PUBLISHED">>}

bb_check_eligibility(e, name) == name \in e.eligible

(* The answer to a join, for what was read of the election. *)
bb_join(e, id, name) ==
  LET prior == run_get_prior_ballot(store, id, name)
  IN  IF ~bb_check_eligibility(e, name) THEN Status("NOT_ELIGIBLE")
      ELSE IF e.state # "OPEN" THEN Status("NOT_OPEN")
      ELSE [Status("OK") EXCEPT !.id = id, !.has = prior # {},
              !.version = IF prior = {} THEN 0 ELSE (CHOOSE o \in prior : TRUE).version]

bb_get_results(e, id, name, asAdmin) ==
  IF e.state # "PUBLISHED" THEN Status("NOT_PUBLISHED")
  ELSE IF ~asAdmin /\ ~bb_check_eligibility(e, name) THEN Status("NOT_ELIGIBLE")
  ELSE [Status("OK") EXCEPT !.id = id, !.tally = run_get_tally(store, id)]

bb_lookup_hash(id, hash) ==
  LET found == run_find_hash(store, id, hash)
  IN  IF found = {} THEN Status("NOT_FOUND")
      ELSE [Status("OK") EXCEPT !.has = TRUE, !.hash = hash,
                                !.option = (CHOOSE b \in found : TRUE).option]

(* As if a ballot were taken whenever the election is not a draft. *)
Verdict_neverCloses(T, e, r) ==
  IF e.state = "DRAFT" THEN "NOT_OPEN"
  ELSE IF ~bb_check_eligibility(e, r.name) THEN "NOT_ELIGIBLE"
  ELSE IF r.option >= e.options THEN "BAD_OPTION"
  ELSE IF run_nonce_seen(T, r.id, r.nonce) THEN "REPLAY" ELSE "OK"

(* The gates a ballot passes, in their order. *)
Verdict(T, e, r) ==
  IF e.state \in {"CLOSED", "PUBLISHED"} THEN "CLOSED"
  ELSE IF e.state # "OPEN" THEN "NOT_OPEN"
  ELSE IF ~bb_check_eligibility(e, r.name) THEN "NOT_ELIGIBLE"
  ELSE IF r.option >= e.options THEN "BAD_OPTION"
  ELSE IF run_nonce_seen(T, r.id, r.nonce) THEN "REPLAY" ELSE "OK"

bb_issue_receipt(nonce, version) == <<nonce, version>>

-----------------------------------------------------------------------------
(* The calls. *)

Finish(answer) == job' = [job EXCEPT !.at = "done", !.answer = answer]

(* A statement that fails, or is a deadlock's victim, uses up the bound. *)
Fault == faults < MaxFaults /\ faults' = faults + 1

Dispatched(ops) == job.at = "call" /\ job.req.op \in ops

(* Reads, each on a connection of its own: up to three tries, then an      *)
(* error.                                                                  *)
Read ==
  LET r == job.req
  IN  /\ Dispatched({"JOIN", "RESULTS", "CHECK", "ADMIN_RESULTS", "ADMIN_CHECK"})
      /\ IF Elections(store, r.id) = {} THEN Finish(Status("NOT_FOUND"))
         ELSE \E e \in run_get_election(store, r.id) :
                Finish(CASE r.op = "JOIN" -> bb_join(e, r.id, r.name)
                         [] r.op \in {"RESULTS", "ADMIN_RESULTS"} ->
                              bb_get_results(e, r.id, r.name, r.op = "ADMIN_RESULTS")
                         [] OTHER -> bb_lookup_hash(r.id, r.hash))
      /\ UNCHANGED <<store, txn, faults>>

(* A peek at the id that would be allocated; never fails. *)
NextId ==
  /\ Dispatched({"ADMIN_NEXT_ID"})
  /\ \/ Finish([Status("OK") EXCEPT !.id = bb_alloc_id(TRUE)]) /\ UNCHANGED faults
     \/ Finish([Status("OK") EXCEPT !.id = bb_alloc_id(FALSE)]) /\ Fault
  /\ UNCHANGED <<store, txn>>

(* A write of its own: done; or not done and an error; or done, and the    *)
(* answer lost.                                                            *)
Write(T, id) ==
  \/ store' = T /\ Finish([Status("OK") EXCEPT !.id = id]) /\ UNCHANGED <<txn, faults>>
  \/ store' \in {T, store} /\ Finish(Status("DB")) /\ Fault /\ UNCHANGED txn

(* id 0 asks for an id to be allocated. *)
bb_create_election(names) ==
  LET r == job.req
  IN  /\ Dispatched({"CREATE"})
      /\ \/ /\ r.id = 0 /\ bb_alloc_id(TRUE) \in Ids
            /\ Write(run_insert_election(store, bb_alloc_id(TRUE), names), bb_alloc_id(TRUE))
         \/ /\ r.id = 0 /\ Fault
            /\ store' = run_insert_election(store, bb_alloc_id(FALSE), names)
            /\ Finish([Status("OK") EXCEPT !.id = bb_alloc_id(FALSE)]) /\ UNCHANGED txn
         \/ /\ r.id \in Taken
            /\ Finish(Status("CONFIG_ID_TAKEN")) /\ UNCHANGED <<store, txn, faults>>
         \/ r.id \in Ids \ Taken /\ Write(run_insert_election(store, r.id, names), r.id)

Target(op) == CASE op = "OPEN" -> "OPEN" [] op = "CLOSE" -> "CLOSED" [] OTHER -> "PUBLISHED"

bb_transition_state ==
  LET r == job.req
      to == Target(r.op)
  IN  /\ Dispatched({"OPEN", "CLOSE", "PUBLISH"})
      /\ \/ /\ Elections(store, r.id) = {}
            /\ Finish(Status("NOT_FOUND")) /\ UNCHANGED <<store, txn, faults>>
         \/ \E e \in run_get_election(store, r.id) :
              IF bb_is_legal_transition(e.state, to)
              THEN Write(run_update_state(store, r.id, to), r.id)
              ELSE Finish(Status("ILLEGAL_TRANSITION")) /\ UNCHANGED <<store, txn, faults>>

(* A call whose first statement fails changes nothing. *)
CallFails ==
  /\ job.at = "call" /\ job.req.op \notin {"CAST", "UPDATE", "ADMIN_NEXT_ID"}
  /\ Fault /\ Finish(Status("DB"))
  /\ UNCHANGED <<store, txn>>

(* bb_record_ballot: a transaction begins, *)
bb_db_begin ==
  /\ Dispatched({"CAST", "UPDATE"})
  /\ txn' = store
  /\ job' = [job EXCEPT !.at = "gates"]
  /\ UNCHANGED <<store, faults>>

BeginFails ==
  /\ Dispatched({"CAST", "UPDATE"})
  /\ Fault /\ (Finish(Status("DB")) \/ Finish(Status("RETRY")))
  /\ UNCHANGED <<store, txn>>

bb_db_rollback == txn' = Empty

(* the gates are passed and the version chosen, *)
Gates ==
  LET r == job.req
      prior == run_get_prior_ballot(txn, r.id, r.name)
      version == IF prior = {} THEN 1 ELSE (CHOOSE o \in prior : TRUE).version + 1
      pass == [job EXCEPT !.at = "append",
                 !.prior = IF prior = {} THEN NoHash ELSE (CHOOSE o \in prior : TRUE).hash,
                 !.row = [id |-> r.id, hash |-> bb_issue_receipt(r.nonce, version),
                          option |-> r.option, version |-> version, live |-> TRUE]]
  IN  /\ job.at = "gates"
      /\ IF Elections(txn, r.id) = {} THEN Finish(Status("NOT_FOUND")) /\ bb_db_rollback
         ELSE \E e \in run_get_election(txn, r.id) :
                LET v == Verdict(txn, e, r)
                IN  IF v = "OK" THEN job' = pass /\ UNCHANGED txn
                    ELSE Finish(Status(v)) /\ bb_db_rollback
      /\ UNCHANGED <<store, faults>>

(* and four statements write the ballot. *)
Statement(at, next, T) ==
  /\ job.at = at
  /\ txn' = T
  /\ job' = [job EXCEPT !.at = next]
  /\ UNCHANGED <<store, faults>>

AppendBallot ==
  Statement("append", IF job.prior = NoHash THEN "owner" ELSE "mark",
            run_append_ballot(txn, job.req.id, job.row))

MarkSuperseded ==
  /\ Matching(txn, job.req.id, job.prior) # {}
  /\ Statement("mark", "owner", run_mark_superseded(txn, job.req.id, job.prior))

SetOwner ==
  Statement("owner", "nonce",
            run_set_owner(txn, job.req.id, job.req.name, job.row.hash, job.row.version))

NonceMark == Statement("nonce", "commit", run_nonce_mark(txn, job.req.id, job.req.nonce))

(* The whole transaction is done again, so often; then its last status is  *)
(* the call's.                                                             *)
Redo ==
  IF job.attempt < BB_TXN_ATTEMPTS
  THEN job' = [job EXCEPT !.at = "call", !.attempt = @ + 1, !.prior = NoHash, !.row = NoRow]
  ELSE Finish(Status("RETRY"))

StatementFails ==
  /\ job.at \in {"gates", "append", "mark", "owner", "nonce"}
  /\ Fault /\ (Redo \/ Finish(Status("DB")))
  /\ bb_db_rollback
  /\ UNCHANGED store

bb_db_commit ==
  /\ job.at = "commit"
  /\ store' = txn /\ txn' = Empty
  /\ Finish([Status("OK") EXCEPT !.id = job.req.id, !.hash = job.row.hash, !.version = job.row.version])
  /\ UNCHANGED faults

(* As if the commit's own status were not looked at. *)
CommitFails_unseen ==
  /\ job.at = "commit" /\ Fault /\ txn' = Empty /\ UNCHANGED store
  /\ Finish([Status("OK") EXCEPT !.id = job.req.id, !.hash = job.row.hash, !.version = job.row.version])

(* Told to retry, it is not committed; after any other error it may be. *)
CommitFails ==
  /\ job.at = "commit" /\ Fault /\ txn' = Empty
  /\ \/ Redo /\ UNCHANGED store
     \/ store' \in {store, txn} /\ Finish(Status("DB"))

Record ==
  \/ bb_db_begin \/ BeginFails \/ Gates \/ AppendBallot \/ MarkSuperseded \/ SetOwner
  \/ NonceMark \/ StatementFails \/ bb_db_commit \/ CommitFails

Call ==
  \/ Read \/ NextId \/ bb_transition_state \/ CallFails \/ Record
  \/ \E names \in SUBSET Accounts : bb_create_election(names)

-----------------------------------------------------------------------------
(* Properties. *)

(* "only the latest ballot is ever counted": the live ballots of an        *)
(* election are exactly the ones its owner rows point to, one per voter,   *)
(* and every ballot has used up its nonce.                                 *)
OneLiveBallot ==
  \A id \in Ids :
    LET owners == {o \in store.owner : o.id = id}
    IN  /\ {[hash |-> b.hash, version |-> b.version] : b \in Live(store, id)}
             = {[hash |-> o.hash, version |-> o.version] : o \in owners}
        /\ Cardinality(owners) = Cardinality(Live(store, id))
        /\ Cardinality(owners) = Cardinality({o.name : o \in owners})
        /\ \A b \in store.ballot : <<b.id, b.hash[1]>> \in store.nonce

Polling(id) == \E e \in Elections(store, id) : e.state = "OPEN"

LeavesClosed ==
  \A id \in Ids : ~Polling(id) =>
    {b \in store'.ballot : b.id = id} = {b \in store.ballot : b.id = id}

(* Ballots change only while their election is open: from the step that    *)
(* closes it on they stay as they are, so that what is published is what   *)
(* was voted. What the code does not rule out is that a closed id becomes  *)
(* open again: when the table cannot be read bb_alloc_id hands out the     *)
(* first id, in use or not, and the second draft under it, once opened,    *)
(* opens the id (run_update_state rewrites every row of it).               *)
BallotsFrozen == [][LeavesClosed]_store
=============================================================================
