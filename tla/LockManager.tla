---------------------------- MODULE LockManager ----------------------------
(***************************************************************************)
(* Page locks of the storage engine (db/src/java/simpledb/storage/         *)
(* LockManager.java).  Every transaction runs in a thread of its own.      *)
(* acquire is a loop around one synchronized block: grant the lock, or     *)
(* note what is waited for, look for a deadlock, and sleep; each pass      *)
(* through the block is a step here.  A transaction that is thrown out of  *)
(* acquire still holds its locks until its session completes it.           *)
(***************************************************************************)
EXTENDS Integers, FiniteSets

CONSTANTS
  Tids,      \* transactions
  Pages,     \* pages they lock
  NoPage,    \* waitingFor has no entry
  MaxCalls   \* bound: calls of acquire one transaction makes

ASSUME LockAssumption == NoPage \notin Pages /\ MaxCalls \in Nat

VARIABLES
  holders,     \* LockState.holders; an absent LockState holds nothing
  exclusive,   \* LockState.exclusive
  waitingFor,  \* the page each transaction is sleeping on
  want,        \* what for: the sleeping thread's exclusive
  phase,       \* "active", "aborting" (thrown out of acquire), "done"
  granted,     \* what acquire has told each transaction it may rely on
  calls        \* calls of acquire made

lockVars == <<holders, exclusive, waitingFor, want, phase, granted, calls>>

LockInit ==
  /\ holders = [p \in Pages |-> {}]
  /\ exclusive = [p \in Pages |-> FALSE]
  /\ waitingFor = [t \in Tids |-> NoPage]
  /\ want = [t \in Tids |-> FALSE]
  /\ phase = [t \in Tids |-> "active"]
  /\ granted = [t \in Tids |-> [p \in Pages |-> "none"]]
  /\ calls = [t \in Tids |-> 0]

-----------------------------------------------------------------------------
(* The wait-for graph W, over the locks H: t waits for the other holders   *)
(* of its page.                                                            *)
waitEdges(W, H, t) == IF W[t] = NoPage THEN {} ELSE H[W[t]] \ {t}

(* As if only two transactions could wait for each other. *)
hasDeadlock_pairs(W, H, start) ==
  \E t \in waitEdges(W, H, start) : start \in waitEdges(W, H, t)

(* The search comes back to start unless the transactions it visits, which *)
(* are closed under "waits for", leave start out.                          *)
hasDeadlock(W, H, start) ==
  \A visited \in SUBSET Tids :
    /\ waitEdges(W, H, start) \subseteq visited
    /\ \A t \in visited : waitEdges(W, H, t) \subseteq visited
    => start \in visited

(* As if a reader could always become the writer. *)
tryAcquire_upgrades(t, p, ex) ==
  \/ holders[p] = {}
  \/ t \in holders[p]
  \/ ~ex /\ ~exclusive[p]

(* Whether t gets the lock now: nobody has it; t has it, in a mode that is *)
(* enough or that nobody else is in the way of raising; or it is shared.   *)
tryAcquire(t, p, ex) ==
  \/ holders[p] = {}
  \/ t \in holders[p] /\ (exclusive[p] \/ ~ex \/ holders[p] = {t})
  \/ ~ex /\ ~exclusive[p]

(* The mode of the lock t has just been given. *)
GrantedMode(t, p, ex) == ex \/ (exclusive[p] /\ holders[p] # {})

Grant(t, p, ex) ==
  /\ tryAcquire(t, p, ex)
  /\ holders' = [holders EXCEPT ![p] = @ \cup {t}]
  /\ exclusive' = [exclusive EXCEPT ![p] = GrantedMode(t, p, ex)]
  /\ waitingFor' = [waitingFor EXCEPT ![t] = NoPage]
  /\ granted' = [granted EXCEPT ![t][p] = IF ex THEN "X" ELSE IF @ = "X" THEN @ ELSE "S"]
  /\ want' = [want EXCEPT ![t] = FALSE]
  /\ UNCHANGED phase

(* Otherwise it sleeps, and will try again; *)
Wait(t, p, ex) ==
  LET W == [waitingFor EXCEPT ![t] = p]
  IN  /\ ~tryAcquire(t, p, ex) /\ ~hasDeadlock(W, holders, t)
      /\ waitingFor' = W
      /\ want' = [want EXCEPT ![t] = ex]
      /\ UNCHANGED <<holders, exclusive, phase, granted>>

(* unless it would wait for itself: then it is the one to give up. *)
Abandon(t, p, ex) ==
  /\ ~tryAcquire(t, p, ex) /\ hasDeadlock([waitingFor EXCEPT ![t] = p], holders, t)
  /\ waitingFor' = [waitingFor EXCEPT ![t] = NoPage]
  /\ want' = [want EXCEPT ![t] = FALSE]
  /\ phase' = [phase EXCEPT ![t] = "aborting"]
  /\ UNCHANGED <<holders, exclusive, granted>>

Attempt(t, p, ex) == Grant(t, p, ex) \/ Wait(t, p, ex) \/ Abandon(t, p, ex)

(* A call of acquire, up to its first sleep. *)
acquire(t, p, ex) ==
  /\ phase[t] = "active" /\ waitingFor[t] = NoPage /\ calls[t] < MaxCalls
  /\ calls' = [calls EXCEPT ![t] = @ + 1]
  /\ Attempt(t, p, ex)

(* The sleep is over. *)
Retry(t) ==
  /\ waitingFor[t] # NoPage
  /\ Attempt(t, waitingFor[t], want[t])
  /\ UNCHANGED calls

(* The sleeping thread is interrupted: the runner is shutting down. *)
Interrupt(t) ==
  /\ waitingFor[t] # NoPage
  /\ waitingFor' = [waitingFor EXCEPT ![t] = NoPage]
  /\ want' = [want EXCEPT ![t] = FALSE]
  /\ phase' = [phase EXCEPT ![t] = "aborting"]
  /\ UNCHANGED <<holders, exclusive, granted, calls>>

(* The locks without t's on the given pages; an entry nobody holds any     *)
(* longer is dropped, and with it its mode.                                *)
Without(t, pages) ==
  [p \in Pages |-> IF p \in pages THEN holders[p] \ {t} ELSE holders[p]]

Released(t, pages) ==
  /\ holders' = Without(t, pages)
  /\ exclusive' = [p \in Pages |-> exclusive[p] /\ holders'[p] # {}]
  /\ granted' = [granted EXCEPT ![t] = [p \in Pages |-> IF p \in pages THEN "none" ELSE @[p]]]

pagesHeldBy(t) == {p \in Pages : t \in holders[p]}

(* A lock let go early: an insert looking for room has passed this page. *)
release(t, p) ==
  /\ phase[t] = "active" /\ waitingFor[t] = NoPage /\ granted[t][p] = "S"
  /\ Released(t, {p})
  /\ UNCHANGED <<waitingFor, want, phase, calls>>

(* The transaction commits, or its session aborts it. *)
releaseAll(t) ==
  /\ phase[t] # "done" /\ waitingFor[t] = NoPage
  /\ Released(t, Pages)
  /\ phase' = [phase EXCEPT ![t] = "done"]
  /\ UNCHANGED <<waitingFor, want, calls>>

LockNext ==
  \E t \in Tids :
    \/ \E p \in Pages, ex \in BOOLEAN : acquire(t, p, ex)
    \/ Retry(t)
    \/ Interrupt(t)
    \/ \E p \in Pages : release(t, p)
    \/ releaseAll(t)

LockSpec == LockInit /\ [][LockNext]_lockVars

(* A sleeping thread wakes up, and a transaction that is not asleep is     *)
(* brought to its end by its session.                                      *)
LockFairness == \A t \in Tids : WF_lockVars(Retry(t)) /\ WF_lockVars(releaseAll(t))

-----------------------------------------------------------------------------
(* Properties. *)

(* The types; only a running transaction is noted as waiting, and only a   *)
(* held lock has a mode.                                                   *)
LockTypeOK ==
  /\ holders \in [Pages -> SUBSET Tids] /\ exclusive \in [Pages -> BOOLEAN]
  /\ waitingFor \in [Tids -> Pages \cup {NoPage}] /\ want \in [Tids -> BOOLEAN]
  /\ phase \in [Tids -> {"active", "aborting", "done"}]
  /\ granted \in [Tids -> [Pages -> {"none", "S", "X"}]]
  /\ calls \in [Tids -> 0..MaxCalls]
  /\ \A t \in Tids : phase[t] # "active" => waitingFor[t] = NoPage
  /\ \A p \in Pages : exclusive[p] => holders[p] # {}

(* A lock once granted is kept: whoever acquire has let write a page is    *)
(* alone on it, and whoever it has let read one still shares it, until the *)
(* transaction itself lets go.                                             *)
GrantsHold ==
  \A t \in Tids, p \in Pages :
    /\ granted[t][p] = "X" => holders[p] = {t} /\ exclusive[p]
    /\ granted[t][p] = "S" => t \in holders[p]

(* Nobody waits in a circle: in every set of transactions there is one     *)
(* that waits for none of the others, so the engine "aborts one side of a  *)
(* deadlock rather than hanging".                                          *)
NoDeadlock ==
  \A S \in (SUBSET Tids) \ {{}} : \E t \in S : waitEdges(waitingFor, holders, t) \cap S = {}

(* Every transaction comes to an end: its locks are granted in time, or it *)
(* is aborted.                                                             *)
EveryoneFinishes == <>[](\A t \in Tids : phase[t] = "done")

=============================================================================
