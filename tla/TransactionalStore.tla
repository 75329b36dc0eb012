------------------------- MODULE TransactionalStore -------------------------
(***************************************************************************)
(* What the storage engine promises its sessions: a set of tuples that     *)
(* transactions change in isolation and all at once.  A crash drops the    *)
(* transactions that have not been asked to commit; one caught while its   *)
(* commit is being written may be left in part, and nothing else changes.  *)
(***************************************************************************)
EXTENDS FiniteSets

CONSTANTS Tids, Tuples

VARIABLES
  db,      \* the committed tuples
  status,  \* "new", "running", "committing", "committed", "aborted", "lost"
  ins,     \* tuples a transaction adds
  del      \* committed tuples it removes

storeVars == <<db, status, ins, del>>

StoreInit ==
  /\ db \in SUBSET Tuples
  /\ status = [t \in Tids |-> "new"]
  /\ ins = [t \in Tids |-> {}]
  /\ del = [t \in Tids |-> {}]

Move(t, from, to) == status[t] = from /\ status' = [status EXCEPT ![t] = to]

Active(t) == status[t] \in {"running", "committing"}

Begin(t) == Move(t, "new", "running") /\ UNCHANGED <<db, ins, del>>

Insert(t, x) ==
  /\ status[t] = "running" /\ x \notin db /\ \A u \in Tids : x \notin ins[u]
  /\ ins' = [ins EXCEPT ![t] = @ \cup {x}]
  /\ UNCHANGED <<db, status, del>>

(* A transaction removes what it sees: committed tuples, which no other    *)
(* transaction is removing, and its own.                                   *)
Delete(t, x) ==
  /\ status[t] = "running"
  /\ \/ x \in ins[t] /\ ins' = [ins EXCEPT ![t] = @ \ {x}] /\ UNCHANGED del
     \/ /\ x \in db /\ \A u \in Tids : Active(u) => x \notin del[u]
        /\ del' = [del EXCEPT ![t] = @ \cup {x}] /\ UNCHANGED ins
  /\ UNCHANGED <<db, status>>

AskCommit(t) == Move(t, "running", "committing") /\ UNCHANGED <<db, ins, del>>

Commit(t) ==
  /\ Move(t, "committing", "committed")
  /\ db' = (db \ del[t]) \cup ins[t]
  /\ UNCHANGED <<ins, del>>

Abort(t) == Move(t, "running", "aborted") /\ UNCHANGED <<db, ins, del>>

Crash ==
  LET doubt == {t \in Tids : status[t] = "committing"}
  IN  /\ status' = [t \in Tids |-> IF Active(t) THEN "lost" ELSE status[t]]
      /\ db' \in SUBSET Tuples
      /\ db' \ db \subseteq UNION {ins[t] : t \in doubt}
      /\ db \ db' \subseteq UNION {del[t] : t \in doubt}
      /\ UNCHANGED <<ins, del>>

StoreNext ==
  \/ \E t \in Tids : Begin(t) \/ AskCommit(t) \/ Commit(t) \/ Abort(t)
  \/ \E t \in Tids, x \in Tuples : Insert(t, x) \/ Delete(t, x)
  \/ Crash

StoreSpec == StoreInit /\ [][StoreNext]_storeVars
=============================================================================
