------------------------------ MODULE Storage ------------------------------
(***************************************************************************)
(* The storage engine under the SQL sessions: BufferPool, LogFile, HeapFile*)
(* and Transaction, over the page locks of LockManager.  Each session runs *)
(* one transaction at a time in a thread of its own; mon is the buffer     *)
(* pool's monitor, held across the steps of a commit because the process   *)
(* may be killed between them.  A page is its set of tuples.               *)
(*                                                                         *)
(* A transaction that is not asleep is at one of                           *)
(*   new, idle (between statements), lock, fetch, full, grow, edit, put    *)
(*   (inside a statement), flush, write, log (inside commit), undo (inside *)
(*   abort), acked, aborted, lost, unlogged (killed with the process; the  *)
(*   second when only its commit record was missing).                      *)
(***************************************************************************)
EXTENDS LockManager, Sequences

CONSTANTS
  NoTid,         \* no transaction
  PoolSize,      \* numPages of the buffer pool
  SlotsPerPage,  \* tuples a page holds
  MaxRestarts    \* bound: times the process is killed and started again

ASSUME StorageAssumption ==
  /\ Cardinality(Pages) \in Nat \ {0} /\ Pages = 0..(Cardinality(Pages) - 1)
  /\ NoTid \notin Tids
  /\ PoolSize \in Nat \ {0} /\ SlotsPerPage \in Nat \ {0} /\ MaxRestarts \in Nat

VARIABLES
  pool,      \* BufferPool.pages: cached page -> [data, before, dirty]
  disk,      \* the table's file
  numPages,  \* its length, in pages
  log,       \* the log file, from its last truncation
  op,        \* what each session is doing, and where it is
  obj,       \* the page object a session has in hand between getPage and put
  mon,       \* who is inside the buffer pool's monitor over several steps
  ins, del,  \* what each transaction has inserted and deleted
  up,        \* whether the process runs
  restarts   \* times it was killed

storageVars == <<pool, disk, numPages, log, op, obj, mon, ins, del, up, restarts>>
engineVars == <<lockVars, storageVars>>

OldTuple == <<NoTid, 1>>
Tuples == (Tids \X (1..MaxCalls)) \cup {OldTuple}
NoTuple == <<NoTid, 0>>
Fresh(data) == [data |-> data, before |-> data, dirty |-> NoTid]
NoObject == Fresh({})
At(where) == [at |-> where, kind |-> "none", page |-> 0, ex |-> FALSE, held |-> FALSE,
              tup |-> NoTuple]

(* A table file of one page, which an earlier session may have written to. *)
Init ==
  /\ LockInit
  /\ pool = <<>>
  /\ disk \in {[p \in Pages |-> IF p = 0 THEN old ELSE {}] : old \in SUBSET {OldTuple}}
  /\ numPages = 1
  /\ log = <<>>
  /\ op = [t \in Tids |-> At("new")]
  /\ obj = [t \in Tids |-> NoObject]
  /\ mon = NoTid
  /\ ins = [t \in Tids |-> {}] /\ del = [t \in Tids |-> {}]
  /\ up = TRUE /\ restarts = 0

Cached(p) == p \in DOMAIN pool
With(f, p, page) == [q \in DOMAIN f \cup {p} |-> IF q = p THEN page ELSE f[q]]
Dropping(f, pages) == [q \in DOMAIN f \ pages |-> f[q]]
Record(type, t) == [type |-> type, tid |-> t, page |-> NoPage, before |-> {}, after |-> {}]
Go(t, where) == op' = [op EXCEPT ![t].at = where]
Running(t, where) == up /\ op[t].at = where /\ phase[t] = "active"

-----------------------------------------------------------------------------
(* A statement: pages are locked and fetched one after the other. *)

(* Transaction.start *)
logXactionBegin(t) ==
  /\ Running(t, "new")
  /\ log' = Append(log, Record("BEGIN", t))
  /\ Go(t, "idle")
  /\ UNCHANGED <<lockVars, pool, disk, numPages, obj, mon, ins, del, up, restarts>>

(* getPage of page p; an insert notes whether it held the lock before. *)
Visit(o, t, p) ==
  [o EXCEPT !.at = "lock", !.page = p, !.held = t \in holders[p]]

(* INSERT looks for a page with room from the first page on; SELECT and    *)
(* DELETE read the pages.                                                  *)
StartStatement(t, o) ==
  /\ Running(t, "idle") /\ calls[t] < MaxCalls
  /\ op' = [op EXCEPT ![t] = o]
  /\ UNCHANGED <<lockVars, pool, disk, numPages, log, obj, mon, ins, del, up, restarts>>

Statement(t) ==
  \/ StartStatement(t, Visit([At("idle") EXCEPT !.kind = "insert", !.tup = <<t, calls[t] + 1>>], t, 0))
  \/ \E p \in 0..(numPages - 1) :
       StartStatement(t, Visit([At("idle") EXCEPT !.kind = "scan"], t, p))

(* The lock comes first, outside the monitor. *)
Lock(t) ==
  /\ Running(t, "lock")
  /\ acquire(t, op[t].page, op[t].ex) \/ Retry(t)
  /\ op' = [op EXCEPT ![t].at =
              IF waitingFor'[t] = NoPage /\ phase'[t] = "active" THEN "fetch" ELSE "lock"]
  /\ UNCHANGED <<pool, disk, numPages, log, obj, mon, ins, del, up, restarts>>

(* What the session does with the page it gets: an insert turns to writing *)
(* when there is room, a scan may pick a tuple to delete.                  *)
Onward(o, page) ==
  IF o.ex THEN {[o EXCEPT !.at = "edit"]}
  ELSE IF o.kind = "insert"
       THEN {IF Cardinality(page.data) < SlotsPerPage
             THEN [o EXCEPT !.at = "lock", !.ex = TRUE] ELSE [o EXCEPT !.at = "full"]}
       ELSE {At("idle")} \cup {[o EXCEPT !.at = "lock", !.ex = TRUE, !.tup = x] : x \in page.data}

(* As if a page could be stolen from the transaction that changed it. *)
Clean_any == DOMAIN pool

Clean == {q \in DOMAIN pool : pool[q].dirty = NoTid}

(* evictPage: any clean page may go (NO STEAL), if the pool is full. *)
Evicted ==
  IF Cardinality(DOMAIN pool) < PoolSize THEN {pool}
  ELSE {Dropping(pool, {q}) : q \in Clean}

Fetch(t) ==
  LET p == op[t].page
  IN  /\ Running(t, "fetch") /\ mon = NoTid
      /\ \/ Cached(p) /\ pool' = pool
         \/ ~Cached(p) /\ \E rest \in Evicted : pool' = With(rest, p, Fresh(disk[p]))
      /\ obj' = IF op[t].ex THEN [obj EXCEPT ![t] = pool'[p]] ELSE obj
      /\ \E o \in Onward(op[t], pool'[p]) : op' = [op EXCEPT ![t] = o]
      /\ UNCHANGED <<lockVars, disk, numPages, log, mon, ins, del, up, restarts>>

(* "all pages are dirty; cannot evict under NO STEAL": the statement fails *)
(* and its transaction is aborted.                                         *)
FetchFails(t) ==
  /\ Running(t, "fetch") /\ mon = NoTid /\ ~Cached(op[t].page) /\ Evicted = {}
  /\ phase' = [phase EXCEPT ![t] = "aborting"]
  /\ UNCHANGED <<holders, exclusive, waitingFor, want, granted, calls, storageVars>>

(* No room: the page is let go again unless it was held before.  When the  *)
(* last one is full the file grows by an empty page.                       *)
NextPage(t) ==
  LET p == op[t].page
  IN  /\ Running(t, "full")
      /\ IF op[t].held THEN UNCHANGED lockVars ELSE release(t, p)
      /\ op' = [op EXCEPT ![t] = IF p + 1 < numPages THEN Visit(@, t, p + 1)
                                 ELSE [@ EXCEPT !.at = "grow"]]
      /\ UNCHANGED <<pool, disk, numPages, log, obj, mon, ins, del, up, restarts>>

Grow(t) ==
  /\ Running(t, "grow") /\ numPages \in Pages
  /\ disk' = [disk EXCEPT ![numPages] = {}]
  /\ numPages' = numPages + 1
  /\ op' = [op EXCEPT ![t].at = "lock", ![t].page = numPages, ![t].ex = TRUE]
  /\ UNCHANGED <<lockVars, pool, log, obj, mon, ins, del, up, restarts>>

(* HeapPage.insertTuple and deleteTuple change the object in place, before *)
(* anybody marks it dirty; the pool may or may not still have it.          *)
Edit(t) ==
  LET p == op[t].page
      x == op[t].tup
      data == IF op[t].kind = "insert" THEN obj[t].data \cup {x} ELSE obj[t].data \ {x}
  IN  /\ Running(t, "edit")
      /\ op[t].kind = "insert" => Cardinality(obj[t].data) < SlotsPerPage
      /\ obj' = [obj EXCEPT ![t].data = data]
      /\ pool' = IF Cached(p) THEN [pool EXCEPT ![p].data = data] ELSE pool
      /\ ins' = [ins EXCEPT ![t] = IF op[t].kind = "insert" THEN @ \cup {x} ELSE @ \ {x}]
      /\ del' = [del EXCEPT ![t] = IF op[t].kind = "insert" \/ x \in ins[t] THEN @ ELSE @ \cup {x}]
      /\ Go(t, "put")
      /\ UNCHANGED <<lockVars, disk, numPages, log, mon, up, restarts>>

(* "page is full": others have filled the page this insert added. *)
EditFails(t) ==
  /\ Running(t, "edit") /\ op[t].kind = "insert" /\ Cardinality(obj[t].data) >= SlotsPerPage
  /\ phase' = [phase EXCEPT ![t] = "aborting"]
  /\ UNCHANGED <<holders, exclusive, waitingFor, want, granted, calls, storageVars>>

(* BufferPool.insertTuple and deleteTuple: mark it dirty, put it back. *)
Put(t) ==
  /\ Running(t, "put") /\ mon = NoTid
  /\ pool' = With(pool, op[t].page, [obj[t] EXCEPT !.dirty = t])
  /\ op' = [op EXCEPT ![t] = At("idle")]
  /\ obj' = [obj EXCEPT ![t] = NoObject]
  /\ UNCHANGED <<lockVars, disk, numPages, log, mon, ins, del, up, restarts>>

-----------------------------------------------------------------------------
(* Commit: BufferPool.transactionComplete(tid, true), then the log record. *)

(* flushPages, with the monitor: each dirty page of t is logged, *)
StartCommit(t) ==
  /\ Running(t, "idle") /\ mon = NoTid
  /\ mon' = t
  /\ Go(t, "flush")
  /\ UNCHANGED <<lockVars, pool, disk, numPages, log, obj, ins, del, up, restarts>>

DirtyPages(t) == {p \in DOMAIN pool : pool[p].dirty = t}

(* As if the page went to its file before its record to the log. *)
logWrite_late(t, p) ==
  /\ Running(t, "flush") /\ p \in DirtyPages(t)
  /\ op' = [op EXCEPT ![t].at = "write", ![t].page = p]
  /\ UNCHANGED <<lockVars, pool, disk, numPages, log, obj, mon, ins, del, up, restarts>>

logWrite(t, p) ==
  /\ Running(t, "flush") /\ p \in DirtyPages(t)
  /\ log' = Append(log, [type |-> "UPDATE", tid |-> t, page |-> p,
                         before |-> pool[p].before, after |-> pool[p].data])
  /\ op' = [op EXCEPT ![t].at = "write", ![t].page = p]
  /\ UNCHANGED <<lockVars, pool, disk, numPages, obj, mon, ins, del, up, restarts>>

(* and then written to its file. *)
writePage(t) ==
  LET p == op[t].page
  IN  /\ Running(t, "write")
      /\ disk' = [disk EXCEPT ![p] = pool[p].data]
      /\ pool' = [pool EXCEPT ![p].dirty = NoTid]
      /\ Go(t, "flush")
      /\ UNCHANGED <<lockVars, numPages, log, obj, mon, ins, del, up, restarts>>

(* What every page t held becomes: its contents are the next before-image. *)
Imaged(t) ==
  [p \in DOMAIN pool |-> IF p \in pagesHeldBy(t) THEN [pool[p] EXCEPT !.before = pool[p].data]
                         ELSE pool[p]]

transactionComplete(t) ==
  /\ Running(t, "flush") /\ DirtyPages(t) = {}
  /\ pool' = Imaged(t)
  /\ releaseAll(t)
  /\ mon' = NoTid
  /\ Go(t, "log")
  /\ UNCHANGED <<disk, numPages, log, obj, ins, del, up, restarts>>

(* The commit record comes last, after the locks are gone; then the client *)
(* is told.                                                                *)
logCommit(t) ==
  /\ up /\ op[t].at = "log"
  /\ log' = Append(log, Record("COMMIT", t))
  /\ Go(t, "acked")
  /\ UNCHANGED <<lockVars, pool, disk, numPages, obj, mon, ins, del, up, restarts>>

-----------------------------------------------------------------------------
(* Abort, asked for, or because a statement failed or the client hung up.  *)

Updates(l, p) == {k \in DOMAIN l : l[k].type = "UPDATE" /\ l[k].page = p}

(* rollback: the earliest before-image of every page t has logged. *)
Logged(t) == {p \in Pages : \E k \in Updates(log, p) : log[k].tid = t}
FirstBefore(t, p) ==
  LET mine == {k \in Updates(log, p) : log[k].tid = t}
  IN  log[CHOOSE k \in mine : \A j \in mine : k <= j].before

logAbort(t) ==
  /\ up /\ mon = NoTid
  /\ phase[t] = "aborting" \/ Running(t, "idle")
  /\ op[t].at # "undo"
  /\ disk' = [p \in Pages |-> IF p \in Logged(t) THEN FirstBefore(t, p) ELSE disk[p]]
  /\ pool' = Dropping(pool, Logged(t))
  /\ log' = Append(log, Record("ABORT", t))
  /\ op' = [op EXCEPT ![t] = At("undo")] /\ obj' = [obj EXCEPT ![t] = NoObject]
  /\ UNCHANGED <<lockVars, numPages, mon, ins, del, up, restarts>>

(* transactionComplete(tid, false): every page it held is dropped. *)
discardPages(t) ==
  /\ up /\ op[t].at = "undo" /\ mon = NoTid
  /\ pool' = Dropping(pool, pagesHeldBy(t))
  /\ releaseAll(t)
  /\ op' = [op EXCEPT ![t] = At("aborted")]
  /\ UNCHANGED <<disk, numPages, log, obj, mon, ins, del, up, restarts>>

-----------------------------------------------------------------------------
(* The process is killed, and started again. *)

Crash ==
  LET over == {t \in Tids : op[t].at \in {"new", "acked", "aborted", "lost", "unlogged"}}
  IN  /\ up /\ restarts < MaxRestarts
      /\ up' = FALSE /\ restarts' = restarts + 1
      /\ pool' = <<>> /\ obj' = [t \in Tids |-> NoObject] /\ mon' = NoTid
      /\ op' = [t \in Tids |-> IF t \in over THEN op[t]
                             ELSE At(IF op[t].at = "log" THEN "unlogged" ELSE "lost")]
      /\ holders' = [p \in Pages |-> {}] /\ exclusive' = [p \in Pages |-> FALSE]
      /\ waitingFor' = [t \in Tids |-> NoPage] /\ want' = [t \in Tids |-> FALSE]
      /\ granted' = [t \in Tids |-> [p \in Pages |-> "none"]]
      /\ phase' = [t \in Tids |-> IF op[t].at = "new" THEN "active" ELSE "done"]
      /\ UNCHANGED <<calls, disk, numPages, log, ins, del>>

(* computeStatistics scans every table in a transaction of its own.  The   *)
(* first record written after the process has started throws the old log   *)
(* away (preAppend), because nobody has asked for recovery yet.            *)
computeStatistics(l) == <<Record("BEGIN", NoTid), Record("COMMIT", NoTid)>>

Committed(l) == {l[k].tid : k \in {j \in DOMAIN l : l[j].type = "COMMIT"}}

(* As if the first record of a page settled it. *)
recover_first(l, d) ==
  [p \in Pages |->
     IF Updates(l, p) = {} THEN d[p]
     ELSE LET r == l[CHOOSE k \in Updates(l, p) : \A j \in Updates(l, p) : j >= k]
          IN  IF r.tid \in Committed(l) THEN r.after ELSE r.before]

(* recover: the records are replayed in order, the after-image where the   *)
(* transaction committed and the before-image where it did not, so the     *)
(* last record of a page settles it.                                       *)
recover(l, d) ==
  [p \in Pages |->
     IF Updates(l, p) = {} THEN d[p]
     ELSE LET r == l[CHOOSE k \in Updates(l, p) : \A j \in Updates(l, p) : j <= k]
          IN  IF r.tid \in Committed(l) THEN r.after ELSE r.before]

Start ==
  /\ ~up /\ up' = TRUE
  /\ log' = computeStatistics(log)
  /\ disk' = recover(log', disk)
  /\ UNCHANGED <<lockVars, pool, numPages, op, obj, mon, ins, del, restarts>>

-----------------------------------------------------------------------------
Step(t) ==
  \/ logXactionBegin(t) \/ Statement(t) \/ Lock(t) \/ Fetch(t) \/ FetchFails(t)
  \/ NextPage(t) \/ Grow(t) \/ Edit(t) \/ EditFails(t) \/ Put(t)
  \/ StartCommit(t) \/ (\E p \in Pages : logWrite(t, p)) \/ writePage(t)
  \/ transactionComplete(t) \/ logCommit(t)
  \/ logAbort(t) \/ discardPages(t)

Next == (\E t \in Tids : Step(t)) \/ Crash \/ Start

Spec == Init /\ [][Next]_engineVars

-----------------------------------------------------------------------------
(* Properties. *)

(* What a session that locks page p next will find. *)
Image(p) == IF Cached(p) THEN pool[p].before ELSE disk[p]

Visible == UNION {Image(p) : p \in Pages}

(* What is not committed can be taken back: in the pool it is locked by    *)
(* the transaction that wrote it, from the edit in place to the end, and   *)
(* where the file is ahead of what is committed the log has the old        *)
(* contents ("the update record must reach disk before the page does").    *)
UncommittedHeld ==
  /\ \A p \in DOMAIN pool :
       pool[p].data # pool[p].before =>
         \E t \in Tids : granted[t][p] = "X" /\ pool[p].dirty \in {t, NoTid}
  /\ up => \A p \in Pages : disk[p] # Image(p) =>
       \E k \in Updates(log, p) : log[k].before = Image(p) /\ log[k].after = disk[p]

Undecided(t) == op[t].at \in {"flush", "write", "log", "lost", "unlogged"}

(* Were recover() given this log and file, every acknowledged transaction  *)
(* would be there and no other, but for those caught in their commit.      *)
RecoveryRight ==
  up => LET found == UNION {recover(log, disk)[p] : p \in Pages}
            gone == UNION {del[t] : t \in {u \in Tids : Undecided(u) \/ op[u].at = "acked"}}
        IN  \A t \in Tids :
              IF op[t].at = "acked" THEN ins[t] \ gone \subseteq found /\ del[t] \cap found = {}
              ELSE Undecided(t) \/ ins[t] \cap found = {}

(* What a crash cut off is undone: after a restart nothing is seen of a     *)
(* transaction without a commit record, even if its pages had gone to disk *)
(* ("The log's recovery pass undoes exactly those").  It does not hold:    *)
(* computeStatistics runs before recover, and the first record of its      *)
(* transaction throws away the log that recover would have needed.         *)
CrashUndone ==
  up => \A t \in Tids : op[t].at \in {"lost", "unlogged"} => ins[t] \cap Visible = {}

(* Where a transaction of the engine is, for TransactionalStore. *)
StoreStatus ==
  [t \in Tids |->
     LET a == op[t].at
     IN  CASE a \in {"new", "aborted", "lost"} -> a
           [] a \in {"flush", "write"} -> "committing"
           [] a \in {"log", "acked", "unlogged"} -> "committed"
           [] OTHER -> "running"]

Store == INSTANCE TransactionalStore WITH db <- Visible, status <- StoreStatus

(* BufferPool, LogFile and the page locks together implement               *)
(* TransactionalStore: commits and aborts take effect whole, whatever is   *)
(* evicted or interleaved, and a crash takes away no commit that was       *)
(* acknowledged and all of what was still running.  A commit that a crash  *)
(* cuts off is not covered: TransactionalStore lets it be left in part,    *)
(* which the engine does (CrashUndone).                                    *)
KeepsPromise == Store!StoreSpec
=============================================================================
