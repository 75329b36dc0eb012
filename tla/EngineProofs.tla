---------------------------- MODULE EngineProofs ----------------------------
(* The lock manager is right for any number of transactions and pages; what *)
(* the storage engine keeps, and that starting statements keeps it.         *)
EXTENDS Storage, TLAPS


(* What the grants rest on: the table lists exactly the locks granted, and *)
(* an exclusive entry has one holder.                                      *)
Recorded == \A t \in Tids, p \in Pages : t \in holders[p] <=> granted[t][p] # "none"
Alone == \A p \in Pages : exclusive[p] => \A t \in holders[p] : holders[p] = {t}

LockInv == LockTypeOK /\ Recorded /\ Alone /\ GrantsHold

(* A pass through acquire's synchronized block keeps them. *)
LEMMA AttemptKeeps ==
  ASSUME LockInv, NEW t \in Tids, NEW p \in Pages, NEW ex \in BOOLEAN,
         Attempt(t, p, ex), calls' \in [Tids -> 0..MaxCalls], phase[t] = "active"
  PROVE  LockInv'
<1>1. CASE Grant(t, p, ex)
  <2>1. LockTypeOK'
    BY <1>1, ZenonT(60) DEF LockInv, LockTypeOK, Grant, GrantedMode
  <2>2. \A q \in Pages : /\ q # p => holders'[q] = holders[q] /\ exclusive'[q] = exclusive[q]
                         /\ holders'[p] = holders[p] \cup {t}
                         /\ exclusive'[p] = GrantedMode(t, p, ex)
    BY <1>1 DEF LockInv, LockTypeOK, Grant
  <2>3. /\ \A u \in Tids, q \in Pages : <<u, q>> # <<t, p>> => granted'[u][q] = granted[u][q]
        /\ granted'[t][p] = IF ex THEN "X" ELSE IF granted[t][p] = "X" THEN "X" ELSE "S"
    BY <1>1 DEF LockInv, LockTypeOK, Grant
  <2>4. Recorded' BY <2>2, <2>3, SMTT(60) DEF LockInv, LockTypeOK, Recorded
  <2>5. ASSUME GrantedMode(t, p, ex) PROVE holders[p] \cup {t} = {t}
    BY <1>1, <2>5 DEF LockInv, LockTypeOK, Alone, Grant, tryAcquire, GrantedMode
  <2>6. Alone' BY <2>2, <2>5, ZenonT(60) DEF LockInv, LockTypeOK, Alone
  <2>7. ASSUME NEW u \in Tids, NEW q \in Pages, granted'[u][q] = "X"
        PROVE  holders'[q] = {u} /\ exclusive'[q]
    <3>1. CASE <<u, q>> # <<t, p>>
      <4>1. holders[q] = {u} /\ exclusive[q] BY <2>7, <2>3, <3>1 DEF LockInv, GrantsHold
      <4>2. q # p
        BY <1>1, <3>1, <4>1, ZenonT(60) DEF Grant, tryAcquire
      <4> QED BY <4>1, <4>2, <2>2
    <3>2. CASE u = t /\ q = p
      <4>1. GrantedMode(t, p, ex)
        BY <2>3, <2>7, <3>2 DEF GrantedMode, LockInv, GrantsHold
      <4> QED BY <4>1, <2>2, <2>5, <3>2, ZenonT(60)
    <3> QED BY <3>1, <3>2
  <2>8. ASSUME NEW u \in Tids, NEW q \in Pages, granted'[u][q] = "S" PROVE u \in holders'[q]
    BY <2>4, <2>8 DEF Recorded
  <2> QED BY <2>1, <2>4, <2>6, <2>7, <2>8 DEF LockInv, GrantsHold
<1>2. CASE Wait(t, p, ex)
  BY <1>2 DEF LockInv, LockTypeOK, Recorded, Alone, GrantsHold, Wait
<1>3. CASE Abandon(t, p, ex)
  BY <1>3 DEF LockInv, LockTypeOK, Recorded, Alone, GrantsHold, Abandon
<1> QED BY <1>1, <1>2, <1>3 DEF Attempt

(* So does letting go. *)
LEMMA ReleasedKeeps ==
  ASSUME LockInv, NEW t \in Tids, NEW pages \in SUBSET Pages, Released(t, pages),
         UNCHANGED <<waitingFor, want, calls>>,
         phase' \in [Tids -> {"active", "aborting", "done"}],
         \A u \in Tids : phase'[u] # "active" => waitingFor[u] = NoPage
  PROVE  LockInv'
<1>1. LockTypeOK'
  <2>1. holders' \in [Pages -> SUBSET Tids] /\ exclusive' \in [Pages -> BOOLEAN]
    BY DEF LockInv, LockTypeOK, Released, Without
  <2>2. granted' \in [Tids -> [Pages -> {"none", "S", "X"}]]
    BY DEF LockInv, LockTypeOK, Released
  <2>3. \A p \in Pages : exclusive'[p] => holders'[p] # {}
    BY ZenonT(60) DEF Released
  <2> QED BY <2>1, <2>2, <2>3 DEF LockInv, LockTypeOK
<1>2. \A p \in Pages : /\ holders'[p] = IF p \in pages THEN holders[p] \ {t} ELSE holders[p]
                       /\ exclusive'[p] <=> exclusive[p] /\ holders'[p] # {}
  BY ZenonT(60) DEF Released, Without
<1>3. \A u \in Tids, p \in Pages :
        granted'[u][p] = IF u = t /\ p \in pages THEN "none" ELSE granted[u][p]
  BY DEF LockInv, LockTypeOK, Released
<1>4. Recorded'
  <2> SUFFICES ASSUME NEW u \in Tids, NEW p \in Pages
               PROVE  u \in holders'[p] <=> granted'[u][p] # "none"
    BY DEF Recorded
  <2>1. u \in holders[p] <=> granted[u][p] # "none" BY DEF LockInv, Recorded
  <2>2. CASE p \in pages BY <1>2, <1>3, <2>1, <2>2, ZenonT(60)
  <2>3. CASE p \notin pages BY <1>2, <1>3, <2>1, <2>3, ZenonT(60)
  <2> QED BY <2>2, <2>3
<1>5. Alone'
  <2> SUFFICES ASSUME NEW p \in Pages, exclusive'[p], NEW u \in holders'[p]
               PROVE  holders'[p] = {u}
    BY DEF Alone
  <2>1. exclusive[p] /\ u \in holders[p] BY <1>2, ZenonT(60)
  <2>2. holders[p] = {u} BY <2>1 DEF LockInv, Alone
  <2> QED BY <1>2, <2>2, ZenonT(60)
<1>6. ASSUME NEW u \in Tids, NEW p \in Pages, granted'[u][p] = "X"
      PROVE  holders'[p] = {u} /\ exclusive'[p]
  <2>1. holders[p] = {u} /\ exclusive[p] /\ ~(u = t /\ p \in pages)
    BY <1>3, <1>6 DEF LockInv, GrantsHold
  <2> QED BY <2>1, <1>2, ZenonT(60)
<1> QED BY <1>1, <1>4, <1>5, <1>6 DEF LockInv, GrantsHold, Recorded

(* Every call of the lock manager keeps its books right. *)
LEMMA LockInvNext == LockInv /\ [LockNext]_lockVars => LockInv'
<1> SUFFICES ASSUME LockInv, [LockNext]_lockVars PROVE LockInv' OBVIOUS
<1>1. ASSUME NEW t \in Tids, NEW p \in Pages, NEW ex \in BOOLEAN, acquire(t, p, ex)
      PROVE  LockInv'
  <2>1. calls' \in [Tids -> 0..MaxCalls]
    BY <1>1, LockAssumption DEF acquire, LockInv, LockTypeOK
  <2> QED BY <1>1, <2>1, AttemptKeeps DEF acquire
<1>2. ASSUME NEW t \in Tids, Retry(t) PROVE LockInv'
  <2>1. /\ waitingFor[t] \in Pages /\ want[t] \in BOOLEAN
        /\ calls' \in [Tids -> 0..MaxCalls] /\ phase[t] = "active"
    BY <1>2 DEF Retry, LockInv, LockTypeOK
  <2> QED BY <1>2, <2>1, AttemptKeeps DEF Retry
<1>3. ASSUME NEW t \in Tids, Interrupt(t) PROVE LockInv'
  BY <1>3 DEF Interrupt, LockInv, LockTypeOK, Recorded, Alone, GrantsHold
<1>4. ASSUME NEW t \in Tids, NEW p \in Pages, release(t, p) PROVE LockInv'
  BY <1>4, ReleasedKeeps DEF release, LockInv, LockTypeOK
<1>5. ASSUME NEW t \in Tids, releaseAll(t) PROVE LockInv'
  <2>1. /\ phase' \in [Tids -> {"active", "aborting", "done"}]
        /\ \A u \in Tids : phase'[u] # "active" => waitingFor[u] = NoPage
    BY <1>5 DEF releaseAll, LockInv, LockTypeOK
  <2> QED BY <1>5, <2>1, ReleasedKeeps DEF releaseAll
<1>6. CASE UNCHANGED lockVars
  BY <1>6 DEF lockVars, LockInv, LockTypeOK, Recorded, Alone, GrantsHold
<1> QED BY <1>1, <1>2, <1>3, <1>4, <1>5, <1>6 DEF LockNext

(* Nobody holds a lock at first. *)
LEMMA LockInvInit == LockInit => LockInv
BY LockAssumption DEF LockInit, LockInv, LockTypeOK, Recorded, Alone, GrantsHold

-----------------------------------------------------------------------------
(* Nobody waits in a circle.  Letting a lock go, or waiting no longer,     *)
(* only removes edges of the wait-for graph.                               *)
LEMMA FewerEdges ==
  ASSUME NoDeadlock,
         \A t \in Tids : waitEdges(waitingFor, holders, t)'
                          \subseteq waitEdges(waitingFor, holders, t)
  PROVE  NoDeadlock'
<1> SUFFICES ASSUME NEW S \in SUBSET Tids, S # {}
             PROVE  \E t \in S : waitEdges(waitingFor, holders, t)' \cap S = {}
  BY DEF NoDeadlock
<1>1. PICK t \in S : waitEdges(waitingFor, holders, t) \cap S = {} BY DEF NoDeadlock
<1> QED BY <1>1

(* A grant adds edges only to a transaction that waits for nobody. *)
LEMMA GrantNoDeadlock ==
  ASSUME LockTypeOK, NoDeadlock, NEW t \in Tids, NEW p \in Pages, NEW ex \in BOOLEAN,
         Grant(t, p, ex)
  PROVE  NoDeadlock'
<1> DEFINE Now(u) == waitEdges(waitingFor, holders, u)
           Then(u) == waitEdges(waitingFor', holders', u)
<1>1. Then(t) = {} BY LockAssumption DEF Grant, LockTypeOK, waitEdges
<1>2. \A u \in Tids : Then(u) \subseteq Now(u) \cup {t}
  BY LockAssumption DEF Grant, LockTypeOK, waitEdges
<1> HIDE DEF Now, Then
<1>3. ASSUME NEW S \in SUBSET Tids, S # {} PROVE \E u \in S : Then(u) \cap S = {}
  <2>1. CASE t \in S BY <2>1, <1>1
  <2>2. CASE t \notin S
    <3>1. PICK u \in S : Now(u) \cap S = {} BY <1>3 DEF NoDeadlock, Now
    <3> QED BY <3>1, <2>2, <1>2
  <2> QED BY <2>1, <2>2
<1> QED BY <1>3 DEF NoDeadlock, Then

(* The search in hasDeadlock visits a set of transactions that is closed   *)
(* under waiting and leaves the new waiter out; a circle through the new   *)
(* waiter would leave a circle, already there, among those visited.        *)
LEMMA WaitNoDeadlock ==
  ASSUME LockTypeOK, NoDeadlock, NEW t \in Tids, NEW p \in Pages, NEW ex \in BOOLEAN,
         Wait(t, p, ex)
  PROVE  NoDeadlock'
<1> DEFINE Now(u) == waitEdges(waitingFor, holders, u)
           Then(u) == waitEdges(waitingFor', holders', u)
<1>1. PICK visited \in SUBSET Tids :
        Then(t) \subseteq visited /\ t \notin visited
        /\ \A u \in visited : Then(u) \subseteq visited
  BY ZenonT(60) DEF Wait, hasDeadlock
<1>2. \A u \in Tids : u # t => Then(u) = Now(u)
  BY DEF Wait, LockTypeOK, waitEdges
<1> HIDE DEF Now, Then
<1>3. ASSUME NEW S \in SUBSET Tids, S # {} PROVE \E u \in S : Then(u) \cap S = {}
  <2>1. CASE S \cap visited # {}
    <3>1. PICK u \in S \cap visited : Now(u) \cap (S \cap visited) = {}
      BY <2>1, ZenonT(60) DEF NoDeadlock, Now
    <3> QED BY <3>1, <1>1, <1>2
  <2>2. CASE S \cap visited = {} /\ t \in S BY <2>2, <1>1
  <2>3. CASE t \notin S
    <3>1. PICK u \in S : Now(u) \cap S = {} BY <1>3 DEF NoDeadlock, Now
    <3> QED BY <3>1, <2>3, <1>2
  <2> QED BY <2>1, <2>2, <2>3
<1> QED BY <1>3 DEF NoDeadlock, Then

(* A transaction that gets its lock, waits or is refused closes no circle. *)
LEMMA AttemptNoDeadlock ==
  ASSUME LockTypeOK, NoDeadlock, NEW t \in Tids, NEW p \in Pages, NEW ex \in BOOLEAN,
         Attempt(t, p, ex)
  PROVE  NoDeadlock'
<1>1. CASE Abandon(t, p, ex)
  BY <1>1, FewerEdges, LockAssumption DEF Abandon, LockTypeOK, waitEdges
<1> QED BY <1>1, GrantNoDeadlock, WaitNoDeadlock DEF Attempt

(* No call of the lock manager closes a circle of waiting transactions. *)
LEMMA NoDeadlockNext == LockInv /\ NoDeadlock /\ [LockNext]_lockVars => NoDeadlock'
<1> SUFFICES ASSUME LockTypeOK, NoDeadlock, [LockNext]_lockVars PROVE NoDeadlock'
  BY DEF LockInv
<1>1. ASSUME NEW t \in Tids, NEW p \in Pages, NEW ex \in BOOLEAN, acquire(t, p, ex)
      PROVE  NoDeadlock'
  BY <1>1, AttemptNoDeadlock DEF acquire
<1>2. ASSUME NEW t \in Tids, Retry(t) PROVE NoDeadlock'
  <2>1. waitingFor[t] \in Pages /\ want[t] \in BOOLEAN BY <1>2 DEF Retry, LockTypeOK
  <2> QED BY <1>2, <2>1, AttemptNoDeadlock DEF Retry
<1>3. ASSUME NEW t \in Tids, Interrupt(t) PROVE NoDeadlock'
  BY <1>3, FewerEdges, LockAssumption DEF Interrupt, LockTypeOK, waitEdges
<1>4. ASSUME NEW t \in Tids, NEW p \in Pages, release(t, p) PROVE NoDeadlock'
  BY <1>4, FewerEdges DEF release, Released, Without, LockTypeOK, waitEdges
<1>5. ASSUME NEW t \in Tids, releaseAll(t) PROVE NoDeadlock'
  BY <1>5, FewerEdges DEF releaseAll, Released, Without, LockTypeOK, waitEdges
<1>6. CASE UNCHANGED lockVars
  BY <1>6 DEF lockVars, NoDeadlock, waitEdges
<1> QED BY <1>1, <1>2, <1>3, <1>4, <1>5, <1>6 DEF LockNext

(* Nobody waits at first. *)
LEMMA NoDeadlockInit == LockInit => NoDeadlock
<1> SUFFICES ASSUME LockInit, NEW S \in SUBSET Tids, S # {}
             PROVE  \E t \in S : waitEdges(waitingFor, holders, t) \cap S = {}
  BY DEF NoDeadlock
<1>1. PICK t \in S : TRUE OBVIOUS
<1>2. waitEdges(waitingFor, holders, t) = {} BY DEF LockInit, waitEdges
<1> QED BY <1>2

-----------------------------------------------------------------------------
(* Two-phase locking gets what it is promised: a page acquire has let a    *)
(* transaction write is that transaction's alone, and one it has let it    *)
(* read stays shared with it, whatever the others acquire, upgrade,        *)
(* release or abandon.                                                     *)
THEOREM GrantsAlwaysHold == LockSpec => [](LockTypeOK /\ GrantsHold)
<1>1. LockInv => LockTypeOK /\ GrantsHold BY DEF LockInv
<1> QED BY <1>1, LockInvInit, LockInvNext, PTL DEF LockSpec

(* However many transactions wait for however many pages, there is never a *)
(* circle of them: testing only the cycle through the newest waiter, as    *)
(* acquire does, is enough.                                                *)
THEOREM NeverDeadlocked == LockSpec => []NoDeadlock
<1>1. LockInit => LockInv /\ NoDeadlock BY LockInvInit, NoDeadlockInit
<1>2. LockInv /\ NoDeadlock /\ [LockNext]_lockVars => (LockInv /\ NoDeadlock)'
  BY LockInvNext, NoDeadlockNext
<1> QED BY <1>1, <1>2, PTL DEF LockSpec

-----------------------------------------------------------------------------
(* Types. *)

Places == {"new", "idle", "lock", "fetch", "full", "grow", "edit", "put", "flush",
           "write", "log", "undo", "acked", "aborted", "lost", "unlogged"}
Over == {"log", "acked", "aborted", "lost", "unlogged"}
InStatement == {"lock", "fetch", "full", "grow", "edit", "put"}
PageObjects == [data : SUBSET Tuples, before : SUBSET Tuples, dirty : Tids \cup {NoTid}]
Records == [type : {"BEGIN", "UPDATE", "COMMIT", "ABORT"}, tid : Tids \cup {NoTid},
            page : Pages \cup {NoPage}, before : SUBSET Tuples, after : SUBSET Tuples]
Ops == [at : Places, kind : {"none", "insert", "scan"}, page : Pages, ex : BOOLEAN,
        held : BOOLEAN, tup : Tuples \cup {NoTuple}]

StorageTypeOK ==
  /\ DOMAIN pool \subseteq Pages /\ pool \in [DOMAIN pool -> PageObjects]
  /\ disk \in [Pages -> SUBSET Tuples]
  /\ numPages \in Nat /\ numPages - 1 \in Pages
  /\ log \in Seq(Records)
  /\ op \in [Tids -> Ops] /\ obj \in [Tids -> PageObjects]
  /\ mon \in Tids \cup {NoTid}
  /\ ins \in [Tids -> SUBSET Tuples] /\ del \in [Tids -> SUBSET Tuples]
  /\ up \in BOOLEAN

-----------------------------------------------------------------------------
(* Where the sessions are. *)

Writer(t, p) == granted[t][p] = "X"

(* The contents of page p now, and as its writer t has left it: between    *)
(* the edit in place and the put the pool may have lost the page.          *)
Cur(p) == IF Cached(p) THEN pool[p].data ELSE disk[p]
Own(t, p) == IF op[t].at = "put" /\ op[t].page = p THEN obj[t].data ELSE Cur(p)

Session(t) ==
  LET o == op[t]
  IN  /\ waitingFor[t] # NoPage =>
           o.at = "lock" /\ waitingFor[t] = o.page /\ want[t] = o.ex
      /\ o.at \in {"new", "idle", "full", "grow", "put", "flush", "write"} => phase[t] = "active"
      /\ phase[t] = "done" <=> o.at \in Over
      /\ o.at \in Over \cup {"new"} => \A p \in Pages : granted[t][p] = "none"
      /\ mon = t <=> o.at \in {"flush", "write"}
      /\ o.page < numPages
      /\ o.at \in InStatement => o.kind \in {"insert", "scan"}
      /\ o.at \in {"full", "grow"} => o.kind = "insert"
      /\ o.at = "fetch" => granted[t][o.page] # "none" /\ (o.ex => Writer(t, o.page))
      /\ o.at \in {"edit", "put"} => o.ex /\ Writer(t, o.page)
      /\ o.at \in {"lock", "fetch", "edit"} /\ o.ex /\ o.kind = "scan" =>
           granted[t][o.page] # "none" /\ o.tup \in Cur(o.page)
      /\ o.at = "new" => ins[t] = {} /\ del[t] = {}
      /\ o.at = "edit" => obj[t].before = Image(o.page) /\ obj[t].data = Cur(o.page)
      /\ o.at = "put" => /\ obj[t].before = Image(o.page)
                         /\ Cached(o.page) => pool[o.page].data = obj[t].data
      /\ o.at = "write" => Cached(o.page) /\ pool[o.page].dirty = t
      /\ ~up => o.at \in {"new", "acked", "aborted", "lost", "unlogged"}

(* A page in the pool. *)
CachedPage(p) ==
  LET g == pool[p]
  IN  /\ p < numPages
      /\ up
      /\ g.dirty # NoTid => Writer(g.dirty, p)
      /\ g.data # g.before =>
           \E t \in Tids : /\ Writer(t, p) /\ g.dirty \in {t, NoTid}
                           /\ g.dirty = NoTid => (op[t].at = "put" /\ op[t].page = p)
                                                 \/ (mon = t /\ disk[p] = g.data)
      /\ disk[p] # g.before =>
           \E t \in Tids : mon = t /\ Writer(t, p) /\ g.dirty = NoTid /\ disk[p] = g.data

(* The last record of a page settles what recovery makes of it. *)
Settles(k, p) == k \in Updates(log, p) /\ \A j \in Updates(log, p) : j <= k

Settled(r, p) ==
  /\ r.after \ r.before \subseteq ins[r.tid] /\ r.before \ r.after \subseteq del[r.tid]
  /\ op[r.tid].at \in {"flush", "write"} =>
       /\ Cached(p) /\ Writer(r.tid, p)
       /\ r.before = pool[p].before /\ r.after = pool[p].data
  /\ op[r.tid].at \in {"log", "acked"} => r.after = Image(p)

Ahead(p) == mon # NoTid /\ ((op[mon].at = "write" /\ op[mon].page = p) \/ disk[p] # Image(p))

Logs(p) ==
  /\ \A k \in Updates(log, p) :
       /\ log[k].tid \in Tids /\ op[log[k].tid].at \in {"flush", "write", "log", "acked"}
       /\ op[log[k].tid].at = "acked" => log[k].tid \in Committed(log)
  /\ Updates(log, p) # {} => \E k \in DOMAIN log : Settles(k, p) /\ Settled(log[k], p)
  /\ Ahead(p) => \E k \in DOMAIN log : Settles(k, p) /\ log[k].tid = mon

LogRight ==
  /\ \A p \in Pages : Logs(p)
  /\ \A t \in Tids \cap Committed(log) : op[t].at = "acked"

-----------------------------------------------------------------------------
(* Which tuples are where. *)

(* On page p, in the committed or in the writer's version. *)
On(x, p) == x \in Image(p) \/ \E t \in Tids : Writer(t, p) /\ x \in Own(t, p)

OnePage == \A x \in Tuples : \A p, q \in Pages : On(x, p) /\ On(x, q) => p = q

Used(x) == \/ \E p \in Pages : On(x, p)
           \/ \E t \in Tids : x \in ins[t] \cup del[t]

Numbered(x) == x = OldTuple \/ x[2] <= calls[x[1]]

Inserting(t) == op[t].kind = "insert" /\ op[t].at \in InStatement \ {"put"}

(* Tuples are numbered by the calls of their transaction, *)
Counted == \A x \in Tuples : Used(x) => Numbered(x)

(* so that the one an insert is about to add is new. *)
NewTuple(t) ==
  Inserting(t) =>
    /\ \E n \in 1..MaxCalls : /\ op[t].tup = <<t, n>>
                              /\ n <= calls[t] + 1
                              /\ op[t].at # "lock" \/ waitingFor[t] # NoPage => n <= calls[t]
    /\ ~Used(op[t].tup)

(* What a transaction that has its locks has added and removed. *)
Effects(t) ==
  op[t].at \notin Over =>
    /\ \A x \in Tuples : x \in ins[t] <=>
         \E p \in Pages : Writer(t, p) /\ x \in Own(t, p) /\ x \notin Image(p)
    /\ \A x \in Tuples : x \in del[t] <=>
         \E p \in Pages : Writer(t, p) /\ x \in Image(p) /\ x \notin Own(t, p)

Through == {"log", "acked", "unlogged"}

History ==
  /\ \A t, u \in Tids : t # u => ins[t] \cap ins[u] = {}
  /\ \A t \in Tids : op[t].at \notin Through \cup {"lost"} =>
       /\ ins[t] \cap Visible = {}
       /\ \A u \in Tids : ins[t] \cap del[u] = {}
  /\ \A t \in Tids : op[t].at \in Through =>
       /\ del[t] \cap Visible = {}
       /\ \A u \in Tids : u # t /\ op[u].at \in Through => del[t] \cap del[u] = {}
       /\ ins[t] \subseteq Visible \cup UNION {del[u] : u \in {v \in Tids : op[v].at \in Through \cup {"lost"}}}

Empty == \A p \in Pages : p >= numPages => disk[p] = {}

EngineInv ==
  /\ LockInv /\ StorageTypeOK
  /\ \A t \in Tids : Session(t)
  /\ \A p \in DOMAIN pool : CachedPage(p)
  /\ Empty
  /\ up => LogRight
  /\ OnePage /\ Counted
  /\ \A t \in Tids : NewTuple(t) /\ Effects(t)
  /\ History

-----------------------------------------------------------------------------
(* The numbers of the pages, and the records the model is made of. *)

(* HeapFile's pages are numbered from 0 without a gap. *)
LEMMA PageNumbers ==
  /\ Pages \subseteq Nat /\ 0 \in Pages /\ NoPage \notin Pages
  /\ \A p \in Pages : \A q \in 0..p : q \in Pages
<1>1. PICK n \in Nat \ {0} : n = Cardinality(Pages) BY StorageAssumption
<1>2. Pages = 0..(n - 1) BY <1>1, StorageAssumption
<1> QED BY <1>2, LockAssumption

(* A session at rest, and one that moves on. *)
LEMMA AtIs ==
  ASSUME NEW a \in Places
  PROVE  /\ At(a) \in Ops /\ At(a).at = a /\ At(a).kind = "none" /\ At(a).page = 0
         /\ At(a).ex = FALSE
BY PageNumbers DEF At, Ops

(* A session that moves on within what it does. *)
LEMMA MovesIs ==
  ASSUME NEW o \in Ops, NEW a \in Places, NEW x, x = [o EXCEPT !.at = a]
  PROVE  /\ x \in Ops /\ x.at = a /\ x.kind = o.kind /\ x.page = o.page /\ x.ex = o.ex
         /\ x.held = o.held /\ x.tup = o.tup
BY DEF Ops

(* A page just read from its file. *)
LEMMA FreshIs ==
  ASSUME NEW d \in SUBSET Tuples
  PROVE  Fresh(d) \in PageObjects /\ Fresh(d).data = d /\ Fresh(d).before = d
         /\ Fresh(d).dirty = NoTid
BY DEF Fresh, PageObjects

(* The log records of begin, commit and abort. *)
LEMMA RecordIs ==
  ASSUME NEW k \in {"BEGIN", "COMMIT", "ABORT"}, NEW t \in Tids \cup {NoTid}
  PROVE  Record(k, t) \in Records /\ Record(k, t).type = k /\ Record(k, t).tid = t
BY DEF Record, Records

-----------------------------------------------------------------------------
(* The locks. *)

(* A statement that fails only marks its transaction. *)
LEMMA FailLocks ==
  ASSUME LockInv, NEW t \in Tids, waitingFor[t] = NoPage,
         phase' = [phase EXCEPT ![t] = "aborting"],
         UNCHANGED <<holders, exclusive, waitingFor, want, granted, calls>>
  PROVE  LockInv'
BY DEF LockInv, LockTypeOK, Recorded, Alone, GrantsHold

(* Every step of a session is a step of the lock manager, or leaves the    *)
(* locks alone.                                                            *)
LEMMA LocksStep ==
  ASSUME LockInv, StorageTypeOK, NEW t \in Tids, Session(t), Step(t)
  PROVE  LockInv'
<1>o. op[t].page \in Pages /\ op[t].ex \in BOOLEAN BY ZenonT(60) DEF StorageTypeOK, Ops
<1>w. op[t].at # "lock" => waitingFor[t] = NoPage BY DEF Session
<1>1. ASSUME LockNext \/ UNCHANGED lockVars PROVE LockInv'
  BY <1>1, LockInvNext
<1>2. CASE Lock(t) BY <1>1, <1>2, <1>o DEF Lock, LockNext
<1>3. CASE FetchFails(t) BY <1>3, <1>w, FailLocks, ZenonT(60) DEF FetchFails, Running
<1>4. CASE EditFails(t) BY <1>4, <1>w, FailLocks, ZenonT(60) DEF EditFails, Running
<1>5. CASE NextPage(t) BY <1>1, <1>5, <1>o DEF NextPage, LockNext
<1>6. CASE transactionComplete(t) BY <1>1, <1>6 DEF transactionComplete, LockNext
<1>7. CASE discardPages(t) BY <1>1, <1>7, ZenonT(60) DEF discardPages, LockNext
<1>8. CASE logXactionBegin(t) \/ Fetch(t) \/ Edit(t) \/ Put(t)
  BY <1>1, <1>8 DEF logXactionBegin, Fetch, Edit, Put
<1>9. CASE Statement(t) BY <1>1, <1>9 DEF Statement, StartStatement
<1>10. CASE Grow(t) \/ StartCommit(t) \/ writePage(t)
  BY <1>1, <1>10 DEF Grow, StartCommit, writePage
<1>11. CASE (\E p \in Pages : logWrite(t, p)) \/ logCommit(t) \/ logAbort(t)
  BY <1>1, <1>11, ZenonT(60) DEF logWrite, logCommit, logAbort
<1> QED BY <1>2, <1>3, <1>4, <1>5, <1>6, <1>7, <1>8, <1>9, <1>10, <1>11 DEF Step

(* A crash forgets them. *)
LEMMA LocksCrash == LockInv /\ Crash => LockInv'
<1> SUFFICES ASSUME LockInv, Crash PROVE LockInv' OBVIOUS
<1>1. /\ holders' = [p \in Pages |-> {}] /\ exclusive' = [p \in Pages |-> FALSE]
      /\ waitingFor' = [t \in Tids |-> NoPage] /\ want' = [t \in Tids |-> FALSE]
      /\ granted' = [t \in Tids |-> [p \in Pages |-> "none"]]
      /\ phase' = [t \in Tids |-> IF op[t].at = "new" THEN "active" ELSE "done"]
      /\ calls' = calls
  BY DEF Crash
<1>2. LockTypeOK' BY <1>1 DEF LockInv, LockTypeOK
<1> QED BY <1>1, <1>2 DEF LockInv, Recorded, Alone, GrantsHold

-----------------------------------------------------------------------------
(* What a step of t leaves alone. *)

Others(t) ==
  \A u \in Tids \ {t} :
    /\ op'[u] = op[u] /\ obj'[u] = obj[u] /\ phase'[u] = phase[u]
    /\ waitingFor'[u] = waitingFor[u] /\ want'[u] = want[u] /\ granted'[u] = granted[u]
    /\ calls'[u] = calls[u] /\ ins'[u] = ins[u] /\ del'[u] = del[u]
    /\ mon' = u <=> mon = u

(* The page is as it was, or evicted, or read again. *)
Loose(p) ==
  /\ disk'[p] = disk[p]
  /\ \/ (Cached(p)' <=> Cached(p)) /\ (Cached(p) => pool'[p] = pool[p])
     \/ Cached(p) /\ ~Cached(p)' /\ pool[p].dirty = NoTid /\ mon = NoTid
     \/ /\ ~Cached(p) /\ Cached(p)' /\ pool'[p] = Fresh(disk[p]) /\ p < numPages
        /\ \A u \in Tids : Writer(u, p) => op[u].at # "put" \/ op[u].page # p

(* Nobody sees a difference, unless it is the writer between its edit and  *)
(* its put.                                                                *)
LEMMA LooseIs ==
  ASSUME NEW p \in Pages, Cached(p) => CachedPage(p), Loose(p), NoTid \notin Tids
  PROVE  /\ Image(p)' = Image(p)
         /\ \/ Cur(p)' = Cur(p)
            \/ \E w \in Tids : Writer(w, p) /\ op[w].at = "put" /\ op[w].page = p
         /\ Cached(p) /\ Cached(p)' => pool'[p] = pool[p]
<1>1. CASE (Cached(p)' <=> Cached(p)) /\ (Cached(p) => pool'[p] = pool[p])
  BY <1>1, ZenonT(60) DEF Loose, Image, Cur, Cached
<1>2. CASE Cached(p) /\ ~Cached(p)' /\ pool[p].dirty = NoTid /\ mon = NoTid
  <2>1. disk[p] = pool[p].before BY <1>2 DEF CachedPage
  <2>2. Image(p)' = Image(p) BY <1>2, <2>1 DEF Image, Loose, Cached
  <2>3. Cur(p) = pool[p].data /\ Cur(p)' = disk[p] BY <1>2 DEF Cur, Loose, Cached
  <2>4. CASE pool[p].data = pool[p].before BY <1>2, <2>1, <2>2, <2>3, <2>4
  <2>5. CASE pool[p].data # pool[p].before
    <3>1. \E t \in Tids : Writer(t, p) /\ ((op[t].at = "put" /\ op[t].page = p) \/ mon = t)
      BY <1>2, <2>5, ZenonT(60) DEF CachedPage
    <3> QED BY <3>1, <2>2, <1>2
  <2> QED BY <2>4, <2>5
<1>3. CASE ~Cached(p) /\ Cached(p)' /\ pool'[p] = Fresh(disk[p])
  BY <1>3 DEF Loose, Image, Cur, Cached, Fresh
<1> QED BY <1>1, <1>2, <1>3, ZenonT(60) DEF Loose

(* A page nobody writes is what is committed. *)
LEMMA NoWriter ==
  ASSUME NEW p \in Pages, Cached(p) => CachedPage(p), \A t \in Tids : ~Writer(t, p)
  PROVE  Cur(p) = Image(p) /\ disk[p] = Image(p)
BY ZenonT(60) DEF CachedPage, Cur, Image, Cached

(* What is to be shown of a session after a step. *)
LEMMA SessionNext ==
  ASSUME NEW u \in Tids, NEW o, o = op'[u], up',
         waitingFor'[u] # NoPage => o.at = "lock" /\ waitingFor'[u] = o.page /\ want'[u] = o.ex,
         o.at \in {"new", "idle", "full", "grow", "put", "flush", "write"} => phase'[u] = "active",
         phase'[u] = "done" <=> o.at \in Over,
         o.at \in Over \cup {"new"} => \A q \in Pages : granted'[u][q] = "none",
         mon' = u <=> o.at \in {"flush", "write"},
         o.at \in InStatement => o.kind \in {"insert", "scan"},
         o.at \in {"full", "grow"} => o.kind = "insert",
         o.at = "new" => ins'[u] = {} /\ del'[u] = {},
         o.page < numPages',
         o.at = "fetch" => granted'[u][o.page] # "none" /\ (o.ex => granted'[u][o.page] = "X"),
         o.at \in {"edit", "put"} => o.ex /\ granted'[u][o.page] = "X",
         o.at \in {"lock", "fetch", "edit"} /\ o.ex /\ o.kind = "scan" =>
           granted'[u][o.page] # "none" /\ o.tup \in Cur(o.page)',
         o.at = "edit" => obj'[u].before = Image(o.page)' /\ obj'[u].data = Cur(o.page)',
         o.at = "put" => /\ obj'[u].before = Image(o.page)'
                         /\ Cached(o.page)' => pool'[o.page].data = obj'[u].data,
         o.at = "write" => Cached(o.page)' /\ pool'[o.page].dirty = u
  PROVE  Session(u)'
BY SMTT(60) DEF Session, Writer

(* A file that grows keeps its pages. *)
LEMMA StillBelow == \A i, j, k \in Nat : i < j /\ j <= k => i < k
OBVIOUS

(* A session that has nothing to do with the step. *)
LEMMA SessionStays ==
  ASSUME NEW u \in Tids, Session(u), NEW p, p = op[u].page,
         op'[u] = op[u], obj'[u] = obj[u], phase'[u] = phase[u],
         waitingFor'[u] = waitingFor[u], want'[u] = want[u], granted'[u] = granted[u],
         ins'[u] = ins[u], del'[u] = del[u], mon' = u <=> mon = u,
         p \in Nat, numPages \in Nat, numPages' \in Nat, numPages <= numPages', up, up',
         granted[u][p] # "none" =>
           /\ Image(p)' = Image(p) /\ (Cur(p)' = Cur(p) \/ op[u].at = "put")
           /\ op[u].at = "put" /\ Cached(p)' => Cached(p) /\ pool'[p].data = pool[p].data,
         op[u].at = "write" => Cached(p)' /\ pool'[p].dirty = u
  PROVE  Session(u)'
<1>1. op'[u].page = p BY ZenonT(60) DEF Session
<1>2. Image(op[u].page)' = Image(p)' /\ Cur(op[u].page)' = Cur(p)' /\ (Cached(op[u].page)' <=> Cached(p)')
  BY <1>1, ZenonT(60) DEF Image, Cur, Cached
<1>3. PICK o : o = op[u] /\ o = op'[u] /\ p = o.page BY ZenonT(60)
<1>4. p < numPages => p < numPages' BY StillBelow, ZenonT(60)
<1>5. /\ Image(o.page)' = Image(p)' /\ Cur(o.page)' = Cur(p)' /\ (Cached(o.page)' <=> Cached(p)')
      /\ pool'[o.page] = pool'[p]
  BY <1>3, ZenonT(60) DEF Image, Cur, Cached
<1>6. /\ waitingFor'[u] # NoPage => o.at = "lock" /\ waitingFor'[u] = o.page /\ want'[u] = o.ex
      /\ o.at \in {"new", "idle", "full", "grow", "put", "flush", "write"} => phase'[u] = "active"
      /\ phase'[u] = "done" <=> o.at \in Over
      /\ o.at \in Over \cup {"new"} => \A q \in Pages : granted'[u][q] = "none"
      /\ mon' = u <=> o.at \in {"flush", "write"}
      /\ o.at \in InStatement => o.kind \in {"insert", "scan"}
      /\ o.at \in {"full", "grow"} => o.kind = "insert"
      /\ o.at = "new" => ins'[u] = {} /\ del'[u] = {}
  BY <1>3, ZenonT(60) DEF Session
<1>7. o.page < numPages' BY <1>3, <1>4, ZenonT(60) DEF Session
<1>8. /\ o.at = "fetch" => granted'[u][o.page] # "none" /\ (o.ex => granted'[u][o.page] = "X")
      /\ o.at \in {"edit", "put"} => o.ex /\ granted'[u][o.page] = "X"
  BY <1>3, ZenonT(60) DEF Session, Writer
<1>9. /\ o.at \in {"lock", "fetch", "edit"} /\ o.ex /\ o.kind = "scan" =>
           granted[u][p] # "none" /\ o.tup \in Cur(p)
      /\ o.at = "edit" => obj[u].before = Image(p) /\ obj[u].data = Cur(p)
      /\ o.at = "put" => /\ obj[u].before = Image(p)
                         /\ Cached(p) => pool[p].data = obj[u].data
      /\ o.at \in {"edit", "put"} => granted[u][p] = "X"
  BY <1>3, ZenonT(60) DEF Session, Writer
<1>10. /\ granted[u][p] # "none" => Image(p)' = Image(p) /\ (Cur(p)' = Cur(p) \/ o.at = "put")
       /\ granted[u][p] # "none" /\ o.at = "put" /\ Cached(p)' =>
            Cached(p) /\ pool'[p].data = pool[p].data
  BY <1>3, ZenonT(60)
<1>11. granted[u][p] = "X" => granted[u][p] # "none" BY ZenonT(60)
<1>12. ASSUME o.at \in {"lock", "fetch", "edit"}, o.ex, o.kind = "scan"
       PROVE  granted'[u][o.page] # "none" /\ o.tup \in Cur(o.page)'
  <2>1. granted[u][p] # "none" /\ o.tup \in Cur(p) BY <1>12, <1>9, ZenonT(60)
  <2>2. o.at # "put" BY <1>12, ZenonT(60)
  <2>3. Cur(p)' = Cur(p) BY <2>1, <2>2, <1>10, ZenonT(60)
  <2>4. o.tup \in Cur(o.page)' BY <2>1, <2>3, <1>5, ZenonT(60)
  <2>5. granted'[u][o.page] # "none" BY <2>1, <1>3, ZenonT(60)
  <2> QED BY <2>4, <2>5, ZenonT(60)
<1>13. ASSUME o.at = "edit"
       PROVE  obj'[u].before = Image(o.page)' /\ obj'[u].data = Cur(o.page)'
  <2>1. granted[u][p] # "none" BY <1>13, <1>9, <1>11, ZenonT(60)
  <2>2. o.at # "put" BY <1>13, ZenonT(60)
  <2>3. Image(p)' = Image(p) /\ Cur(p)' = Cur(p) BY <2>1, <2>2, <1>10, ZenonT(60)
  <2>4. obj[u].before = Image(p) /\ obj[u].data = Cur(p) BY <1>13, <1>9, ZenonT(60)
  <2> QED BY <2>3, <2>4, <1>5, ZenonT(60)
<1>14. ASSUME o.at = "put"
       PROVE  /\ obj'[u].before = Image(o.page)'
              /\ Cached(o.page)' => pool'[o.page].data = obj'[u].data
  <2>1. granted[u][p] # "none" BY <1>14, <1>9, <1>11, ZenonT(60)
  <2>2. Image(p)' = Image(p) /\ (Cached(p)' => Cached(p) /\ pool'[p].data = pool[p].data)
    BY <2>1, <1>14, <1>10, ZenonT(60)
  <2>3. obj[u].before = Image(p) /\ (Cached(p) => pool[p].data = obj[u].data)
    BY <1>14, <1>9, ZenonT(60)
  <2> QED BY <2>2, <2>3, <1>5, ZenonT(60)
<1>15. o.at = "write" => Cached(o.page)' /\ pool'[o.page].dirty = u BY <1>3, <1>5, ZenonT(60)
<1> QED BY <1>3, <1>6, <1>7, <1>8, <1>12, <1>13, <1>14, <1>15, SessionNext, ZenonT(60)

(* A page of the pool that has nothing to do with it. *)
LEMMA CachedStays ==
  ASSUME NEW p \in Pages, Cached(p) => CachedPage(p), Loose(p), Cached(p)', up',
         p \in Nat, numPages \in Nat, numPages' \in Nat, numPages <= numPages',
         pool[p].dirty \in Tids \cup {NoTid},
         \A u \in Tids : Writer(u, p) => /\ Writer(u, p)' /\ (mon = u => mon' = u)
                                         /\ op[u].at = "put" /\ op[u].page = p => op'[u] = op[u]
  PROVE  CachedPage(p)'
<1>1. CASE Cached(p) /\ pool'[p] = pool[p]
  <2>1. disk'[p] = disk[p] BY ZenonT(60) DEF Loose
  <2>2. p < numPages' BY <1>1 DEF CachedPage
  <2>3. pool[p].dirty # NoTid => Writer(pool[p].dirty, p)' BY <1>1 DEF CachedPage
  <2>4. ASSUME pool[p].data # pool[p].before
        PROVE  \E t \in Tids :
                 /\ Writer(t, p)' /\ pool[p].dirty \in {t, NoTid}
                 /\ pool[p].dirty = NoTid => (op'[t].at = "put" /\ op'[t].page = p)
                                             \/ (mon' = t /\ disk[p] = pool[p].data)
    <3>1. PICK t \in Tids : /\ Writer(t, p) /\ pool[p].dirty \in {t, NoTid}
                            /\ pool[p].dirty = NoTid => (op[t].at = "put" /\ op[t].page = p)
                                                        \/ (mon = t /\ disk[p] = pool[p].data)
      BY <1>1, <2>4, ZenonT(60) DEF CachedPage
    <3> QED BY <3>1
  <2>5. disk[p] # pool[p].before =>
          \E t \in Tids : mon' = t /\ Writer(t, p)' /\ pool[p].dirty = NoTid /\ disk[p] = pool[p].data
    BY <1>1, ZenonT(60) DEF CachedPage
  <2> QED BY <1>1, <2>1, <2>2, <2>3, <2>4, <2>5 DEF CachedPage, Writer
<1>2. CASE ~Cached(p) /\ pool'[p] = Fresh(disk[p]) /\ p < numPages
  BY <1>2 DEF CachedPage, Loose, Fresh
<1> QED BY <1>1, <1>2, ZenonT(60) DEF Loose

-----------------------------------------------------------------------------
(* Steps that change nobody's tuples. *)

(* A tuple is one of some transaction and call. *)
LEMMA Pairs ==
  \A x \in Tids \X (1..MaxCalls) : \E u \in Tids, n \in 1..MaxCalls : x = <<u, n>>
OBVIOUS

(* Pages look as before, writers have what they had, and whoever starts to *)
(* write finds what is committed.                                          *)
LEMMA QuietData ==
  ASSUME \A p \in Pages : Image(p)' = Image(p),
         \A u \in Tids, p \in Pages :
           Writer(u, p)' => (Writer(u, p) /\ Own(u, p)' = Own(u, p)) \/ Own(u, p)' = Image(p),
         \A u \in Tids, p \in Pages :
           Writer(u, p) /\ op'[u].at \notin Over => Writer(u, p)' /\ Own(u, p)' = Own(u, p),
         \A u \in Tids : /\ op[u].at \in Over => op'[u].at \in Over
                         /\ op'[u].at \in Through <=> op[u].at \in Through
                         /\ op'[u].at = "lost" <=> op[u].at = "lost",
         ins' = ins, del' = del,
         \A u \in Tids : calls[u] \in Nat /\ calls'[u] \in Nat /\ calls[u] <= calls'[u],
         OnePage, Counted, \A t \in Tids : Effects(t), History
  PROVE  /\ OnePage' /\ Counted' /\ \A t \in Tids : Effects(t)'
         /\ History' /\ Visible' = Visible
         /\ \A x : Used(x)' => Used(x)
<1>1. ASSUME NEW x, NEW p \in Pages, On(x, p)' PROVE On(x, p)
  <2>1. CASE x \in Image(p)' BY <2>1, ZenonT(60) DEF On
  <2>2. CASE \E t \in Tids : Writer(t, p)' /\ x \in Own(t, p)'
    <3>1. PICK t \in Tids : Writer(t, p)' /\ x \in Own(t, p)' BY <2>2, ZenonT(60)
    <3> QED BY <3>1, ZenonT(60) DEF On
  <2> QED BY <1>1, <2>1, <2>2, ZenonT(60) DEF On
<1>2. OnePage' BY <1>1, ZenonT(60) DEF OnePage
<1>3. \A x : Used(x)' => Used(x) BY <1>1, ZenonT(60) DEF Used
<1>4. Counted'
  <2> SUFFICES ASSUME NEW x \in Tuples, Used(x)' PROVE Numbered(x)' BY DEF Counted
  <2>1. Numbered(x) BY <1>3, ZenonT(60) DEF Counted
  <2>2. CASE x = OldTuple BY <2>2, ZenonT(60) DEF Numbered
  <2>3. CASE x \in Tids \X (1..MaxCalls)
    <3>1. PICK u \in Tids, n \in 1..MaxCalls : x = <<u, n>> BY <2>3, Pairs, ZenonT(60)
    <3>2. x[1] = u /\ x[2] = n BY <3>1, ZenonT(60)
    <3>3. CASE x = OldTuple BY <3>3, <2>2, ZenonT(60)
    <3>4. CASE n <= calls[u] BY <3>2, <3>4 DEF Numbered
    <3> QED BY <2>1, <3>2, <3>3, <3>4, ZenonT(60) DEF Numbered
  <2> QED BY <2>2, <2>3, ZenonT(60) DEF Tuples
<1>5. ASSUME NEW t \in Tids PROVE Effects(t)'
  <2> SUFFICES ASSUME op'[t].at \notin Over
               PROVE  /\ \A x \in Tuples : x \in ins[t] <=>
                           \E p \in Pages : Writer(t, p)' /\ x \in Own(t, p)' /\ x \notin Image(p)'
                      /\ \A x \in Tuples : x \in del[t] <=>
                           \E p \in Pages : Writer(t, p)' /\ x \in Image(p)' /\ x \notin Own(t, p)'
    BY ZenonT(60) DEF Effects
  <2>1. op[t].at \notin Over BY ZenonT(60)
  <2>2. \A p \in Pages : \/ Writer(t, p)' /\ Writer(t, p) /\ Own(t, p)' = Own(t, p)
                         \/ ~Writer(t, p) /\ ~Writer(t, p)'
                         \/ ~Writer(t, p) /\ Own(t, p)' = Image(p)
    BY ZenonT(60)
  <2>3. \A x \in Tuples : x \in ins[t] <=>
          \E p \in Pages : Writer(t, p) /\ x \in Own(t, p) /\ x \notin Image(p)
    BY <2>1, ZenonT(60) DEF Effects
  <2>4. \A x \in Tuples : x \in del[t] <=>
          \E p \in Pages : Writer(t, p) /\ x \in Image(p) /\ x \notin Own(t, p)
    BY <2>1, ZenonT(60) DEF Effects
  <2> QED BY <2>2, <2>3, <2>4, ZenonT(60)
<1>6. Visible' = Visible BY ZenonT(60) DEF Visible
<1>7. History' BY <1>6 DEF History
<1> QED BY <1>2, <1>3, <1>4, <1>5, <1>6, <1>7, ZenonT(60)

(* A step of t that changes no tuple and takes no page from its writer. *)
Calm(t) ==
  /\ Others(t) /\ \A p \in Pages : Loose(p)
  /\ up /\ up' /\ numPages <= numPages'
  /\ ins' = ins /\ del' = del
  /\ \A p \in Pages : Writer(t, p) => Writer(t, p)'
  /\ op[t].at # "put" /\ op'[t].at # "put"
  /\ mon = t => mon' = t
  /\ calls[t] <= calls'[t]
  /\ op'[t].at \in Over <=> op[t].at \in Over
  /\ op'[t].at \in Through <=> op[t].at \in Through
  /\ op'[t].at = "lost" <=> op[t].at = "lost"

(* Whoever may read a page shares it with no writer. *)
LEMMA WriterAlone ==
  ASSUME LockInv, NEW t \in Tids, NEW u \in Tids, NEW p \in Pages, Writer(t, p), u # t
  PROVE  granted[u][p] = "none"
BY DEF LockInv, LockTypeOK, Recorded, GrantsHold, Writer

(* The other sessions and the pages of the pool. *)
LEMMA CalmSessions ==
  ASSUME EngineInv, NEW t \in Tids, Calm(t), StorageTypeOK'
  PROVE  /\ \A u \in Tids \ {t} : Session(u)'
         /\ \A p \in DOMAIN pool' : CachedPage(p)'
         /\ Empty'
<1>n. NoTid \notin Tids BY StorageAssumption, ZenonT(60)
<1>i. /\ \A p \in Pages : Loose(p) /\ (Cached(p) => CachedPage(p))
      /\ Others(t) /\ up /\ up' /\ numPages <= numPages'
  BY DEF EngineInv, Calm, Cached
<1>m. /\ numPages \in Nat /\ numPages' \in Nat /\ Pages \subseteq Nat
      /\ \A u \in Tids : op[u].page \in Pages
  BY PageNumbers, ZenonT(60) DEF EngineInv, StorageTypeOK, Ops
<1>1. ASSUME NEW u \in Tids \ {t} PROVE Session(u)'
  <2>p. PICK p : p = op[u].page OBVIOUS
  <2>s. Session(u) /\ p \in Pages BY <2>p, <1>m DEF EngineInv
  <2>1. /\ Image(p)' = Image(p)
        /\ \/ Cur(p)' = Cur(p)
           \/ \E w \in Tids : Writer(w, p) /\ op[w].at = "put" /\ op[w].page = p
        /\ Cached(p) /\ Cached(p)' => pool'[p] = pool[p]
    BY <2>s, <1>i, <1>n, LooseIs, ZenonT(60)
  <2>2. ASSUME granted[u][p] # "none"
        PROVE  /\ Image(p)' = Image(p) /\ (Cur(p)' = Cur(p) \/ op[u].at = "put")
               /\ op[u].at = "put" /\ Cached(p)' => Cached(p) /\ pool'[p].data = pool[p].data
    <3>1. Cur(p)' = Cur(p) \/ op[u].at = "put"
      BY <2>1, <2>2, <2>s, WriterAlone, ZenonT(60) DEF EngineInv
    <3>2. ASSUME op[u].at = "put", Cached(p)' PROVE Cached(p)
      BY <3>2, <1>i, <2>s, <2>p, ZenonT(60) DEF Loose, Session
    <3> QED BY <3>1, <3>2, <2>1, ZenonT(60)
  <2>3. ASSUME op[u].at = "write" PROVE Cached(p)' /\ pool'[p].dirty = u
    <3>1. Cached(p) /\ pool[p].dirty = u /\ mon = u BY <2>3, <2>p, <2>s, ZenonT(60) DEF Session
    <3>2. Cached(p)' BY <3>1, <1>i, <1>n, <2>s, ZenonT(60) DEF Loose
    <3> QED BY <3>1, <3>2, <2>1, ZenonT(60)
  <2>4. /\ op'[u] = op[u] /\ obj'[u] = obj[u] /\ phase'[u] = phase[u]
        /\ waitingFor'[u] = waitingFor[u] /\ want'[u] = want[u] /\ granted'[u] = granted[u]
        /\ ins'[u] = ins[u] /\ del'[u] = del[u] /\ (mon' = u <=> mon = u)
    BY <1>i, ZenonT(60) DEF Others
  <2>5. p \in Nat BY <1>m, <2>s
  <2> QED BY <2>p, <2>s, <2>2, <2>3, <2>4, <2>5, <1>i, <1>m, SessionStays
<1>2. ASSUME NEW p \in DOMAIN pool' PROVE CachedPage(p)'
  <2>1. p \in Pages /\ Cached(p)' BY DEF StorageTypeOK, Cached
  <2>2. \A u \in Tids : Writer(u, p) => /\ Writer(u, p)' /\ (mon = u => mon' = u)
                                        /\ op[u].at = "put" => op'[u] = op[u]
    BY <2>1, ZenonT(60) DEF Calm, Others, Writer
  <2>3. CASE Cached(p)
    <3>1. pool[p].dirty \in Tids \cup {NoTid}
      BY <2>3, ZenonT(60) DEF EngineInv, StorageTypeOK, PageObjects, Cached
    <3> QED BY <2>1, <2>2, <3>1, <1>i, <1>m, CachedStays
  <2>4. CASE ~Cached(p)
    <3>1. pool'[p] = Fresh(disk[p]) /\ p < numPages /\ disk'[p] = disk[p]
      BY <2>4, <2>1, <1>i DEF Loose
    <3>2. p < numPages' BY <3>1, <2>1, <1>i, <1>m
    <3>3. /\ pool'[p].data = disk'[p] /\ pool'[p].before = disk'[p] /\ pool'[p].dirty = NoTid
      BY <3>1 DEF Fresh
    <3> QED BY <3>2, <3>3, <1>i, ZenonT(60) DEF CachedPage
  <2> QED BY <2>3, <2>4
<1>3. Empty'
  <2>1. ASSUME NEW p \in Pages, p >= numPages' PROVE p >= numPages BY <2>1, <1>i, <1>m
  <2> QED BY <2>1, <1>i, ZenonT(60) DEF EngineInv, Empty, Loose
<1> QED BY <1>1, <1>2, <1>3

(* The tuples. *)
LEMMA CalmData ==
  ASSUME EngineInv, NEW t \in Tids, Calm(t), LockInv'
  PROVE  /\ OnePage' /\ Counted' /\ \A u \in Tids : Effects(u)'
         /\ History' /\ Visible' = Visible
         /\ \A x : Used(x)' => Used(x)
         /\ \A u \in Tids \ {t} : NewTuple(u)'
<1>n. NoTid \notin Tids BY StorageAssumption
<1>i. /\ \A p \in Pages : Loose(p) /\ (Cached(p) => CachedPage(p))
      /\ Others(t)
  BY ZenonT(60) DEF EngineInv, Calm, Cached
<1>1. \A p \in Pages : Image(p)' = Image(p) BY <1>i, <1>n, LooseIs
<1>2. ASSUME NEW u \in Tids, NEW p \in Pages, Writer(u, p)
      PROVE  Writer(u, p)' /\ Own(u, p)' = Own(u, p)
  <2>1. Writer(u, p)' BY <1>2, <1>i DEF Calm, Others, Writer
  <2>2. op[u].at = "put" /\ op[u].page = p => op'[u] = op[u] /\ obj'[u] = obj[u]
    BY <1>i, ZenonT(60) DEF Calm, Others
  <2>3. op'[u].at = "put" => op'[u] = op[u] BY <1>i, ZenonT(60) DEF Calm, Others
  <2>4. ASSUME ~(op[u].at = "put" /\ op[u].page = p) PROVE Cur(p)' = Cur(p)
    <3>1. ASSUME NEW w \in Tids, Writer(w, p), op[w].at = "put", op[w].page = p PROVE FALSE
      BY <1>2, <2>4, <3>1, WriterAlone, ZenonT(60) DEF EngineInv, Writer
    <3> QED BY <3>1, <1>i, <1>n, LooseIs, ZenonT(60)
  <2> QED BY <2>1, <2>2, <2>3, <2>4 DEF Own
<1>3. ASSUME NEW u \in Tids, NEW p \in Pages, Writer(u, p)', ~Writer(u, p)
      PROVE  Own(u, p)' = Image(p)
  <2>1. u = t BY <1>3, <1>i, ZenonT(60) DEF Others, Writer
  <2>2. ASSUME NEW w \in Tids, Writer(w, p) PROVE FALSE
    <3>1. w # t /\ Writer(w, p)' BY <2>1, <2>2, <1>2, <1>3
    <3> QED BY <3>1, <2>1, <1>3 DEF LockInv, GrantsHold, Writer
  <2>3. Cur(p) = Image(p) BY <2>2, <1>i, NoWriter, ZenonT(60)
  <2>4. Cur(p)' = Cur(p) BY <2>2, <1>i, <1>n, LooseIs, ZenonT(60)
  <2>5. op'[u].at # "put" BY <2>1 DEF Calm
  <2> QED BY <2>3, <2>4, <2>5 DEF Own
<1>4. \A u \in Tids : /\ op[u].at \in Over => op'[u].at \in Over
                      /\ op'[u].at \in Through <=> op[u].at \in Through
                      /\ op'[u].at = "lost" <=> op[u].at = "lost"
  BY <1>i, ZenonT(60) DEF Others, Calm
<1>5. \A u \in Tids : calls[u] \in Nat /\ calls'[u] \in Nat /\ calls[u] <= calls'[u]
  <2>1. calls \in [Tids -> 0..MaxCalls] /\ calls' \in [Tids -> 0..MaxCalls]
    BY DEF EngineInv, LockInv, LockTypeOK
  <2>2. calls \in [Tids -> Nat] /\ calls' \in [Tids -> Nat] BY <2>1, LockAssumption
  <2>3. \A u \in Tids \ {t} : calls'[u] = calls[u] BY <1>i, ZenonT(60) DEF Others
  <2>4. calls[t] <= calls'[t] BY DEF Calm
  <2> QED BY <2>2, <2>3, <2>4
<1>6. /\ ins' = ins /\ del' = del /\ OnePage /\ Counted /\ \A u \in Tids : Effects(u)
      /\ History
  BY DEF Calm, EngineInv
<1>a. \A u \in Tids, p \in Pages :
        Writer(u, p)' => (Writer(u, p) /\ Own(u, p)' = Own(u, p)) \/ Own(u, p)' = Image(p)
  BY <1>2, <1>3
<1>b. \A u \in Tids, p \in Pages :
        Writer(u, p) /\ op'[u].at \notin Over => Writer(u, p)' /\ Own(u, p)' = Own(u, p)
  BY <1>2
<1>7. /\ OnePage' /\ Counted' /\ \A u \in Tids : Effects(u)'
      /\ History' /\ Visible' = Visible
      /\ \A x : Used(x)' => Used(x)
  BY <1>1, <1>a, <1>b, <1>4, <1>5, <1>6, QuietData, ZenonT(60)
<1>8. ASSUME NEW u \in Tids \ {t} PROVE NewTuple(u)'
  <2>1. op'[u] = op[u] /\ calls'[u] = calls[u] /\ waitingFor'[u] = waitingFor[u]
    BY <1>i, ZenonT(60) DEF Others
  <2>2. NewTuple(u) BY DEF EngineInv
  <2>3. PICK x : x = op[u].tup OBVIOUS
  <2>4. Used(op[u].tup)' <=> Used(x)' BY <2>1, <2>3 DEF Used, On
  <2>5. Used(x)' => Used(op[u].tup) BY <1>7, <2>3
  <2> QED BY <2>1, <2>2, <2>4, <2>5, ZenonT(60) DEF NewTuple, Inserting
<1> QED BY <1>7, <1>8

-----------------------------------------------------------------------------
(* The log. *)

(* A record at the end of the log. *)
LEMMA Appends ==
  ASSUME log \in Seq(Records), NEW r \in Records, log' = Append(log, r)
  PROVE  /\ log' \in Seq(Records) /\ DOMAIN log' = DOMAIN log \cup {Len(log) + 1}
         /\ \A k \in DOMAIN log : k \in Nat /\ k < Len(log) + 1 /\ log'[k] = log[k]
         /\ log'[Len(log) + 1] = r /\ Len(log) + 1 \notin DOMAIN log
OBVIOUS

(* One that is no update changes nothing for a page. *)
LEMMA OtherRecord ==
  ASSUME log \in Seq(Records), NEW r \in Records, log' = Append(log, r), r.type # "UPDATE",
         NEW p
  PROVE  /\ Updates(log, p)' = Updates(log, p)
         /\ \A k \in Updates(log, p) : k \in DOMAIN log /\ log'[k] = log[k]
         /\ \A k : Settles(k, p)' <=> Settles(k, p)
<1>1. Updates(log, p)' = Updates(log, p) BY Appends, SMTT(60) DEF Updates
<1> QED BY <1>1, Appends DEF Updates, Settles

(* An update record settles its page, and no other. *)
LEMMA UpdateRecord ==
  ASSUME log \in Seq(Records), NEW r \in Records, log' = Append(log, r), r.type = "UPDATE",
         NEW p, NEW n, n = Len(log) + 1
  PROVE  /\ p = r.page => /\ Updates(log, p)' = Updates(log, p) \cup {n}
                          /\ Settles(n, p)'
         /\ p # r.page => /\ Updates(log, p)' = Updates(log, p)
                          /\ \A k : Settles(k, p)' <=> Settles(k, p)
         /\ \A k \in Updates(log, p) : k \in DOMAIN log /\ log'[k] = log[k]
<1>1. p = r.page => Updates(log, p)' = Updates(log, p) \cup {n}
  BY Appends, SMTT(60) DEF Updates
<1>2. p # r.page => Updates(log, p)' = Updates(log, p)
  BY Appends, SMTT(60) DEF Updates
<1>3. \A k \in Updates(log, p) : k \in DOMAIN log /\ log'[k] = log[k] /\ k <= n /\ k \in Nat
  BY Appends DEF Updates
<1>4. n \in Nat BY Appends
<1>5. p = r.page => Settles(n, p)' BY <1>1, <1>3, <1>4 DEF Settles
<1> QED BY <1>1, <1>2, <1>3, <1>5, ZenonT(60) DEF Settles

(* Who has a commit record. *)
LEMMA CommitRecord ==
  ASSUME log \in Seq(Records), NEW r \in Records, log' = Append(log, r)
  PROVE  /\ Committed(log) \subseteq Committed(log)'
         /\ r.type = "COMMIT" => Committed(log)' = Committed(log) \cup {r.tid}
         /\ r.type # "COMMIT" => Committed(log)' = Committed(log)
<1>a. PICK n : n = Len(log) + 1 OBVIOUS
<1>1. /\ DOMAIN log' = DOMAIN log \cup {n} /\ log'[n] = r
      /\ \A k \in DOMAIN log : log'[k] = log[k]
  BY <1>a, Appends
<1>2. \A x : x \in Committed(log) <=> \E k \in DOMAIN log : log[k].type = "COMMIT" /\ log[k].tid = x
  BY ZenonT(60) DEF Committed
<1>3. \A x : x \in Committed(log)' <=>
        \E k \in DOMAIN log' : log'[k].type = "COMMIT" /\ log'[k].tid = x
  BY ZenonT(60) DEF Committed
<1>4. \A x : x \in Committed(log)' <=> x \in Committed(log) \/ (r.type = "COMMIT" /\ x = r.tid)
  BY <1>1, <1>2, <1>3
<1> QED BY <1>4, ZenonT(60)

(* Steps of a session that is not in its commit, and writes no more than a *)
(* begin or an abort record.                                               *)
LEMMA CalmLog ==
  ASSUME EngineInv, NEW t \in Tids, Calm(t), StorageTypeOK',
         op[t].at \notin {"flush", "write", "log", "acked"},
         op'[t].at \notin {"write", "log", "acked"},
         op'[t].at = "flush" => mon = NoTid,
         mon' = mon \/ mon = NoTid,
         log' = log \/ \E r \in Records : r.type \notin {"UPDATE", "COMMIT"} /\ log' = Append(log, r)
  PROVE  LogRight'
<1>n. NoTid \notin Tids BY StorageAssumption, ZenonT(60)
<1>i. /\ \A p \in Pages : Loose(p) /\ (Cached(p) => CachedPage(p))
      /\ Others(t) /\ LogRight /\ log \in Seq(Records) /\ mon \in Tids \cup {NoTid}
      /\ \A u \in Tids : Session(u)
  BY DEF EngineInv, Calm, Cached, StorageTypeOK
<1>1. /\ Committed(log)' = Committed(log)
      /\ \A p : /\ Updates(log, p)' = Updates(log, p)
                /\ \A k \in Updates(log, p) : k \in DOMAIN log /\ log'[k] = log[k]
                /\ \A k : Settles(k, p)' <=> Settles(k, p)
  <2>1. CASE log' = log BY <2>1 DEF Committed, Updates, Settles
  <2>2. CASE \E r \in Records : r.type \notin {"UPDATE", "COMMIT"} /\ log' = Append(log, r)
    BY <2>2, <1>i, OtherRecord, CommitRecord, ZenonT(60)
  <2> QED BY <2>1, <2>2, ZenonT(60)
<1>d. DOMAIN log \subseteq DOMAIN log'
  BY <1>i, Appends, ZenonT(60)
<1>2. \A u \in Tids \ {t} : op'[u] = op[u] /\ (mon' = u <=> mon = u) BY <1>i, ZenonT(60) DEF Others
<1>3. ASSUME NEW p \in Pages PROVE Logs(p)'
  <2>l. Logs(p) BY <1>i, ZenonT(60) DEF LogRight
  <2>1. \A k \in Updates(log, p) : /\ log[k].tid \in Tids \ {t}
                                   /\ op[log[k].tid].at \in {"flush", "write", "log", "acked"}
                                   /\ op[log[k].tid].at = "acked" => log[k].tid \in Committed(log)
    BY <2>l, ZenonT(60) DEF Logs
  <2>2. \A k \in Updates(log, p)' :
          /\ log'[k].tid \in Tids /\ op'[log'[k].tid].at \in {"flush", "write", "log", "acked"}
          /\ op'[log'[k].tid].at = "acked" => log'[k].tid \in Committed(log)'
    BY <2>1, <1>1, <1>2
  <2>3. Image(p)' = Image(p) BY <1>i, <1>n, LooseIs, ZenonT(60)
  <2>4. mon # NoTid /\ Cached(p) => Cached(p)' /\ pool'[p] = pool[p]
    BY <1>i, <1>n, LooseIs, ZenonT(60) DEF Loose
  <2>5. ASSUME NEW k \in Updates(log, p), Settled(log[k], p) PROVE Settled(log[k], p)'
    <3>1. PICK r, u : r = log[k] /\ u = r.tid BY ZenonT(60)
    <3>2. r = log'[k] /\ u \in Tids \ {t} BY <3>1, <2>1, <1>1
    <3>3. op'[u] = op[u] /\ (Writer(u, p)' <=> Writer(u, p)) BY <3>2, <1>i, ZenonT(60) DEF Others, Writer
    <3>4. op[u].at \in {"flush", "write"} => mon = u BY <3>2, <1>i, ZenonT(60) DEF Session
    <3>5. ins' = ins /\ del' = del BY ZenonT(60) DEF Calm
    <3>6. Settled(r, p) BY <2>5, <3>1, ZenonT(60)
    <3>7. Settled(r, p)'
      <4>1. /\ r.after \ r.before \subseteq ins[u] /\ r.before \ r.after \subseteq del[u]
            /\ op[u].at \in {"flush", "write"} =>
                 /\ Cached(p) /\ Writer(u, p)
                 /\ r.before = pool[p].before /\ r.after = pool[p].data
            /\ op[u].at \in {"log", "acked"} => r.after = Image(p)
        BY <3>6, <3>1, ZenonT(60) DEF Settled
      <4>2. /\ op'[u].at \in {"flush", "write"} =>
                 /\ Cached(p)' /\ Writer(u, p)'
                 /\ r.before = pool'[p].before /\ r.after = pool'[p].data
            /\ op'[u].at \in {"log", "acked"} => r.after = Image(p)'
        BY <4>1, <3>2, <3>3, <3>4, <2>3, <2>4, <1>n, ZenonT(60)
      <4>3. r.tid = u BY <3>1, ZenonT(60)
      <4> QED BY <4>1, <4>2, <4>3, <3>5, ZenonT(60) DEF Settled, Writer
    <3>8. Settled(log[k], p)' <=> Settled(r, p)' BY <3>2, ZenonT(60) DEF Settled, Writer
    <3> QED BY <3>7, <3>8
  <2>6. ASSUME Updates(log, p)' # {}
        PROVE  \E k \in DOMAIN log' : Settles(k, p)' /\ Settled(log[k], p)'
    <3>1. PICK k \in DOMAIN log : Settles(k, p) /\ Settled(log[k], p) BY <2>6, <2>l, <1>1, ZenonT(60) DEF Logs
    <3>2. k \in Updates(log, p) BY <3>1 DEF Settles
    <3> QED BY <3>1, <3>2, <2>5, <1>1, <1>d, ZenonT(60)
  <2>7. ASSUME Ahead(p)' PROVE Ahead(p) /\ mon' = mon
    <3>1. mon' # NoTid /\ ((op'[mon'].at = "write" /\ op'[mon'].page = p) \/ disk'[p] # Image(p)')
      BY <2>7, ZenonT(60) DEF Ahead
    <3>2. disk'[p] = disk[p] BY <1>i, ZenonT(60) DEF Loose
    <3>3. CASE mon = NoTid
      <4>1. disk[p] = Image(p) BY <3>3, <1>i, <1>n DEF CachedPage, Image, Cached
      <4>2. mon' = t BY <3>1, <3>3, <1>2, <1>n, ZenonT(60) DEF StorageTypeOK
      <4> QED BY <3>1, <3>2, <4>1, <4>2, <2>3, ZenonT(60)
    <3>4. CASE mon # NoTid
      <4>1. mon \in Tids \ {t} BY <3>4, <1>i, ZenonT(60) DEF Session
      <4>2. mon' = mon /\ op'[mon] = op[mon] BY <4>1, <1>2, ZenonT(60)
      <4> QED BY <3>1, <3>2, <3>4, <4>2, <2>3 DEF Ahead
    <3> QED BY <3>3, <3>4
  <2>8. ASSUME Ahead(p)' PROVE \E k \in DOMAIN log' : Settles(k, p)' /\ log'[k].tid = mon'
    <3>1. PICK k \in DOMAIN log : Settles(k, p) /\ log[k].tid = mon BY <2>7, <2>8, <2>l, ZenonT(60) DEF Logs
    <3>2. k \in Updates(log, p) BY <3>1 DEF Settles
    <3> QED BY <3>1, <3>2, <2>7, <2>8, <1>1, <1>d, ZenonT(60)
  <2> QED BY <2>2, <2>6, <2>8 DEF Logs
<1>4. \A u \in Tids \cap Committed(log)' : op'[u].at = "acked"
  BY <1>1, <1>2, <1>i, ZenonT(60) DEF LogRight
<1> QED BY <1>3, <1>4 DEF LogRight

(* All together. *)
LEMMA CalmStep ==
  ASSUME EngineInv, NEW t \in Tids, Calm(t), LockInv', StorageTypeOK', Session(t)',
         NewTuple(t)', LogRight'
  PROVE  EngineInv' /\ Visible' = Visible
<1>1. /\ \A u \in Tids \ {t} : Session(u)'
      /\ \A p \in DOMAIN pool' : CachedPage(p)'
      /\ Empty'
  BY CalmSessions
<1>2. /\ OnePage' /\ Counted' /\ \A u \in Tids : Effects(u)'
      /\ History' /\ Visible' = Visible
      /\ \A u \in Tids \ {t} : NewTuple(u)'
  BY CalmData
<1>3. \A u \in Tids : Session(u)' /\ NewTuple(u)' BY <1>1, <1>2, ZenonT(60)
<1> QED BY <1>1, <1>2, <1>3 DEF EngineInv

(* Most steps of a session touch no page. *)
LEMMA StillPages ==
  ASSUME pool' = pool, disk' = disk
  PROVE  \A p : Loose(p) /\ Image(p)' = Image(p) /\ Cur(p)' = Cur(p)
BY ZenonT(60) DEF Loose, Image, Cur, Cached

(* A session moves on, and that is all. *)
LEMMA SessionMoves ==
  ASSUME EngineInv, NEW t \in Tids, up, NEW o \in Ops, op' = [op EXCEPT ![t] = o],
         UNCHANGED <<lockVars, pool, disk, numPages, ins, del, up>>,
         \A u \in Tids \ {t} : obj'[u] = obj[u] /\ (mon' = u <=> mon = u), mon = t => mon' = t,
         op[t].at # "put", o.at # "put",
         o.at \in Over <=> op[t].at \in Over, o.at \in Through <=> op[t].at \in Through,
         o.at = "lost" <=> op[t].at = "lost"
  PROVE  /\ Calm(t) /\ op'[t] = o /\ op' \in [Tids -> Ops]
         /\ \A u \in Tids \ {t} : op'[u] = op[u]
<1>1. /\ op \in [Tids -> Ops] /\ numPages \in Nat /\ calls \in [Tids -> 0..MaxCalls]
      /\ MaxCalls \in Nat
  BY LockAssumption, SMTT(60) DEF EngineInv, StorageTypeOK, LockInv, LockTypeOK
<1>2. op'[t] = o /\ op' \in [Tids -> Ops] /\ \A u \in Tids \ {t} : op'[u] = op[u] BY <1>1
<1>3. numPages <= numPages' /\ calls[t] <= calls'[t]
  <2>1. numPages' = numPages /\ calls' = calls BY DEF lockVars
  <2>2. calls[t] \in Int BY <1>1
  <2> QED BY <2>1, <2>2, <1>1
<1>4. \A p \in Pages : Loose(p) BY StillPages, ZenonT(60)
<1>5. Others(t) BY <1>2 DEF Others, lockVars
<1> QED BY <1>2, <1>3, <1>4, <1>5, ZenonT(60) DEF Calm, lockVars, Writer

-----------------------------------------------------------------------------
(* The steps of a statement. *)

(* Transaction.start. *)
LEMMA BeginKeeps ==
  ASSUME EngineInv, NEW t \in Tids, logXactionBegin(t)
  PROVE  EngineInv' /\ Visible' = Visible
<1>s. Session(t) /\ StorageTypeOK /\ LockInv BY DEF EngineInv
<1>l. LockInv' BY <1>s, LocksStep DEF Step
<1>a. /\ up /\ op[t].at = "new" /\ phase[t] = "active"
      /\ log' = Append(log, Record("BEGIN", t))
      /\ op' = [op EXCEPT ![t].at = "idle"]
      /\ UNCHANGED <<lockVars, pool, disk, numPages, obj, mon, ins, del, up, restarts>>
  BY DEF logXactionBegin, Running, Go
<1>x. PICK o : o = [op[t] EXCEPT !.at = "idle"] BY ZenonT(60)
<1>o. o \in Ops /\ o.at = "idle" /\ o.page = op[t].page
  BY <1>s, <1>x, MovesIs DEF StorageTypeOK, Places
<1>c. /\ Calm(t) /\ op'[t] = o /\ op' \in [Tids -> Ops]
      /\ \A u \in Tids \ {t} : op'[u] = op[u]
  <2>1. op' = [op EXCEPT ![t] = o] BY <1>a, <1>x
  <2> QED BY <2>1, <1>a, <1>o, SessionMoves, ZenonT(60) DEF Over, Through
<1>r. Record("BEGIN", t) \in Records /\ Record("BEGIN", t).type = "BEGIN" BY RecordIs
<1>t. StorageTypeOK'
  <2>1. log' \in Seq(Records) BY <1>a, <1>r, <1>s DEF StorageTypeOK
  <2> QED BY <1>a, <1>c, <1>s, <2>1 DEF StorageTypeOK
<1>1. Session(t)' BY <1>a, <1>c, <1>o, <1>s, ZenonT(60) DEF Session, lockVars, Over, InStatement
<1>2. NewTuple(t)' BY <1>c, <1>o DEF NewTuple, Inserting, InStatement
<1>3. LogRight' BY <1>a, <1>o, <1>c, <1>r, <1>t, CalmLog
<1> QED BY <1>c, <1>l, <1>t, <1>1, <1>2, <1>3, CalmStep

(* A session turns to another page. *)
LEMMA VisitIs ==
  ASSUME NEW b \in Ops, NEW t, NEW p \in Pages, NEW o, o = Visit(b, t, p)
  PROVE  /\ o \in Ops /\ o.at = "lock" /\ o.page = p /\ o.kind = b.kind /\ o.ex = b.ex
         /\ o.tup = b.tup
<1>1. PICK h : h = (t \in holders[p]) OBVIOUS
<1>b. h \in BOOLEAN BY <1>1
<1>2. o = [b EXCEPT !.at = "lock", !.page = p, !.held = h] BY <1>1, Zenon DEF Visit
<1> QED BY <1>b, <1>2, ZenonT(60) DEF Ops, Places

(* A statement starts: its tuple is new, its page exists. *)
LEMMA StatementKeeps ==
  ASSUME EngineInv, NEW t \in Tids, Statement(t)
  PROVE  EngineInv' /\ Visible' = Visible
<1>s. Session(t) /\ StorageTypeOK /\ LockInv BY DEF EngineInv
<1>l. LockInv' BY <1>s, LocksStep DEF Step
<1>b. At("idle") \in Ops /\ At("idle").ex = FALSE /\ 0 \in Pages BY AtIs, PageNumbers, ZenonT(60) DEF Places
<1>m. /\ MaxCalls \in Nat /\ calls[t] \in 0..MaxCalls /\ numPages \in Nat /\ numPages - 1 \in Pages
      /\ Pages \subseteq Nat
  BY <1>s, LockAssumption, PageNumbers DEF LockInv, LockTypeOK, StorageTypeOK
<1>x. PICK n, o :
        /\ n = calls[t] + 1
        /\ o \in Ops /\ o.at = "lock" /\ o.ex = FALSE /\ o.page < numPages
        /\ o.kind \in {"insert", "scan"} /\ (o.kind = "insert" => o.tup = <<t, n>>)
        /\ StartStatement(t, o)
  <2>n. PICK n : n = calls[t] + 1 OBVIOUS
  <2>1. CASE StartStatement(t, Visit([At("idle") EXCEPT !.kind = "insert", !.tup = <<t, n>>], t, 0))
    <3>1. PICK b : b = [At("idle") EXCEPT !.kind = "insert", !.tup = <<t, n>>] OBVIOUS
    <3>2. calls[t] < MaxCalls BY <2>1 DEF StartStatement
    <3>3. n \in 1..MaxCalls BY <2>n, <3>2, <1>m
    <3>4. <<t, n>> \in Tuples BY <3>3 DEF Tuples
    <3>5. b \in Ops /\ b.kind = "insert" /\ b.tup = <<t, n>> /\ b.ex = FALSE
      BY <3>1, <3>4, <1>b, ZenonT(60) DEF Ops
    <3>6. PICK o : o = Visit(b, t, 0) OBVIOUS
    <3>7. o \in Ops /\ o.at = "lock" /\ o.ex = FALSE /\ o.page = 0 /\ o.kind = "insert" /\ o.tup = <<t, n>>
      BY <3>5, <3>6, <1>b, VisitIs
    <3>8. 0 < numPages BY <1>m
    <3> QED BY <2>n, <2>1, <3>1, <3>6, <3>7, <3>8
  <2>2. CASE \E p \in 0..(numPages - 1) : StartStatement(t, Visit([At("idle") EXCEPT !.kind = "scan"], t, p))
    <3>p. PICK p \in 0..(numPages - 1) : StartStatement(t, Visit([At("idle") EXCEPT !.kind = "scan"], t, p))
      BY <2>2
    <3>1. PICK b : b = [At("idle") EXCEPT !.kind = "scan"] BY ZenonT(60)
    <3>2. p \in Pages /\ p < numPages BY <1>m, PageNumbers
    <3>5. b \in Ops /\ b.kind = "scan" /\ b.ex = FALSE BY <3>1, <1>b DEF Ops
    <3>6. PICK o : o = Visit(b, t, p) OBVIOUS
    <3>7. o \in Ops /\ o.at = "lock" /\ o.ex = FALSE /\ o.page = p /\ o.kind = "scan"
      BY <3>5, <3>6, <3>2, VisitIs
    <3> QED BY <2>n, <3>p, <3>1, <3>2, <3>6, <3>7
  <2> QED BY <2>n, <2>1, <2>2, ZenonT(60) DEF Statement
<1>a. /\ up /\ op[t].at = "idle" /\ phase[t] = "active" /\ calls[t] < MaxCalls
      /\ op' = [op EXCEPT ![t] = o]
      /\ UNCHANGED <<lockVars, pool, disk, numPages, log, obj, mon, ins, del, up, restarts>>
  BY <1>x, ZenonT(60) DEF StartStatement, Running
<1>c. /\ Calm(t) /\ op'[t] = o /\ op' \in [Tids -> Ops]
      /\ \A u \in Tids \ {t} : op'[u] = op[u]
  BY <1>a, <1>x, SessionMoves, ZenonT(60) DEF Over, Through
<1>t. StorageTypeOK' BY <1>a, <1>c, <1>s DEF StorageTypeOK
<1>1. Session(t)' BY <1>a, <1>c, <1>x, <1>s, ZenonT(60) DEF Session, lockVars, Over, InStatement
<1>2. NewTuple(t)'
  <2> SUFFICES ASSUME o.kind = "insert"
               PROVE  /\ \E k \in 1..MaxCalls : /\ op'[t].tup = <<t, k>> /\ k <= calls'[t] + 1
                                                /\ op'[t].at # "lock" \/ waitingFor'[t] # NoPage => k <= calls'[t]
                      /\ ~Used(op[t].tup)'
    BY <1>c, ZenonT(60) DEF NewTuple, Inserting
  <2>1. n \in 1..MaxCalls /\ op'[t].tup = <<t, n>> /\ calls'[t] = calls[t] /\ n = calls[t] + 1
    BY <1>a, <1>c, <1>x, <1>m DEF lockVars
  <2>2. op'[t].at = "lock" /\ waitingFor'[t] = NoPage
    BY <1>a, <1>c, <1>x, <1>s, ZenonT(60) DEF lockVars, Session
  <2>3. PICK x : x = <<t, n>> BY ZenonT(60)
  <2>4. x \in Tuples /\ x # OldTuple /\ x[1] = t /\ x[2] = n
    BY <2>1, <2>3, StorageAssumption, ZenonT(60) DEF Tuples, OldTuple
  <2>5. ~Numbered(x) BY <2>1, <2>4, <1>m DEF Numbered
  <2>6. ~Used(x) BY <2>4, <2>5, ZenonT(60) DEF EngineInv, Counted
  <2>7. ~Used(x)' BY <2>6, <1>c, <1>l, CalmData, ZenonT(60)
  <2>8. Used(op[t].tup)' <=> Used(x)' BY <2>1, <2>3, ZenonT(60) DEF Used, On
  <2>9. n <= calls'[t] + 1 BY <2>1, <1>m
  <2> QED BY <2>1, <2>2, <2>7, <2>8, <2>9, ZenonT(60)
<1>3. LogRight' BY <1>a, <1>x, <1>c, <1>t, CalmLog
<1> QED BY <1>c, <1>l, <1>t, <1>1, <1>2, <1>3, CalmStep

(* What a pass through acquire does to the transactions. *)
LEMMA AttemptIs ==
  ASSUME LockInv, NEW t \in Tids, NEW p \in Pages, NEW ex \in BOOLEAN, Attempt(t, p, ex)
  PROVE  /\ \A u \in Tids \ {t} :
              /\ granted'[u] = granted[u] /\ waitingFor'[u] = waitingFor[u] /\ want'[u] = want[u]
              /\ phase'[u] = phase[u]
         /\ \A q \in Pages : /\ granted[t][q] = "X" => granted'[t][q] = "X"
                             /\ granted[t][q] # "none" => granted'[t][q] # "none"
         /\ \/ /\ waitingFor'[t] = NoPage /\ phase'[t] = phase[t]
               /\ granted'[t][p] # "none" /\ (ex => granted'[t][p] = "X")
            \/ waitingFor'[t] = p /\ want'[t] = ex /\ phase'[t] = phase[t]
            \/ waitingFor'[t] = NoPage /\ phase'[t] = "aborting"
<1>1. CASE Grant(t, p, ex) BY <1>1, ZenonT(60) DEF Grant, LockInv, LockTypeOK
<1>2. CASE Wait(t, p, ex) BY <1>2, ZenonT(60) DEF Wait, LockInv, LockTypeOK
<1>3. CASE Abandon(t, p, ex) BY <1>3 DEF Abandon, LockInv, LockTypeOK
<1> QED BY <1>1, <1>2, <1>3, ZenonT(60) DEF Attempt

(* getPage asks for the lock. *)
LEMMA LockKeeps ==
  ASSUME EngineInv, NEW t \in Tids, Lock(t)
  PROVE  EngineInv' /\ Visible' = Visible
<1>s. Session(t) /\ StorageTypeOK /\ LockInv /\ op[t] \in Ops BY DEF EngineInv, StorageTypeOK
<1>l. LockInv' BY <1>s, LocksStep DEF Step
<1>p. PICK p, ex : p = op[t].page /\ ex = op[t].ex OBVIOUS
<1>q. p \in Pages /\ ex \in BOOLEAN /\ NoPage \notin Pages BY <1>p, <1>s, PageNumbers DEF Ops
<1>a. /\ up /\ op[t].at = "lock" /\ phase[t] = "active"
      /\ UNCHANGED <<pool, disk, numPages, log, obj, mon, ins, del, up, restarts>>
  BY DEF Lock, Running
<1>m. calls \in [Tids -> Nat]
  BY <1>s, LockAssumption DEF LockInv, LockTypeOK
<1>b. /\ Attempt(t, p, ex)
      /\ \/ calls' = [calls EXCEPT ![t] = @ + 1]
         \/ calls' = calls /\ waitingFor[t] # NoPage
  BY <1>p, <1>s, <1>a DEF Lock, acquire, Retry, Session
<1>c. /\ calls[t] <= calls'[t] /\ \A u \in Tids \ {t} : calls'[u] = calls[u]
      /\ calls[t] \in Nat /\ calls'[t] \in Nat
      /\ calls'[t] = calls[t] + 1 \/ (calls'[t] = calls[t] /\ waitingFor[t] # NoPage)
  BY <1>b, <1>m
<1>x. PICK o : /\ o = [op[t] EXCEPT !.at = IF waitingFor'[t] = NoPage /\ phase'[t] = "active"
                                           THEN "fetch" ELSE "lock"]
               /\ op' = [op EXCEPT ![t] = o]
  BY ZenonT(60) DEF Lock
<1>o. /\ o \in Ops /\ o.page = p /\ o.kind = op[t].kind /\ o.ex = ex /\ o.tup = op[t].tup
      /\ o.at = IF waitingFor'[t] = NoPage /\ phase'[t] = "active" THEN "fetch" ELSE "lock"
  <2>1. PICK a : a = IF waitingFor'[t] = NoPage /\ phase'[t] = "active" THEN "fetch" ELSE "lock"
    OBVIOUS
  <2>2. a \in Places BY <2>1 DEF Places
  <2>3. o = [op[t] EXCEPT !.at = a] BY <2>1, <1>x
  <2> QED BY <2>1, <2>2, <2>3, <1>s, <1>p, MovesIs
<1>f. op'[t] = o /\ op' \in [Tids -> Ops] /\ \A u \in Tids \ {t} : op'[u] = op[u]
  BY <1>x, <1>o, <1>s, ZenonT(60) DEF StorageTypeOK
<1>g. /\ \A u \in Tids \ {t} :
              /\ granted'[u] = granted[u] /\ waitingFor'[u] = waitingFor[u] /\ want'[u] = want[u]
              /\ phase'[u] = phase[u]
      /\ \A q \in Pages : /\ granted[t][q] = "X" => granted'[t][q] = "X"
                          /\ granted[t][q] # "none" => granted'[t][q] # "none"
      /\ \/ /\ waitingFor'[t] = NoPage /\ phase'[t] = phase[t]
            /\ granted'[t][p] # "none" /\ (ex => granted'[t][p] = "X")
         \/ waitingFor'[t] = p /\ want'[t] = ex /\ phase'[t] = phase[t]
         \/ waitingFor'[t] = NoPage /\ phase'[t] = "aborting"
  BY <1>b, <1>q, <1>s, AttemptIs, ZenonT(60)
<1>t. StorageTypeOK' BY <1>a, <1>f, <1>s, ZenonT(60) DEF StorageTypeOK
<1>h. Calm(t)
  <2>1. \A q \in Pages : Loose(q) BY <1>a, StillPages, ZenonT(60)
  <2>2. numPages <= numPages' BY <1>a, <1>s DEF StorageTypeOK
  <2>3. Others(t) BY <1>a, <1>c, <1>f, <1>g, ZenonT(60) DEF Others
  <2> QED BY <1>a, <1>c, <1>f, <1>g, <1>o, <2>1, <2>2, <2>3, ZenonT(60) DEF Calm, Over, Through, Writer
<1>1. Session(t)'
  <2>1. \A q : Image(q)' = Image(q) /\ Cur(q)' = Cur(q) BY <1>a, StillPages, ZenonT(60)
  <2>2. /\ op[t].kind \in {"insert", "scan"} /\ mon # t /\ p < numPages
        /\ ex /\ op[t].kind = "scan" => granted[t][p] # "none" /\ op[t].tup \in Cur(p)
    BY <1>a, <1>s, <1>p, ZenonT(60) DEF Session, InStatement
  <2>3. Cur(op[t].page)' = Cur(p)' BY <1>f, <1>o, ZenonT(60) DEF Cur, Cached
  <2>4. CASE waitingFor'[t] = NoPage /\ phase'[t] = "active"
    <3>1. o.at = "fetch" /\ granted'[t][p] # "none" /\ (ex => granted'[t][p] = "X")
      BY <2>4, <1>g, <1>o, <1>q, <1>a, ZenonT(60)
    <3> QED BY <2>1, <2>2, <2>3, <2>4, <3>1, <1>a, <1>f, <1>o, <1>g, ZenonT(60)
        DEF Session, Over, InStatement, Writer
  <2>5. CASE ~(waitingFor'[t] = NoPage /\ phase'[t] = "active")
    <3>1. /\ o.at = "lock" /\ phase'[t] \in {"active", "aborting"}
          /\ waitingFor'[t] # NoPage => waitingFor'[t] = p /\ want'[t] = ex
      BY <2>5, <1>g, <1>o, <1>a, ZenonT(60)
    <3> QED BY <2>1, <2>2, <2>3, <3>1, <1>a, <1>f, <1>o, <1>g, <1>q, ZenonT(60)
        DEF Session, Over, InStatement, Writer
  <2> QED BY <2>4, <2>5
<1>2. NewTuple(t)'
  <2> SUFFICES ASSUME op[t].kind = "insert"
               PROVE  /\ \E k \in 1..MaxCalls : /\ op'[t].tup = <<t, k>> /\ k <= calls'[t] + 1
                                                /\ op'[t].at # "lock" \/ waitingFor'[t] # NoPage => k <= calls'[t]
                      /\ ~Used(op[t].tup)'
    BY <1>f, <1>o, ZenonT(60) DEF NewTuple, Inserting
  <2>1. NewTuple(t) /\ Inserting(t) BY <1>a, ZenonT(60) DEF EngineInv, Inserting, InStatement
  <2>2. PICK k \in 1..MaxCalls : /\ op[t].tup = <<t, k>> /\ k <= calls[t] + 1
                                 /\ waitingFor[t] # NoPage => k <= calls[t]
    BY <2>1, ZenonT(60) DEF NewTuple
  <2>3. k <= calls'[t] BY <2>2, <1>c
  <2>4. PICK x : x = op[t].tup BY ZenonT(60)
  <2>5. ~Used(x)' BY <2>1, <2>4, <1>h, <1>l, CalmData, ZenonT(60) DEF NewTuple
  <2>6. Used(op[t].tup)' <=> Used(x)' BY <2>4, <1>f, <1>o, ZenonT(60) DEF Used, On
  <2> QED BY <2>2, <2>3, <2>5, <2>6, <1>c, <1>f, <1>o
<1>3. LogRight' BY <1>a, <1>f, <1>o, <1>h, <1>t, CalmLog, ZenonT(60)
<1> QED BY <1>h, <1>l, <1>t, <1>1, <1>2, <1>3, CalmStep, ZenonT(60)

(* "all pages are dirty" and "page is full". *)
LEMMA FailKeeps ==
  ASSUME EngineInv, NEW t \in Tids, FetchFails(t) \/ EditFails(t)
  PROVE  EngineInv' /\ Visible' = Visible
<1>s. Session(t) /\ StorageTypeOK /\ LockInv BY DEF EngineInv
<1>l. LockInv' BY <1>s, LocksStep, ZenonT(60) DEF Step
<1>a. /\ up /\ op[t].at \in {"fetch", "edit"} /\ phase[t] = "active"
      /\ phase' = [phase EXCEPT ![t] = "aborting"]
      /\ UNCHANGED <<holders, exclusive, waitingFor, want, granted, calls>>
      /\ UNCHANGED <<pool, disk, numPages, log, op, obj, mon, ins, del, up, restarts>>
  BY ZenonT(60) DEF FetchFails, EditFails, Running, storageVars
<1>m. calls \in [Tids -> Nat] /\ numPages \in Nat
  BY <1>s, LockAssumption DEF LockInv, LockTypeOK, StorageTypeOK
<1>f. phase'[t] = "aborting" /\ \A u \in Tids \ {t} : phase'[u] = phase[u]
  BY <1>a, <1>s, ZenonT(60) DEF LockInv, LockTypeOK
<1>t. StorageTypeOK' BY <1>a, <1>s, ZenonT(60) DEF StorageTypeOK
<1>c. Calm(t)
  <2>1. \A q \in Pages : Loose(q) BY <1>a, StillPages, ZenonT(60)
  <2>2. numPages <= numPages' /\ calls[t] <= calls'[t] BY <1>a, <1>m
  <2>3. Others(t) BY <1>a, <1>f, ZenonT(60) DEF Others
  <2> QED BY <1>a, <2>1, <2>2, <2>3, ZenonT(60) DEF Calm, Writer
<1>1. Session(t)'
  <2>1. op'[t] = op[t] BY <1>a
  <2>2. PICK p : p = op[t].page OBVIOUS
  <2>3. /\ Image(p)' = Image(p) /\ Cur(p)' = Cur(p)
        /\ Image(op[t].page)' = Image(p)' /\ Cur(op[t].page)' = Cur(p)'
    BY <1>a, <2>2, StillPages, ZenonT(60) DEF Image, Cur, Cached
  <2> QED BY <1>a, <1>f, <1>s, <2>1, <2>2, <2>3, ZenonT(60) DEF Session, Over, InStatement, Writer
<1>2. NewTuple(t)'
  <2>1. NewTuple(t) BY ZenonT(60) DEF EngineInv
  <2>2. Used(op[t].tup)' => Used(op[t].tup)
    <3>1. PICK x : x = op[t].tup OBVIOUS
    <3>2. Used(op[t].tup)' <=> Used(x)' BY <3>1, <1>a, ZenonT(60) DEF Used, On
    <3> QED BY <3>1, <3>2, <1>c, <1>l, CalmData
  <2> QED BY <2>1, <2>2, <1>a, ZenonT(60) DEF NewTuple, Inserting
<1>3. LogRight' BY <1>a, <1>c, <1>t, CalmLog, ZenonT(60)
<1> QED BY <1>c, <1>l, <1>t, <1>1, <1>2, <1>3, CalmStep, ZenonT(60)

(* What letting go of pages does to the transactions. *)
LEMMA ReleasedIs ==
  ASSUME LockInv, NEW t \in Tids, NEW pages \in SUBSET Pages, Released(t, pages)
  PROVE  /\ \A u \in Tids \ {t} : granted'[u] = granted[u]
         /\ \A q \in Pages : granted'[t][q] = IF q \in pages THEN "none" ELSE granted[t][q]
BY ZenonT(60) DEF LockInv, LockTypeOK, Released

(* An insert goes on to the next page, or to grow the file. *)
LEMMA NextPageKeeps ==
  ASSUME EngineInv, NEW t \in Tids, NextPage(t)
  PROVE  EngineInv' /\ Visible' = Visible
<1>s. Session(t) /\ StorageTypeOK /\ LockInv /\ op[t] \in Ops BY DEF EngineInv, StorageTypeOK
<1>l. LockInv' BY <1>s, LocksStep DEF Step
<1>a. /\ up /\ op[t].at = "full" /\ phase[t] = "active"
      /\ UNCHANGED <<pool, disk, numPages, log, obj, mon, ins, del, up, restarts>>
  BY DEF NextPage, Running
<1>p. PICK p : p = op[t].page OBVIOUS
<1>m. calls \in [Tids -> Nat] /\ numPages \in Nat /\ numPages - 1 \in Pages /\ p \in Pages
      /\ Pages \subseteq Nat
  BY <1>s, <1>p, LockAssumption, PageNumbers DEF LockInv, LockTypeOK, StorageTypeOK, Ops
<1>g. /\ UNCHANGED <<waitingFor, want, phase, calls>>
      /\ \A u \in Tids \ {t} : granted'[u] = granted[u]
      /\ \A q \in Pages : Writer(t, q) => Writer(t, q)'
  <2>1. CASE UNCHANGED lockVars BY <2>1, ZenonT(60) DEF lockVars, Writer
  <2>2. CASE release(t, p)
    <3>1. Released(t, {p}) /\ granted[t][p] = "S" BY <2>2 DEF release
    <3> QED BY <2>2, <3>1, <1>m, <1>s, ReleasedIs DEF release, Writer
  <2> QED BY <2>1, <2>2, <1>p DEF NextPage
<1>x. PICK o : /\ o = IF p + 1 < numPages THEN Visit(op[t], t, p + 1)
                      ELSE [op[t] EXCEPT !.at = "grow"]
               /\ op' = [op EXCEPT ![t] = o]
  BY <1>p, ZenonT(60) DEF NextPage
<1>o. /\ o \in Ops /\ o.kind = op[t].kind /\ o.tup = op[t].tup
      /\ o.at \in {"lock", "grow"} /\ o.page < numPages
  <2>1. CASE p + 1 < numPages
    <3>1. p + 1 \in 0..(numPages - 1) BY <2>1, <1>m
    <3>2. p + 1 \in Pages BY <3>1, <1>m, PageNumbers
    <3>3. o = Visit(op[t], t, p + 1) BY <2>1, <1>x
    <3> QED BY <2>1, <3>2, <3>3, <1>s, VisitIs
  <2>2. CASE ~(p + 1 < numPages)
    <3>1. o = [op[t] EXCEPT !.at = "grow"] /\ "grow" \in Places BY <2>2, <1>x DEF Places
    <3> QED BY <3>1, <1>s, <1>p, MovesIs DEF Session
  <2> QED BY <2>1, <2>2
<1>f. op'[t] = o /\ op' \in [Tids -> Ops] /\ \A u \in Tids \ {t} : op'[u] = op[u]
  BY <1>x, <1>o, <1>s DEF StorageTypeOK
<1>t. StorageTypeOK' BY <1>a, <1>f, <1>s DEF StorageTypeOK
<1>c. Calm(t)
  <2>1. \A q \in Pages : Loose(q) BY <1>a, StillPages, ZenonT(60)
  <2>2. numPages <= numPages' /\ calls[t] <= calls'[t] BY <1>a, <1>m, <1>g
  <2>3. Others(t) BY <1>a, <1>f, <1>g, ZenonT(60) DEF Others
  <2> QED BY <1>a, <1>f, <1>g, <1>o, <2>1, <2>2, <2>3, ZenonT(60) DEF Calm, Over, Through
<1>1. Session(t)'
  <2>1. op[t].kind = "insert" /\ mon # t /\ waitingFor[t] = NoPage BY <1>a, <1>s, ZenonT(60) DEF Session
  <2> QED BY <2>1, <1>a, <1>f, <1>g, <1>o, ZenonT(60) DEF Session, Over, InStatement
<1>2. NewTuple(t)'
  <2>1. NewTuple(t) /\ Inserting(t) BY <1>a, <1>s, ZenonT(60) DEF EngineInv, Inserting, InStatement, Session
  <2>2. PICK k \in 1..MaxCalls : op[t].tup = <<t, k>> /\ k <= calls[t]
    BY <2>1, <1>a, ZenonT(60) DEF NewTuple
  <2>3. k <= calls'[t] /\ k <= calls'[t] + 1 BY <2>2, <1>g, <1>m
  <2>4. PICK x : x = op[t].tup BY ZenonT(60)
  <2>5. ~Used(x)' BY <2>1, <2>4, <1>c, <1>l, CalmData, ZenonT(60) DEF NewTuple
  <2>6. Used(op[t].tup)' <=> Used(x)' BY <2>4, <1>f, <1>o, ZenonT(60) DEF Used, On
  <2> QED BY <2>2, <2>3, <2>5, <2>6, <1>f, <1>o, ZenonT(60) DEF NewTuple
<1>3. LogRight' BY <1>a, <1>f, <1>o, <1>c, <1>t, CalmLog, ZenonT(60)
<1> QED BY <1>c, <1>l, <1>t, <1>1, <1>2, <1>3, CalmStep

(* The file grows by a page, which was empty before it was there. *)
LEMMA GrowKeeps ==
  ASSUME EngineInv, NEW t \in Tids, Grow(t)
  PROVE  EngineInv' /\ Visible' = Visible
<1>s. Session(t) /\ StorageTypeOK /\ LockInv /\ op[t] \in Ops BY DEF EngineInv, StorageTypeOK
<1>l. LockInv' BY <1>s, LocksStep DEF Step
<1>a. /\ up /\ op[t].at = "grow" /\ phase[t] = "active" /\ numPages \in Pages
      /\ disk' = [disk EXCEPT ![numPages] = {}] /\ numPages' = numPages + 1
      /\ UNCHANGED <<lockVars, pool, log, obj, mon, ins, del, up, restarts>>
  BY DEF Grow, Running
<1>b. UNCHANGED <<holders, exclusive, waitingFor, want, phase, granted, calls>>
  BY <1>a, ZenonT(60) DEF lockVars
<1>m. calls \in [Tids -> Nat] /\ numPages \in Nat /\ Pages \subseteq Nat
  BY <1>s, LockAssumption, PageNumbers DEF LockInv, LockTypeOK, StorageTypeOK
<1>d. disk' = disk
  <2>0. numPages >= numPages BY <1>m
  <2>1. disk[numPages] = {} BY <2>0, <1>a, ZenonT(60) DEF EngineInv, Empty
  <2> QED BY <2>1, <1>a, <1>s, ZenonT(60) DEF StorageTypeOK
<1>x. PICK o : /\ o = [op[t] EXCEPT !.at = "lock", !.page = numPages, !.ex = TRUE]
               /\ op' = [op EXCEPT ![t] = o]
  BY ZenonT(60) DEF Grow
<1>o. /\ o \in Ops /\ o.kind = op[t].kind /\ o.tup = op[t].tup
      /\ o.at = "lock" /\ o.page = numPages
  BY <1>x, <1>a, <1>s, ZenonT(60) DEF Ops, Places
<1>f. op'[t] = o /\ op' \in [Tids -> Ops] /\ \A u \in Tids \ {t} : op'[u] = op[u]
  BY <1>x, <1>o, <1>s, ZenonT(60) DEF StorageTypeOK
<1>t. StorageTypeOK'
  <2>0. numPages' = numPages + 1 BY <1>a, ZenonT(60)
  <2>1. numPages' \in Nat /\ numPages' - 1 = numPages BY <2>0, <1>m
  <2> QED BY <1>a, <1>d, <1>f, <1>s, <2>1, ZenonT(60) DEF StorageTypeOK
<1>c. Calm(t)
  <2>1. \A q \in Pages : Loose(q) BY <1>a, <1>d, StillPages, ZenonT(60)
  <2>2. numPages <= numPages' /\ calls[t] <= calls'[t] BY <1>a, <1>b, <1>m
  <2>3. Others(t) BY <1>a, <1>b, <1>f, ZenonT(60) DEF Others
  <2> QED BY <1>a, <1>b, <1>f, <1>o, <2>1, <2>2, <2>3, ZenonT(60) DEF Calm, Over, Through, Writer
<1>1. Session(t)'
  <2>1. op[t].kind = "insert" /\ mon # t /\ waitingFor[t] = NoPage BY <1>a, <1>s, ZenonT(60) DEF Session
  <2>2. numPages < numPages' BY <1>a, <1>m
  <2> QED BY <2>1, <2>2, <1>a, <1>b, <1>f, <1>o, ZenonT(60) DEF Session, Over, InStatement
<1>2. NewTuple(t)'
  <2>1. NewTuple(t) /\ Inserting(t) BY <1>a, <1>s, ZenonT(60) DEF EngineInv, Inserting, InStatement, Session
  <2>2. PICK k \in 1..MaxCalls : op[t].tup = <<t, k>> /\ k <= calls[t]
    BY <2>1, <1>a, ZenonT(60) DEF NewTuple
  <2>3. k <= calls'[t] /\ k <= calls'[t] + 1 BY <2>2, <1>b, <1>m
  <2>4. PICK x : x = op[t].tup OBVIOUS
  <2>5. ~Used(x)' BY <2>1, <2>4, <1>c, <1>l, CalmData, ZenonT(60) DEF NewTuple
  <2>6. Used(op[t].tup)' <=> Used(x)' BY <2>4, <1>f, <1>o, ZenonT(60) DEF Used, On
  <2> QED BY <2>2, <2>3, <2>5, <2>6, <1>f, <1>o, ZenonT(60) DEF NewTuple
<1>3. LogRight' BY <1>a, <1>f, <1>o, <1>c, <1>t, CalmLog, ZenonT(60)
<1> QED BY <1>c, <1>l, <1>t, <1>1, <1>2, <1>3, CalmStep

=============================================================================
