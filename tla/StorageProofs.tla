--------------------------- MODULE StorageProofs ---------------------------
(* The storage engine keeps what TransactionalStore promises, for any      *)
(* number of transactions, pages and restarts and any size of the pool.    *)
EXTENDS StatementProofs

-----------------------------------------------------------------------------
(* The end of a transaction. *)

(* What every page shows when t has committed: t's version of the pages it *)
(* wrote, which is what their file has.                                    *)
LEMMA CompleteIs ==
  ASSUME EngineInv, NEW t \in Tids, transactionComplete(t)
  PROVE  /\ up /\ up' /\ mon = t /\ mon' = NoTid /\ op[t].at = "flush"
         /\ log' = log /\ disk' = disk /\ numPages' = numPages /\ obj' = obj
         /\ ins' = ins /\ del' = del /\ calls' = calls
         /\ op'[t].at = "log" /\ op' = [op EXCEPT ![t].at = "log"]
         /\ \A u \in Tids \ {t} :
              /\ op'[u] = op[u] /\ phase'[u] = phase[u] /\ waitingFor'[u] = waitingFor[u]
              /\ want'[u] = want[u] /\ granted'[u] = granted[u]
         /\ \A p \in Pages : granted'[t][p] = "none"
         /\ StorageTypeOK' /\ Session(t)'
         /\ \A p \in Pages :
              /\ Cached(p)' <=> Cached(p)
              /\ Cached(p) => pool'[p].data = pool[p].data /\ pool'[p].dirty = pool[p].dirty
              /\ granted[t][p] = "none" => Image(p)' = Image(p) /\ (Cached(p) => pool'[p] = pool[p])
              /\ granted[t][p] # "none" => /\ Image(p)' = Cur(p) /\ disk[p] = Cur(p)
                                           /\ Cached(p) => /\ pool[p].dirty = NoTid
                                                           /\ pool'[p].before = pool[p].data
              /\ Cur(p)' = Cur(p)
              /\ ~Writer(t, p) => Image(p)' = Image(p)
              /\ Own(t, p) = Cur(p)
<1>s. Session(t) /\ StorageTypeOK /\ LockInv /\ op[t] \in Ops BY DEF EngineInv, StorageTypeOK
<1>n. NoTid \notin Tids BY StorageAssumption
<1>a. /\ up /\ op[t].at = "flush" /\ phase[t] = "active" /\ DirtyPages(t) = {}
      /\ pool' = Imaged(t) /\ releaseAll(t) /\ mon' = NoTid
      /\ op' = [op EXCEPT ![t].at = "log"]
      /\ UNCHANGED <<disk, numPages, log, obj, ins, del, up, restarts>>
  BY DEF transactionComplete, Running, Go
<1>m. mon = t BY <1>a, <1>s DEF Session
<1>r. Released(t, Pages) /\ phase' = [phase EXCEPT ![t] = "done"] /\ UNCHANGED <<waitingFor, want, calls>>
  BY <1>a DEF releaseAll
<1>x. PICK o : o = [op[t] EXCEPT !.at = "log"] BY ZenonT(60)
<1>o. o \in Ops /\ o.at = "log" /\ o.page = op[t].page BY <1>s, <1>x, MovesIs DEF Places
<1>f. op'[t] = o /\ op' \in [Tids -> Ops] /\ \A u \in Tids \ {t} : op'[u] = op[u]
  BY <1>x, <1>o, <1>a, <1>s DEF StorageTypeOK
<1>g. /\ \A u \in Tids \ {t} : granted'[u] = granted[u] /\ phase'[u] = phase[u]
      /\ \A p \in Pages : granted'[t][p] = "none"
      /\ phase'[t] = "done"
  BY <1>r, <1>s, ReleasedIs DEF LockInv, LockTypeOK
<1>h. ASSUME NEW p \in Pages
      PROVE  /\ Cached(p)' <=> Cached(p)
             /\ Cached(p) => /\ pool'[p] = IF granted[t][p] # "none"
                                           THEN [pool[p] EXCEPT !.before = pool[p].data]
                                           ELSE pool[p]
                             /\ pool[p] \in PageObjects /\ pool'[p] \in PageObjects
                             /\ pool'[p].data = pool[p].data /\ pool'[p].dirty = pool[p].dirty
                             /\ granted[t][p] # "none" => pool'[p].before = pool[p].data
  <2>1. p \in pagesHeldBy(t) <=> granted[t][p] # "none" BY <1>s DEF pagesHeldBy, LockInv, Recorded
  <2>2. Cached(p)' <=> Cached(p) BY <1>a DEF Cached, Imaged
  <2>3. ASSUME Cached(p)
        PROVE  pool'[p] = IF granted[t][p] # "none" THEN [pool[p] EXCEPT !.before = pool[p].data] ELSE pool[p]
    BY <2>1, <2>3, <1>a, ZenonT(60) DEF Cached, Imaged
  <2>4. Cached(p) => pool[p] \in PageObjects BY <1>s DEF Cached, StorageTypeOK
  <2>5. ASSUME Cached(p), NEW g, g = [pool[p] EXCEPT !.before = pool[p].data]
        PROVE  g \in PageObjects /\ g.data = pool[p].data /\ g.dirty = pool[p].dirty /\ g.before = pool[p].data
    BY <2>4, <2>5 DEF PageObjects
  <2> QED BY <2>2, <2>3, <2>4, <2>5, ZenonT(60)
<1>t. StorageTypeOK'
  <2>1. DOMAIN pool' = DOMAIN pool /\ pool' = [q \in DOMAIN pool' |-> pool'[q]] BY <1>a, ZenonT(60) DEF Imaged
  <2>2. \A q \in DOMAIN pool' : pool'[q] \in PageObjects BY <2>1, <1>h, <1>s, ZenonT(60) DEF StorageTypeOK, Cached
  <2>3. pool' \in [DOMAIN pool' -> PageObjects] BY <2>1, <2>2, ZenonT(60)
  <2> QED BY <2>1, <2>3, <1>a, <1>f, <1>s, ZenonT(60) DEF StorageTypeOK
<1>1. Session(t)'
  <2>1. op[t].page < numPages BY <1>s DEF Session
  <2>2. waitingFor[t] = NoPage BY <1>a, ZenonT(60) DEF releaseAll
  <2> QED BY <2>1, <2>2, <1>a, <1>f, <1>g, <1>o, <1>n, <1>r, ZenonT(60) DEF Session, Over, InStatement
<1>2. ASSUME NEW p \in Pages
      PROVE  /\ granted[t][p] = "none" => Image(p)' = Image(p) /\ (Cached(p) => pool'[p] = pool[p])
             /\ granted[t][p] # "none" => /\ Image(p)' = Cur(p) /\ disk[p] = Cur(p)
                                          /\ Cached(p) => /\ pool[p].dirty = NoTid
                                                          /\ pool'[p].before = pool[p].data
             /\ Cur(p)' = Cur(p)
             /\ ~Writer(t, p) => Image(p)' = Image(p)
             /\ Own(t, p) = Cur(p)
  <2>k. Cached(p) => CachedPage(p) BY DEF EngineInv, Cached
  <2>1. Own(t, p) = Cur(p) BY <1>a, ZenonT(60) DEF Own
  <2>2. Cur(p)' = Cur(p) BY <1>h, <1>a, ZenonT(60) DEF Cur
  <2>3. granted[t][p] = "none" => Image(p)' = Image(p) /\ (Cached(p) => pool'[p] = pool[p])
    BY <1>h, <1>a, ZenonT(60) DEF Image
  <2>4. CASE granted[t][p] # "none"
    <3>1. \A u \in Tids : Writer(u, p) => u = t BY <2>4, <1>s, WriterAlone, ZenonT(60)
    <3>2. Cached(p) => pool[p].dirty = NoTid
      <4>1. Cached(p) => pool[p].dirty # t BY <1>a, ZenonT(60) DEF DirtyPages, Cached
      <4>2. Cached(p) => pool[p].dirty \in Tids \cup {NoTid} BY <1>h, ZenonT(60) DEF PageObjects
      <4> QED BY <4>1, <4>2, <3>1, <2>k, ZenonT(60) DEF CachedPage
    <3>3. Image(p)' = Cur(p) BY <2>4, <1>h, <1>a, ZenonT(60) DEF Image, Cur
    <3>4. disk[p] = Cur(p)
      <4>1. CASE ~Cached(p) BY <4>1, ZenonT(60) DEF Cur
      <4>2. CASE Cached(p) /\ disk[p] # pool[p].before BY <4>2, <2>k, ZenonT(60) DEF CachedPage, Cur
      <4>3. CASE Cached(p) /\ disk[p] = pool[p].before /\ pool[p].data = pool[p].before BY <4>3, ZenonT(60) DEF Cur
      <4>4. CASE Cached(p) /\ pool[p].data # pool[p].before
        <5>1. PICK w \in Tids : /\ Writer(w, p)
                                /\ (op[w].at = "put" /\ op[w].page = p) \/ (mon = w /\ disk[p] = pool[p].data)
          BY <4>4, <3>2, <2>k, ZenonT(60) DEF CachedPage
        <5>2. w = t BY <5>1, <3>1, ZenonT(60)
        <5> QED BY <5>1, <5>2, <4>4, <1>a, ZenonT(60) DEF Cur
      <4> QED BY <4>1, <4>2, <4>3, <4>4, ZenonT(60)
    <3>5. ASSUME ~Writer(t, p) PROVE Image(p)' = Image(p)
      <4>1. Cur(p) = Image(p) BY <3>1, <3>5, <2>k, NoWriter, ZenonT(60)
      <4> QED BY <4>1, <3>3, ZenonT(60)
    <3> QED BY <2>1, <2>2, <2>4, <3>2, <3>3, <3>4, <3>5, <1>h, ZenonT(60)
  <2> QED BY <2>1, <2>2, <2>3, <2>4, ZenonT(60)
<1>3. op'[t].at = "log" BY <1>f, <1>o, ZenonT(60)
<1> QED BY <1>a, <1>f, <1>g, <1>h, <1>m, <1>r, <1>t, <1>1, <1>2, <1>3, ZenonT(60)

(* The tuples: what t has added is there, what it has removed is gone, and *)
(* nothing else is different.                                              *)
LEMMA CommitData ==
  ASSUME EngineInv, NEW t \in Tids, op[t].at \in {"flush", "write"}, op'[t].at = "log",
         \A p \in Pages : Image(p)' = IF Writer(t, p) THEN Own(t, p) ELSE Image(p),
         \A u \in Tids, p \in Pages : Writer(u, p)' <=> u # t /\ Writer(u, p),
         \A u \in Tids \ {t}, p \in Pages : Writer(u, p) => Own(u, p)' = Own(u, p),
         \A u \in Tids \ {t} : op'[u] = op[u],
         ins' = ins, del' = del, calls' = calls
  PROVE  /\ OnePage' /\ Counted' /\ \A u \in Tids : Effects(u)'
         /\ History' /\ Visible' = (Visible \ del[t]) \cup ins[t]
         /\ \A x : Used(x)' => Used(x)
<1>i. /\ OnePage /\ Counted /\ (\A u \in Tids : Effects(u)) /\ History /\ LockInv
      /\ ins \in [Tids -> SUBSET Tuples] /\ del \in [Tids -> SUBSET Tuples]
      /\ \A p \in Pages : Image(p) \in SUBSET Tuples
  BY DEF EngineInv, StorageTypeOK, Image, Cached, PageObjects
<1>e. /\ \A y \in Tuples : y \in ins[t] <=>
          \E q \in Pages : Writer(t, q) /\ y \in Own(t, q) /\ y \notin Image(q)
      /\ \A y \in Tuples : y \in del[t] <=>
          \E q \in Pages : Writer(t, q) /\ y \in Image(q) /\ y \notin Own(t, q)
  BY <1>i, ZenonT(60) DEF Effects, Over
<1>o. ASSUME NEW p \in Pages, Writer(t, p) PROVE Own(t, p) \in SUBSET Tuples
  BY <1>o, ZenonT(60) DEF EngineInv, StorageTypeOK, Own, Cur, Cached, PageObjects
<1>1. ASSUME NEW x, NEW p \in Pages, On(x, p)' PROVE On(x, p)
  <2>1. CASE x \in Image(p)' BY <2>1 DEF On
  <2>2. CASE \E u \in Tids : Writer(u, p)' /\ x \in Own(u, p)'
    <3>1. PICK u \in Tids : Writer(u, p)' /\ x \in Own(u, p)' BY <2>2, ZenonT(60)
    <3> QED BY <3>1 DEF On
  <2> QED BY <1>1, <2>1, <2>2, ZenonT(60) DEF On
<1>2. OnePage' BY <1>1, <1>i, ZenonT(60) DEF OnePage
<1>3. \A x : Used(x)' => Used(x) BY <1>1, ZenonT(60) DEF Used
<1>4. Counted'
  <2>1. \A y : Numbered(y)' <=> Numbered(y) BY DEF Numbered
  <2> QED BY <2>1, <1>3, <1>i, ZenonT(60) DEF Counted
<1>5. ASSUME NEW u \in Tids PROVE Effects(u)'
  <2> SUFFICES ASSUME op'[u].at \notin Over
               PROVE  /\ \A y \in Tuples : y \in ins'[u] <=>
                           \E q \in Pages : Writer(u, q)' /\ y \in Own(u, q)' /\ y \notin Image(q)'
                      /\ \A y \in Tuples : y \in del'[u] <=>
                           \E q \in Pages : Writer(u, q)' /\ y \in Image(q)' /\ y \notin Own(u, q)'
    BY DEF Effects
  <2>1. u # t /\ op[u].at \notin Over BY DEF Over
  <2>2. \A q \in Pages : Writer(u, q) => ~Writer(t, q) BY <2>1, <1>i, WriterAlone, ZenonT(60) DEF Writer
  <2>3. \A q \in Pages : Writer(u, q) => Own(u, q)' = Own(u, q) /\ Image(q)' = Image(q) BY <2>1, <2>2, ZenonT(60)
  <2>4. /\ \A y \in Tuples : y \in ins[u] <=>
              \E q \in Pages : Writer(u, q) /\ y \in Own(u, q) /\ y \notin Image(q)
        /\ \A y \in Tuples : y \in del[u] <=>
              \E q \in Pages : Writer(u, q) /\ y \in Image(q) /\ y \notin Own(u, q)
    BY <2>1, <1>i, ZenonT(60) DEF Effects
  <2> QED BY <2>1, <2>3, <2>4, ZenonT(60)
<1>6. ASSUME NEW y \in Tuples PROVE y \in Visible' <=> (y \in Visible /\ y \notin del[t]) \/ y \in ins[t]
  <2>1. ASSUME y \in Visible' PROVE (y \in Visible /\ y \notin del[t]) \/ y \in ins[t]
    <3>1. PICK p \in Pages : y \in Image(p)' BY <2>1 DEF Visible
    <3>2. CASE y \notin Image(p) BY <3>1, <3>2, <1>e, ZenonT(60)
    <3>3. CASE y \in Image(p)
      <4>1. y \in Visible /\ On(y, p) BY <3>3 DEF Visible, On
      <4>2. ASSUME y \in del[t] PROVE FALSE
        <5>1. PICK q \in Pages : Writer(t, q) /\ y \in Image(q) /\ y \notin Own(t, q) BY <4>2, <1>e, ZenonT(60)
        <5>2. On(y, q) BY <5>1, ZenonT(60) DEF On
        <5>3. q = p BY <4>1, <5>2, <1>i, ZenonT(60) DEF OnePage
        <5> QED BY <5>1, <5>3, <3>1, ZenonT(60)
      <4> QED BY <4>1, <4>2, ZenonT(60)
    <3> QED BY <3>2, <3>3, ZenonT(60)
  <2>2. ASSUME y \in Visible, y \notin del[t] PROVE y \in Visible'
    <3>1. PICK p \in Pages : y \in Image(p) BY <2>2, ZenonT(60) DEF Visible
    <3>2. y \in Image(p)' BY <3>1, <2>2, <1>e, ZenonT(60)
    <3> QED BY <3>2 DEF Visible
  <2>3. ASSUME y \in ins[t] PROVE y \in Visible'
    <3>1. PICK p \in Pages : Writer(t, p) /\ y \in Own(t, p) BY <2>3, <1>e, ZenonT(60)
    <3>2. y \in Image(p)' BY <3>1, ZenonT(60)
    <3> QED BY <3>2 DEF Visible
  <2> QED BY <2>1, <2>2, <2>3, ZenonT(60)
<1>7. Visible \subseteq Tuples /\ Visible' \subseteq Tuples
  <2>1. \A p \in Pages : Image(p)' \subseteq Tuples BY <1>i, <1>o, ZenonT(60)
  <2> QED BY <2>1, <1>i, ZenonT(60) DEF Visible
<1>8. Visible' = (Visible \ del[t]) \cup ins[t]
  <2>1. ins[t] \subseteq Tuples BY <1>i, ZenonT(60)
  <2> QED BY <2>1, <1>6, <1>7, ZenonT(60)
<1>9. del[t] \subseteq Visible
  <2>1. \A y \in del[t] : y \in Tuples BY <1>i, ZenonT(60)
  <2> QED BY <2>1, <1>e, ZenonT(60) DEF Visible
<1>10. History'
  <2>t. op[t].at \notin Through \cup {"lost"} /\ op'[t].at \in Through BY DEF Through
  <2>0. ins[t] \cap Visible = {} /\ \A v \in Tids : ins[t] \cap del[v] = {} BY <2>t, <1>i DEF History
  <2>1. \A u, v \in Tids : u # v => ins'[u] \cap ins'[v] = {} BY <1>i, ZenonT(60) DEF History
  <2>2. ASSUME NEW u \in Tids, op'[u].at \notin Through \cup {"lost"}
        PROVE  ins'[u] \cap Visible' = {} /\ \A v \in Tids : ins'[u] \cap del'[v] = {}
    <3>1. u # t /\ op[u].at \notin Through \cup {"lost"} BY <2>2, <2>t, ZenonT(60)
    <3>2. ins[u] \cap Visible = {} /\ \A v \in Tids : ins[u] \cap del[v] = {} BY <3>1, <1>i, ZenonT(60) DEF History
    <3>3. ins[u] \cap ins[t] = {} BY <3>1, <2>1, ZenonT(60)
    <3> QED BY <3>2, <3>3, <1>8, ZenonT(60)
  <2>a. ASSUME NEW u \in Tids \ {t}, op[u].at \in Through
        PROVE  /\ del[u] \cap Visible = {}
               /\ \A v \in Tids : v # u /\ op[v].at \in Through => del[u] \cap del[v] = {}
               /\ ins[u] \subseteq Visible \cup
                    UNION {del[v] : v \in {w \in Tids : op[w].at \in Through \cup {"lost"}}}
    BY <2>a, <1>i, ZenonT(60) DEF History
  <2>b. \A v \in Tids : op[v].at \in Through \cup {"lost"} => op'[v].at \in Through \cup {"lost"}
    BY <2>t
  <2>c. \A v \in Tids \ {t} : op'[v].at \in Through => op[v].at \in Through BY ZenonT(60)
  <2>3. ASSUME NEW u \in Tids, op'[u].at \in Through
        PROVE  /\ del'[u] \cap Visible' = {}
               /\ \A v \in Tids : v # u /\ op'[v].at \in Through => del'[u] \cap del'[v] = {}
               /\ ins'[u] \subseteq Visible' \cup
                    UNION {del'[v] : v \in {w \in Tids : op'[w].at \in Through \cup {"lost"}}}
    <3>1. CASE u = t
      <4>1. del[t] \cap Visible' = {} BY <2>0, <1>8, ZenonT(60)
      <4>2. \A v \in Tids \ {t} : op'[v].at \in Through => del[t] \cap del[v] = {}
        BY <2>a, <2>c, <1>9, ZenonT(60)
      <4>3. ins[t] \subseteq Visible' BY <1>8, ZenonT(60)
      <4> QED BY <3>1, <4>1, <4>2, <4>3, ZenonT(60)
    <3>2. CASE u # t
      <4>0. op[u].at \in Through BY <2>3, <3>2
      <4>1. del[u] \cap Visible' = {} BY <4>0, <3>2, <2>a, <2>0, <1>8, ZenonT(60)
      <4>2. \A v \in Tids : v # u /\ op'[v].at \in Through => del[u] \cap del[v] = {}
        BY <4>0, <3>2, <2>a, <2>c, <1>9, ZenonT(60)
      <4>3. ASSUME NEW y \in ins[u], y \notin Visible'
            PROVE  \E v \in Tids : op'[v].at \in Through \cup {"lost"} /\ y \in del[v]
        <5>1. CASE y \in Visible
          <6>1. y \in del[t] BY <4>3, <5>1, <1>8, ZenonT(60)
          <6> QED BY <6>1, <2>t, ZenonT(60)
        <5>2. CASE y \notin Visible
          <6>1. \E v \in Tids : op[v].at \in Through \cup {"lost"} /\ y \in del[v]
            BY <5>2, <4>0, <3>2, <2>a
          <6> QED BY <6>1, <2>b, ZenonT(60)
        <5> QED BY <5>1, <5>2
      <4>4. ins[u] \subseteq Visible' \cup
              UNION {del[v] : v \in {w \in Tids : op'[w].at \in Through \cup {"lost"}}}
        BY <4>3, ZenonT(60)
      <4> QED BY <4>1, <4>2, <4>4, ZenonT(60)
    <3> QED BY <3>1, <3>2, ZenonT(60)
  <2> QED BY <2>1, <2>2, <2>3, ZenonT(60) DEF History
<1> QED BY <1>2, <1>3, <1>4, <1>5, <1>8, <1>10, ZenonT(60)

(* transactionComplete(tid, true): the commit takes effect. *)
LEMMA CompleteKeeps ==
  ASSUME EngineInv, NEW t \in Tids, transactionComplete(t)
  PROVE  EngineInv' /\ Visible' = (Visible \ del[t]) \cup ins[t]
<1>s. Session(t) /\ StorageTypeOK /\ LockInv /\ (\A u \in Tids : Session(u)) BY DEF EngineInv
<1>n. NoTid \notin Tids BY StorageAssumption
<1>l. LockInv' BY <1>s, LocksStep DEF Step
<1>m. numPages \in Nat /\ Pages \subseteq Nat /\ \A u \in Tids : op[u].page \in Pages
  BY <1>s, PageNumbers DEF StorageTypeOK, Ops
<1>a. /\ up /\ up' /\ mon = t /\ mon' = NoTid /\ op[t].at = "flush"
      /\ log' = log /\ disk' = disk /\ numPages' = numPages /\ obj' = obj
      /\ ins' = ins /\ del' = del /\ calls' = calls
      /\ op'[t].at = "log"
      /\ \A p \in Pages : granted'[t][p] = "none"
      /\ StorageTypeOK' /\ Session(t)'
  BY CompleteIs
<1>b. \A u \in Tids \ {t} :
        /\ op'[u] = op[u] /\ phase'[u] = phase[u] /\ waitingFor'[u] = waitingFor[u]
        /\ want'[u] = want[u] /\ granted'[u] = granted[u]
  BY CompleteIs
<1>c. \A p \in Pages :
        /\ Cached(p)' <=> Cached(p)
        /\ Cached(p) => pool'[p].data = pool[p].data /\ pool'[p].dirty = pool[p].dirty
        /\ granted[t][p] = "none" => Image(p)' = Image(p) /\ (Cached(p) => pool'[p] = pool[p])
        /\ granted[t][p] # "none" => /\ Image(p)' = Cur(p) /\ disk[p] = Cur(p)
                                     /\ Cached(p) => /\ pool[p].dirty = NoTid
                                                     /\ pool'[p].before = pool[p].data
        /\ Cur(p)' = Cur(p)
        /\ ~Writer(t, p) => Image(p)' = Image(p)
        /\ Own(t, p) = Cur(p)
  BY CompleteIs
<1>k. \A p \in Pages : Cached(p) => CachedPage(p) BY DEF EngineInv, Cached
<1>w. \A u \in Tids, p \in Pages : Writer(u, p)' <=> u # t /\ Writer(u, p)
  BY <1>a, <1>b, ZenonT(60) DEF Writer
<1>1. ASSUME NEW u \in Tids \ {t} PROVE Session(u)'
  <2>p. PICK p : p = op[u].page OBVIOUS
  <2>s. Session(u) /\ p \in Pages /\ p \in Nat BY <2>p, <1>m, <1>s, ZenonT(60)
  <2>1. /\ op'[u] = op[u] /\ obj'[u] = obj[u] /\ phase'[u] = phase[u]
        /\ waitingFor'[u] = waitingFor[u] /\ want'[u] = want[u] /\ granted'[u] = granted[u]
        /\ ins'[u] = ins[u] /\ del'[u] = del[u] /\ (mon' = u <=> mon = u)
    BY <1>a, <1>b, <1>n
  <2>2. ASSUME granted[u][p] # "none"
        PROVE  /\ Image(p)' = Image(p) /\ (Cur(p)' = Cur(p) \/ op[u].at = "put")
               /\ op[u].at = "put" /\ Cached(p)' => Cached(p) /\ pool'[p].data = pool[p].data
    <3>1. ~Writer(t, p) BY <2>2, <2>s, <1>s, WriterAlone, ZenonT(60)
    <3> QED BY <3>1, <2>s, <1>c
  <2>3. op[u].at # "write" BY <2>s, <1>a, ZenonT(60) DEF Session
  <2>4. numPages' \in Nat /\ numPages <= numPages' BY <1>a, <1>m
  <2> QED BY <2>p, <2>s, <2>1, <2>2, <2>3, <2>4, <1>a, <1>m, SessionStays, ZenonT(60)
<1>2. ASSUME NEW p \in DOMAIN pool' PROVE CachedPage(p)'
  <2>1. p \in Pages /\ Cached(p)' BY <1>a, ZenonT(60) DEF StorageTypeOK, Cached
  <2>2. Cached(p) /\ CachedPage(p) BY <2>1, <1>c, <1>k, ZenonT(60)
  <2>3. CASE granted[t][p] # "none"
    <3>1. /\ pool'[p].dirty = NoTid /\ pool'[p].before = pool'[p].data /\ disk'[p] = pool'[p].before
      BY <2>1, <2>2, <2>3, <1>a, <1>c, ZenonT(60) DEF Cur
    <3> QED BY <3>1, <2>2, <1>a, ZenonT(60) DEF CachedPage
  <2>4. CASE granted[t][p] = "none"
    <3>1. pool'[p] = pool[p] /\ ~Writer(t, p) BY <2>1, <2>2, <2>4, <1>c, ZenonT(60) DEF Writer
    <3>2. disk[p] = pool[p].before BY <2>2, <3>1, <1>a, ZenonT(60) DEF CachedPage
    <3>3. pool[p].dirty # NoTid => Writer(pool[p].dirty, p)'
      <4>1. pool[p].dirty \in Tids \cup {NoTid} BY <2>2, <1>s, ZenonT(60) DEF StorageTypeOK, PageObjects, Cached
      <4> QED BY <4>1, <3>1, <2>1, <2>2, <1>w, ZenonT(60) DEF CachedPage
    <3>4. ASSUME pool[p].data # pool[p].before
          PROVE  \E u \in Tids : /\ Writer(u, p)' /\ pool[p].dirty \in {u, NoTid}
                                 /\ pool[p].dirty = NoTid => op'[u].at = "put" /\ op'[u].page = p
      <4>1. PICK u \in Tids : /\ Writer(u, p) /\ pool[p].dirty \in {u, NoTid}
                              /\ pool[p].dirty = NoTid => (op[u].at = "put" /\ op[u].page = p) \/ mon = u
        BY <3>4, <2>2, ZenonT(60) DEF CachedPage
      <4>2. u # t BY <4>1, <3>1, ZenonT(60)
      <4> QED BY <4>1, <4>2, <2>1, <1>a, <1>b, <1>w, ZenonT(60)
    <3>5. /\ p < numPages' /\ disk'[p] = pool'[p].before BY <2>2, <3>1, <3>2, <1>a, ZenonT(60) DEF CachedPage
    <3>6. pool'[p].dirty # NoTid => Writer(pool[p].dirty, p)' BY <3>1, <3>3, ZenonT(60)
    <3> QED BY <3>1, <3>3, <3>4, <3>5, <1>a, ZenonT(60) DEF CachedPage, Writer
  <2> QED BY <2>3, <2>4, ZenonT(60)
<1>3. Empty' BY <1>a, ZenonT(60) DEF EngineInv, Empty
<1>4. \A p \in Pages : Image(p)' = IF Writer(t, p) THEN Own(t, p) ELSE Image(p)
  BY <1>c, ZenonT(60) DEF Writer
<1>5. ASSUME NEW u \in Tids \ {t}, NEW p \in Pages, Writer(u, p) PROVE Own(u, p)' = Own(u, p)
  BY <1>a, <1>b, <1>c, ZenonT(60) DEF Own
<1>6. /\ OnePage' /\ Counted' /\ \A u \in Tids : Effects(u)'
      /\ History' /\ Visible' = (Visible \ del[t]) \cup ins[t]
      /\ \A x : Used(x)' => Used(x)
  BY <1>a, <1>b, <1>w, <1>4, <1>5, CommitData, ZenonT(60)
<1>7. ASSUME NEW u \in Tids PROVE NewTuple(u)'
  <2>1. CASE u = t BY <2>1, <1>a, ZenonT(60) DEF NewTuple, Inserting, InStatement
  <2>2. CASE u # t
    <3>1. op'[u] = op[u] /\ waitingFor'[u] = waitingFor[u] BY <2>2, <1>b, ZenonT(60)
    <3>2. NewTuple(u) BY DEF EngineInv
    <3>3. PICK x : x = op[u].tup BY ZenonT(60)
    <3>4. Used(op[u].tup)' <=> Used(x)' BY <3>1, <3>3, ZenonT(60) DEF Used, On
    <3>5. Used(x)' => Used(op[u].tup) BY <1>6, <3>3, ZenonT(60)
    <3> QED BY <3>1, <3>2, <3>4, <3>5, <1>a, ZenonT(60) DEF NewTuple, Inserting
  <2> QED BY <2>1, <2>2, ZenonT(60)
<1>8. LogRight'
  <2>i. LogRight BY <1>a, ZenonT(60) DEF EngineInv
  <2>1. Committed(log)' = Committed(log) BY <1>a, ZenonT(60) DEF Committed
  <2>2. ASSUME NEW p \in Pages PROVE Logs(p)'
    <3>l. Logs(p) BY <2>i, ZenonT(60) DEF LogRight
    <3>u. Updates(log, p)' = Updates(log, p) /\ \A k : Settles(k, p)' <=> Settles(k, p)
      BY <1>a, ZenonT(60) DEF Updates, Settles
    <3>1. \A k \in Updates(log, p) : /\ log[k].tid \in Tids
                                     /\ op[log[k].tid].at \in {"flush", "write", "log", "acked"}
                                     /\ op[log[k].tid].at = "acked" => log[k].tid \in Committed(log)
      BY <3>l, ZenonT(60) DEF Logs
    <3>2. ASSUME NEW k \in Updates(log, p)'
          PROVE  /\ log'[k].tid \in Tids /\ op'[log'[k].tid].at \in {"flush", "write", "log", "acked"}
                 /\ op'[log'[k].tid].at = "acked" => log'[k].tid \in Committed(log)'
      <4>1. PICK u : u = log[k].tid BY ZenonT(60)
      <4>2. u \in Tids /\ op[u].at \in {"flush", "write", "log", "acked"}
            /\ (op[u].at = "acked" => u \in Committed(log))
        BY <4>1, <3>1, <3>u, ZenonT(60)
      <4>3. CASE u = t BY <4>1, <4>3, <1>a, ZenonT(60)
      <4>4. CASE u # t BY <4>1, <4>2, <4>4, <1>a, <1>b, <2>1
      <4> QED BY <4>3, <4>4, ZenonT(60)
    <3>3. ASSUME NEW k \in DOMAIN log, Settles(k, p), Settled(log[k], p) PROVE Settled(log[k], p)'
      <4>1. PICK r, u : r = log[k] /\ u = r.tid BY ZenonT(60)
      <4>2. r = log'[k] /\ u \in Tids /\ op[u].at \in {"flush", "write", "log", "acked"}
        BY <4>1, <3>1, <3>3, <1>a, ZenonT(60) DEF Settles
      <4>3. /\ r.after \ r.before \subseteq ins[u] /\ r.before \ r.after \subseteq del[u]
            /\ op[u].at \in {"flush", "write"} =>
                 /\ Cached(p) /\ Writer(u, p)
                 /\ r.before = pool[p].before /\ r.after = pool[p].data
            /\ op[u].at \in {"log", "acked"} => r.after = Image(p)
        BY <3>3, <4>1, ZenonT(60) DEF Settled
      <4>4. op'[u].at \in {"log", "acked"} /\ r.after = Image(p)'
        <5>1. CASE u = t
          <6>1. Cached(p) /\ Writer(t, p) /\ r.after = pool[p].data BY <5>1, <4>3, <1>a, ZenonT(60)
          <6> QED BY <5>1, <6>1, <1>a, <1>c, ZenonT(60) DEF Writer, Cur
        <5>2. CASE u # t
          <6>1. op[u].at \in {"log", "acked"} BY <5>2, <4>2, <1>s, <1>a, ZenonT(60) DEF Session
          <6>2. ASSUME disk[p] # Image(p) PROVE FALSE
            <7>1. Ahead(p) BY <6>2, <1>a, <1>n, ZenonT(60) DEF Ahead
            <7>2. PICK j \in DOMAIN log : Settles(j, p) /\ log[j].tid = t BY <7>1, <1>a, <3>l, ZenonT(60) DEF Logs
            <7>3. j = k
              <8>1. j \in Nat /\ k \in Nat BY <1>s DEF StorageTypeOK
              <8>2. j <= k /\ k <= j BY <7>2, <3>3, ZenonT(60) DEF Settles
              <8> QED BY <8>1, <8>2
            <7> QED BY <7>2, <7>3, <4>1, <5>2, ZenonT(60)
          <6>3. Image(p)' = Image(p)
            <7>1. CASE Writer(t, p) BY <7>1, <6>2, <1>c, ZenonT(60) DEF Writer
            <7>2. CASE ~Writer(t, p) BY <7>2, <1>c, ZenonT(60)
            <7> QED BY <7>1, <7>2, ZenonT(60)
          <6> QED BY <6>1, <6>3, <5>2, <4>2, <4>3, <1>b, ZenonT(60)
        <5> QED BY <5>1, <5>2, ZenonT(60)
      <4>5. Settled(r, p)'
        <5>1. op'[u].at \notin {"flush", "write"} /\ r.tid = u /\ ins' = ins /\ del' = del
          BY <4>1, <4>4, <1>a, ZenonT(60)
        <5> QED BY <5>1, <4>3, <4>4, ZenonT(60) DEF Settled
      <4>6. Settled(log[k], p)' <=> Settled(r, p)' BY <4>2, ZenonT(60) DEF Settled, Writer
      <4> QED BY <4>5, <4>6, ZenonT(60)
    <3>4. ASSUME Updates(log, p)' # {}
          PROVE  \E k \in DOMAIN log' : Settles(k, p)' /\ Settled(log[k], p)'
      <4>1. PICK k \in DOMAIN log : Settles(k, p) /\ Settled(log[k], p) BY <3>4, <3>l, <3>u, ZenonT(60) DEF Logs
      <4> QED BY <4>1, <3>3, <3>u, <1>a, ZenonT(60)
    <3>5. ~Ahead(p)' BY <1>a, ZenonT(60) DEF Ahead
    <3> QED BY <3>2, <3>4, <3>5, ZenonT(60) DEF Logs
  <2>3. \A u \in Tids \cap Committed(log)' : op'[u].at = "acked"
    <3>1. \A u \in Tids \cap Committed(log) : op[u].at = "acked" BY <2>i DEF LogRight
    <3> QED BY <3>1, <2>1, <1>a, <1>b, ZenonT(60)
  <2> QED BY <2>2, <2>3, ZenonT(60) DEF LogRight
<1>9. \A u \in Tids : Session(u)' BY <1>1, <1>a, ZenonT(60)
<1> QED BY <1>a, <1>l, <1>2, <1>3, <1>6, <1>7, <1>8, <1>9, ZenonT(60) DEF EngineInv

(* transactionComplete(tid, false): the pages t held are dropped, and with *)
(* them what it has changed.                                               *)
LEMMA DiscardKeeps ==
  ASSUME EngineInv, NEW t \in Tids, discardPages(t)
  PROVE  EngineInv' /\ Visible' = Visible
<1>s. Session(t) /\ StorageTypeOK /\ LockInv /\ (\A u \in Tids : Session(u)) BY DEF EngineInv
<1>n. NoTid \notin Tids BY StorageAssumption
<1>l. LockInv' BY <1>s, LocksStep DEF Step
<1>m. numPages \in Nat /\ 0 < numPages /\ Pages \subseteq Nat /\ \A u \in Tids : op[u].page \in Pages
  BY <1>s, PageNumbers DEF StorageTypeOK, Ops
<1>a. /\ up /\ op[t].at = "undo" /\ mon = NoTid
      /\ pool' = Dropping(pool, pagesHeldBy(t)) /\ releaseAll(t)
      /\ op' = [op EXCEPT ![t] = At("aborted")]
      /\ UNCHANGED <<disk, numPages, log, obj, mon, ins, del, up, restarts>>
  BY DEF discardPages
<1>r. /\ Released(t, Pages) /\ phase' = [phase EXCEPT ![t] = "done"] /\ UNCHANGED <<waitingFor, want, calls>>
      /\ waitingFor[t] = NoPage
  BY <1>a DEF releaseAll
<1>o. At("aborted") \in Ops /\ At("aborted").at = "aborted" /\ At("aborted").page = 0
  BY AtIs DEF Places
<1>f. op'[t] = At("aborted") /\ op' \in [Tids -> Ops] /\ \A u \in Tids \ {t} : op'[u] = op[u]
  BY <1>o, <1>a, <1>s, ZenonT(60) DEF StorageTypeOK
<1>g. /\ \A u \in Tids \ {t} : granted'[u] = granted[u] /\ phase'[u] = phase[u]
      /\ \A p \in Pages : granted'[t][p] = "none"
      /\ phase'[t] = "done"
  BY <1>r, <1>s, ReleasedIs, ZenonT(60) DEF LockInv, LockTypeOK
<1>k. \A p \in Pages : Cached(p) => CachedPage(p) BY DEF EngineInv, Cached
<1>d. ASSUME NEW p \in Pages PROVE disk[p] = Image(p)
  BY <1>k, <1>a, <1>n, ZenonT(60) DEF CachedPage, Image
<1>h. \A p \in Pages : /\ Cached(p)' <=> Cached(p) /\ granted[t][p] = "none"
                       /\ Cached(p)' => pool'[p] = pool[p]
  <2>1. \A p \in Pages : p \in pagesHeldBy(t) <=> granted[t][p] # "none"
    BY <1>s, ZenonT(60) DEF pagesHeldBy, LockInv, Recorded
  <2> QED BY <2>1, <1>a, ZenonT(60) DEF Cached, Dropping
<1>i. \A p \in Pages : Image(p)' = Image(p)
  BY <1>a, <1>d, <1>h, ZenonT(60) DEF Image
<1>c. ASSUME NEW u \in Tids \ {t}, NEW p \in Pages, granted[u][p] # "none" PROVE Cur(p)' = Cur(p)
  <2>1. CASE granted[t][p] = "none" BY <2>1, <1>a, <1>h, ZenonT(60) DEF Cur
  <2>2. CASE granted[t][p] # "none"
    <3>1. \A w \in Tids : ~Writer(w, p) BY <2>2, <1>c, <1>s, WriterAlone, ZenonT(60)
    <3>2. Cur(p) = disk[p] BY <3>1, <1>k, NoWriter, ZenonT(60)
    <3> QED BY <3>2, <2>2, <1>a, <1>h, ZenonT(60) DEF Cur
  <2> QED BY <2>1, <2>2, ZenonT(60)
<1>w. \A u \in Tids, p \in Pages : Writer(u, p)' <=> u # t /\ Writer(u, p)
  BY <1>g, ZenonT(60) DEF Writer
<1>t. StorageTypeOK'
  <2>1. DOMAIN pool' \subseteq DOMAIN pool /\ pool' = [q \in DOMAIN pool' |-> pool'[q]]
    BY <1>a, ZenonT(60) DEF Dropping
  <2>2. \A q \in DOMAIN pool' : pool'[q] \in PageObjects BY <2>1, <1>h, <1>s, ZenonT(60) DEF StorageTypeOK, Cached
  <2>3. pool' \in [DOMAIN pool' -> PageObjects] BY <2>1, <2>2, ZenonT(60)
  <2> QED BY <2>1, <2>3, <1>a, <1>f, <1>s, ZenonT(60) DEF StorageTypeOK
<1>0. Session(t)'
  BY <1>a, <1>f, <1>g, <1>o, <1>n, <1>r, <1>m, ZenonT(60) DEF Session, Over, InStatement
<1>1. ASSUME NEW u \in Tids \ {t} PROVE Session(u)'
  <2>p. PICK p : p = op[u].page OBVIOUS
  <2>s. Session(u) /\ p \in Pages /\ p \in Nat BY <2>p, <1>m, <1>s, ZenonT(60)
  <2>1. /\ op'[u] = op[u] /\ obj'[u] = obj[u] /\ phase'[u] = phase[u]
        /\ waitingFor'[u] = waitingFor[u] /\ want'[u] = want[u] /\ granted'[u] = granted[u]
        /\ ins'[u] = ins[u] /\ del'[u] = del[u] /\ (mon' = u <=> mon = u)
    BY <1>a, <1>f, <1>g, <1>r, ZenonT(60)
  <2>2. ASSUME granted[u][p] # "none"
        PROVE  /\ Image(p)' = Image(p) /\ (Cur(p)' = Cur(p) \/ op[u].at = "put")
               /\ op[u].at = "put" /\ Cached(p)' => Cached(p) /\ pool'[p].data = pool[p].data
    BY <2>2, <2>s, <1>c, <1>i, <1>h, ZenonT(60)
  <2>3. op[u].at # "write" BY <2>s, <1>a, <1>n, ZenonT(60) DEF Session
  <2>4. numPages' \in Nat /\ numPages <= numPages' BY <1>a, <1>m
  <2> QED BY <2>p, <2>s, <2>1, <2>2, <2>3, <2>4, <1>a, <1>m, SessionStays, ZenonT(60)
<1>2. ASSUME NEW p \in DOMAIN pool' PROVE CachedPage(p)'
  <2>1. p \in Pages /\ Cached(p)' BY <1>t, ZenonT(60) DEF StorageTypeOK, Cached
  <2>2. Cached(p) /\ CachedPage(p) /\ pool'[p] = pool[p] /\ ~Writer(t, p)
    BY <2>1, <1>h, <1>k, ZenonT(60) DEF Writer
  <2>3. Loose(p) BY <2>1, <2>2, <1>a, ZenonT(60) DEF Loose
  <2>4. \A u \in Tids : Writer(u, p) => /\ Writer(u, p)' /\ (mon = u => mon' = u)
                                        /\ op[u].at = "put" /\ op[u].page = p => op'[u] = op[u]
    BY <2>1, <2>2, <1>a, <1>f, <1>w, ZenonT(60)
  <2>5. pool[p].dirty \in Tids \cup {NoTid} BY <2>2, <1>s, ZenonT(60) DEF StorageTypeOK, PageObjects, Cached
  <2>6. numPages' \in Nat /\ numPages <= numPages' /\ p \in Nat BY <2>1, <1>a, <1>m
  <2>7. up' BY <1>a, ZenonT(60)
  <2> QED BY <2>1, <2>2, <2>3, <2>4, <2>5, <2>6, <2>7, <1>m, CachedStays, ZenonT(60)
<1>3. Empty' BY <1>a, ZenonT(60) DEF EngineInv, Empty
<1>4. ASSUME NEW u \in Tids, NEW p \in Pages, Writer(u, p)' PROVE Writer(u, p) /\ Own(u, p)' = Own(u, p)
  <2>1. u # t /\ Writer(u, p) BY <1>4, <1>w, ZenonT(60)
  <2>2. Cur(p)' = Cur(p) BY <2>1, <1>c, ZenonT(60) DEF Writer
  <2> QED BY <2>1, <2>2, <1>a, <1>f, ZenonT(60) DEF Own
<1>5. \A u \in Tids : /\ op[u].at \in Over => op'[u].at \in Over
                      /\ op'[u].at \in Through <=> op[u].at \in Through
                      /\ op'[u].at = "lost" <=> op[u].at = "lost"
  <2>1. op[t].at \notin Through \cup {"lost"} /\ op'[t].at \in Over /\ op'[t].at \notin Through \cup {"lost"}
    BY <1>a, <1>f, <1>o, ZenonT(60) DEF Over, Through
  <2> QED BY <2>1, <1>f, ZenonT(60)
<1>6. \A u \in Tids, p \in Pages :
        Writer(u, p) /\ op'[u].at \notin Over => Writer(u, p)' /\ Own(u, p)' = Own(u, p)
  <2>1. op'[t].at \in Over BY <1>f, <1>o, ZenonT(60) DEF Over
  <2> QED BY <2>1, <1>w, <1>4, ZenonT(60)
<1>7. \A u \in Tids : calls[u] \in Nat /\ calls'[u] \in Nat /\ calls[u] <= calls'[u]
  <2>1. calls \in [Tids -> Nat] BY <1>s, LockAssumption DEF LockInv, LockTypeOK
  <2> QED BY <2>1, <1>r
<1>8. OnePage /\ Counted /\ (\A u \in Tids : Effects(u)) /\ History BY ZenonT(60) DEF EngineInv
<1>9. /\ OnePage' /\ Counted' /\ \A u \in Tids : Effects(u)'
      /\ History' /\ Visible' = Visible
      /\ \A x : Used(x)' => Used(x)
  BY <1>a, <1>i, <1>4, <1>5, <1>6, <1>7, <1>8, QuietData, ZenonT(60)
<1>10. ASSUME NEW u \in Tids PROVE NewTuple(u)'
  <2>1. CASE u = t BY <2>1, <1>f, <1>o, ZenonT(60) DEF NewTuple, Inserting, InStatement
  <2>2. CASE u # t
    <3>1. op'[u] = op[u] BY <2>2, <1>f, ZenonT(60)
    <3>2. NewTuple(u) BY DEF EngineInv
    <3>3. PICK x : x = op[u].tup OBVIOUS
    <3>4. Used(op[u].tup)' <=> Used(x)' BY <3>1, <3>3, ZenonT(60) DEF Used, On
    <3>5. Used(x)' => Used(op[u].tup) BY <1>9, <3>3, ZenonT(60)
    <3> QED BY <3>1, <3>2, <3>4, <3>5, <1>r, ZenonT(60) DEF NewTuple, Inserting
  <2> QED BY <2>1, <2>2
<1>11. LogRight'
  <2>1. \A p \in Pages : ~Ahead(p)' BY <1>a, ZenonT(60) DEF Ahead
  <2>2. \A u \in Tids : op[u].at \notin {"flush", "write"} BY <1>a, <1>n, <1>s, ZenonT(60) DEF Session
  <2>3. \A u \in Tids : op[u].at \in {"flush", "write", "log", "acked"} =>
           /\ op'[u].at \in {"flush", "write"} <=> op[u].at \in {"flush", "write"}
           /\ op'[u].at = "log" <=> op[u].at = "log"
           /\ op'[u].at = "acked" <=> op[u].at = "acked"
           /\ ins'[u] = ins[u] /\ del'[u] = del[u]
           /\ \A q \in Pages : op[u].at \in {"flush", "write"} /\ Cached(q) /\ Writer(u, q) =>
                /\ Cached(q)' /\ Writer(u, q)'
                /\ pool'[q].before = pool[q].before /\ pool'[q].data = pool[q].data
    BY <2>2, <1>a, <1>f, ZenonT(60)
  <2> QED BY <2>1, <2>3, <1>a, <1>i, LogKept, ZenonT(60)
<1>12. \A u \in Tids : Session(u)' BY <1>0, <1>1, ZenonT(60)
<1> QED BY <1>l, <1>t, <1>2, <1>3, <1>9, <1>10, <1>11, <1>12, ZenonT(60) DEF EngineInv

-----------------------------------------------------------------------------
(* The process is killed, and started again. *)

(* A session that rests while the process is down or only starting. *)
LEMMA RestSession ==
  ASSUME NEW t \in Tids, op'[t].at \in {"new", "acked", "aborted", "lost", "unlogged"},
         waitingFor'[t] = NoPage,
         phase'[t] \in {"active", "done"}, phase'[t] = "active" <=> op'[t].at = "new",
         \A p \in Pages : granted'[t][p] = "none",
         mon' # t, op'[t].page < numPages',
         op'[t].at = "new" => ins'[t] = {} /\ del'[t] = {}
  PROVE  Session(t)'
<1>1. PICK a : a = op'[t].at BY ZenonT(60)
<1>2. /\ a \in {"new", "acked", "aborted", "lost", "unlogged"} /\ a \notin InStatement
      /\ a \in Over <=> a # "new"
      /\ a \notin {"idle", "lock", "fetch", "full", "grow", "edit", "put", "flush", "write"}
  BY <1>1, ZenonT(60) DEF InStatement, Over
<1>3. phase'[t] = "done" <=> a \in Over BY <1>1, <1>2, ZenonT(60)
<1> QED BY <1>1, <1>2, <1>3, ZenonT(60) DEF Session

(* What a file has is what is committed, but for the one transaction that  *)
(* is in its commit.                                                       *)
LEMMA DiskIs ==
  ASSUME EngineInv, NEW p \in Pages
  PROVE  /\ disk[p] # Image(p) => \E t \in Tids : /\ op[t].at \in {"flush", "write"} /\ mon = t
                                                  /\ Writer(t, p) /\ disk[p] = Own(t, p)
         /\ \A x : x \in disk[p] => On(x, p)
         /\ \A x \in disk[p] \ Image(p) : \E t \in Tids : op[t].at \in {"flush", "write"} /\ x \in ins[t]
         /\ \A x \in Image(p) \ disk[p] : \E t \in Tids : op[t].at \in {"flush", "write"} /\ x \in del[t]
<1>k. Cached(p) => CachedPage(p) BY DEF EngineInv, Cached
<1>s. \A t \in Tids : Session(t) /\ Effects(t) BY ZenonT(60) DEF EngineInv
<1>t. disk[p] \in SUBSET Tuples /\ Image(p) \in SUBSET Tuples
  BY DEF EngineInv, StorageTypeOK, Image, Cached, PageObjects
<1>1. ASSUME disk[p] # Image(p)
      PROVE  \E t \in Tids : /\ op[t].at \in {"flush", "write"} /\ mon = t
                             /\ Writer(t, p) /\ disk[p] = Own(t, p)
  <2>1. Cached(p) /\ disk[p] # pool[p].before BY <1>1, ZenonT(60) DEF Image
  <2>2. PICK t \in Tids : mon = t /\ Writer(t, p) /\ disk[p] = pool[p].data BY <2>1, <1>k, ZenonT(60) DEF CachedPage
  <2>3. op[t].at \in {"flush", "write"} BY <2>2, <1>s, ZenonT(60) DEF Session
  <2>4. disk[p] = Own(t, p) BY <2>1, <2>2, <2>3, ZenonT(60) DEF Own, Cur
  <2> QED BY <2>2, <2>3, <2>4, ZenonT(60)
<1>2. \A x : x \in disk[p] => On(x, p) BY <1>1, ZenonT(60) DEF On
<1>3. ASSUME NEW x \in disk[p] \ Image(p)
      PROVE  \E t \in Tids : op[t].at \in {"flush", "write"} /\ x \in ins[t]
  <2>1. PICK t \in Tids : op[t].at \in {"flush", "write"} /\ Writer(t, p) /\ disk[p] = Own(t, p) BY <1>1, ZenonT(60)
  <2>2. x \in Tuples /\ x \in Own(t, p) /\ x \notin Image(p) BY <2>1, <1>t, ZenonT(60)
  <2> QED BY <2>1, <2>2, <1>s, ZenonT(60) DEF Effects, Over
<1>4. ASSUME NEW x \in Image(p) \ disk[p]
      PROVE  \E t \in Tids : op[t].at \in {"flush", "write"} /\ x \in del[t]
  <2>1. PICK t \in Tids : op[t].at \in {"flush", "write"} /\ Writer(t, p) /\ disk[p] = Own(t, p) BY <1>1, ZenonT(60)
  <2>2. x \in Tuples /\ x \notin Own(t, p) /\ x \in Image(p) BY <2>1, <1>t, ZenonT(60)
  <2> QED BY <2>1, <2>2, <1>s, ZenonT(60) DEF Effects, Over
<1> QED BY <1>1, <1>2, <1>3, <1>4, ZenonT(60)

(* A crash leaves the files; only the transaction in its commit may have   *)
(* been written in part.                                                   *)
LEMMA CrashKeeps ==
  ASSUME EngineInv, Crash
  PROVE  /\ EngineInv'
         /\ \A x \in Visible' \ Visible : \E t \in Tids : op[t].at \in {"flush", "write"} /\ x \in ins[t]
         /\ \A x \in Visible \ Visible' : \E t \in Tids : op[t].at \in {"flush", "write"} /\ x \in del[t]
         /\ \A t \in Tids : op'[t].at = IF op[t].at \in {"new", "acked", "aborted", "lost", "unlogged"}
                                        THEN op[t].at
                                        ELSE IF op[t].at = "log" THEN "unlogged" ELSE "lost"
<1>s. StorageTypeOK /\ LockInv /\ (\A u \in Tids : Session(u)) BY DEF EngineInv
<1>n. NoTid \notin Tids BY StorageAssumption
<1>l. LockInv' BY <1>s, LocksCrash, ZenonT(60)
<1>a. /\ up' = FALSE /\ pool' = <<>> /\ obj' = [t \in Tids |-> NoObject] /\ mon' = NoTid
      /\ op' = [t \in Tids |-> IF op[t].at \in {"new", "acked", "aborted", "lost", "unlogged"} THEN op[t]
                               ELSE At(IF op[t].at = "log" THEN "unlogged" ELSE "lost")]
      /\ waitingFor' = [t \in Tids |-> NoPage]
      /\ granted' = [t \in Tids |-> [p \in Pages |-> "none"]]
      /\ phase' = [t \in Tids |-> IF op[t].at = "new" THEN "active" ELSE "done"]
      /\ UNCHANGED <<calls, disk, numPages, log, ins, del>>
  BY ZenonT(60) DEF Crash
<1>w. \A u \in Tids, p \in Pages : ~Writer(u, p)' BY <1>a, ZenonT(60) DEF Writer
<1>i. \A p : ~Cached(p)' /\ Image(p)' = disk[p] BY <1>a DEF Cached, Image
<1>o. ASSUME NEW t \in Tids
      PROVE  /\ op'[t] \in Ops
             /\ op[t].at \in {"new", "acked", "aborted", "lost", "unlogged"} => op'[t] = op[t]
             /\ op[t].at \notin {"new", "acked", "aborted", "lost", "unlogged"} =>
                  /\ op'[t].at = IF op[t].at = "log" THEN "unlogged" ELSE "lost"
                  /\ op'[t].page = 0
  <2>0. op[t] \in Ops BY <1>s, ZenonT(60) DEF StorageTypeOK
  <2>1. CASE op[t].at \in {"new", "acked", "aborted", "lost", "unlogged"} BY <2>0, <2>1, <1>a, ZenonT(60)
  <2>2. CASE op[t].at \notin {"new", "acked", "aborted", "lost", "unlogged"}
    <3>1. PICK a : a = IF op[t].at = "log" THEN "unlogged" ELSE "lost" OBVIOUS
    <3>2. a \in Places BY <3>1 DEF Places
    <3>3. op'[t] = At(a) BY <2>2, <3>1, <1>a, ZenonT(60)
    <3> QED BY <2>2, <3>1, <3>2, <3>3, AtIs, ZenonT(60)
  <2> QED BY <2>1, <2>2, ZenonT(60)
<1>t. StorageTypeOK'
  <2>1. op' = [u \in Tids |-> op'[u]] /\ NoObject \in PageObjects BY <1>a, FreshIs, ZenonT(60) DEF NoObject
  <2>2. op' \in [Tids -> Ops] BY <2>1, <1>o, ZenonT(60)
  <2>3. DOMAIN pool' = {} BY <1>a
  <2>4. pool' \in [DOMAIN pool' -> PageObjects] BY <1>a
  <2> QED BY <2>1, <2>2, <2>3, <2>4, <1>a, <1>s, ZenonT(60) DEF StorageTypeOK
<1>z. \A t \in Tids : /\ op'[t].at \in {"new", "acked", "aborted", "lost", "unlogged"}
                      /\ op'[t].at = "new" <=> op[t].at = "new"
                      /\ op'[t].at \in Through <=> op[t].at \in Through
                      /\ op'[t].at = "aborted" <=> op[t].at = "aborted"
                      /\ op[t].at \in {"flush", "write"} => op'[t].at = "lost"
                      /\ op[t].at = "lost" => op'[t].at = "lost"
  <2> SUFFICES ASSUME NEW t \in Tids
               PROVE  /\ op'[t].at \in {"new", "acked", "aborted", "lost", "unlogged"}
                      /\ op'[t].at = "new" <=> op[t].at = "new"
                      /\ op'[t].at \in Through <=> op[t].at \in Through
                      /\ op'[t].at = "aborted" <=> op[t].at = "aborted"
                      /\ op[t].at \in {"flush", "write"} => op'[t].at = "lost"
                      /\ op[t].at = "lost" => op'[t].at = "lost"
    BY ZenonT(60)
  <2> QED BY <1>o, ZenonT(60) DEF Through
<1>1. ASSUME NEW t \in Tids PROVE Session(t)'
  <2>1. /\ waitingFor'[t] = NoPage /\ \A p \in Pages : granted'[t][p] = "none"
        /\ phase'[t] = IF op[t].at = "new" THEN "active" ELSE "done"
    BY <1>a, ZenonT(60)
  <2>2. op'[t].page < numPages'
    <3>1. op[t].page < numPages /\ 0 < numPages BY <1>s, PageNumbers DEF Session, StorageTypeOK
    <3> QED BY <3>1, <1>o, <1>a, ZenonT(60)
  <2>3. op[t].at = "new" => ins[t] = {} /\ del[t] = {} BY <1>s, ZenonT(60) DEF Session
  <2>4. op'[t].at \in {"new", "acked", "aborted", "lost", "unlogged"} /\ (op'[t].at = "new" <=> op[t].at = "new")
    BY <1>z, ZenonT(60)
  <2>5. mon' # t /\ ins'[t] = ins[t] /\ del'[t] = del[t] BY <1>a, <1>n, ZenonT(60)
  <2> QED BY <2>1, <2>2, <2>3, <2>4, <2>5, RestSession, ZenonT(60)
<1>2. Empty' BY <1>a, ZenonT(60) DEF EngineInv, Empty
<1>3. ASSUME NEW x, NEW p \in Pages, On(x, p)' PROVE On(x, p)
  <2>1. x \in disk[p] BY <1>3, <1>w, <1>i, ZenonT(60) DEF On
  <2> QED BY <2>1, DiskIs, ZenonT(60)
<1>4. OnePage' BY <1>3, ZenonT(60) DEF EngineInv, OnePage
<1>5. Counted'
  <2>1. \A x : Used(x)' => Used(x) BY <1>3, <1>a, ZenonT(60) DEF Used
  <2>2. \A x : Numbered(x)' <=> Numbered(x) BY <1>a DEF Numbered
  <2> QED BY <2>1, <2>2, ZenonT(60) DEF EngineInv, Counted
<1>6. ASSUME NEW t \in Tids PROVE NewTuple(t)' /\ Effects(t)'
  <2>1. NewTuple(t)' BY <1>z, ZenonT(60) DEF NewTuple, Inserting, InStatement
  <2>2. ASSUME op'[t].at \notin Over PROVE ins'[t] = {} /\ del'[t] = {}
    <3>1. op[t].at = "new" BY <2>2, <1>z, ZenonT(60) DEF Over
    <3> QED BY <3>1, <1>s, <1>a, ZenonT(60) DEF Session
  <2>3. Effects(t)' BY <2>2, <1>w, ZenonT(60) DEF Effects
  <2> QED BY <2>1, <2>3, ZenonT(60)
<1>7. \A x \in Visible' \ Visible : \E t \in Tids : op[t].at \in {"flush", "write"} /\ x \in ins[t]
  <2> SUFFICES ASSUME NEW x \in Visible', x \notin Visible
               PROVE  \E t \in Tids : op[t].at \in {"flush", "write"} /\ x \in ins[t]
    BY ZenonT(60)
  <2>1. PICK p \in Pages : x \in disk[p] BY <1>i, ZenonT(60) DEF Visible
  <2>2. x \notin Image(p) BY ZenonT(60) DEF Visible
  <2> QED BY <2>1, <2>2, DiskIs, ZenonT(60)
<1>8. \A x \in Visible \ Visible' : \E t \in Tids : op[t].at \in {"flush", "write"} /\ x \in del[t]
  <2> SUFFICES ASSUME NEW x \in Visible, x \notin Visible'
               PROVE  \E t \in Tids : op[t].at \in {"flush", "write"} /\ x \in del[t]
    BY ZenonT(60)
  <2>1. PICK p \in Pages : x \in Image(p) BY ZenonT(60) DEF Visible
  <2>2. x \notin disk[p] BY <1>i, ZenonT(60) DEF Visible
  <2> QED BY <2>1, <2>2, DiskIs, ZenonT(60)
<1>9. History'
  <2>i. History BY ZenonT(60) DEF EngineInv
  <2>f. \A t \in Tids : op[t].at \in {"flush", "write"} => \A v \in Tids : ins[t] \cap del[v] = {}
    BY <2>i, ZenonT(60) DEF History, Through
  <2>1. \A u, v \in Tids : u # v => ins'[u] \cap ins'[v] = {} BY <1>a, <2>i, ZenonT(60) DEF History
  <2>2. ASSUME NEW u \in Tids, op'[u].at \notin Through \cup {"lost"}
        PROVE  ins'[u] \cap Visible' = {} /\ \A v \in Tids : ins'[u] \cap del'[v] = {}
    <3>1. op[u].at \in {"new", "aborted"} BY <2>2, <1>z, ZenonT(60) DEF Through
    <3>2. ins[u] \cap Visible = {} /\ \A v \in Tids : ins[u] \cap del[v] = {}
      BY <3>1, <2>i, ZenonT(60) DEF History, Through
    <3>3. ASSUME NEW x \in ins[u], x \in Visible' PROVE FALSE
      <4>1. x \notin Visible BY <3>2, <3>3, ZenonT(60)
      <4>2. PICK t \in Tids : op[t].at \in {"flush", "write"} /\ x \in ins[t] BY <4>1, <3>3, <1>7, ZenonT(60)
      <4>3. t # u BY <4>2, <3>1, ZenonT(60)
      <4> QED BY <4>2, <4>3, <3>3, <2>i, ZenonT(60) DEF History
    <3> QED BY <3>2, <3>3, <1>a, ZenonT(60)
  <2>3. ASSUME NEW u \in Tids, op'[u].at \in Through
        PROVE  /\ del'[u] \cap Visible' = {}
               /\ \A v \in Tids : v # u /\ op'[v].at \in Through => del'[u] \cap del'[v] = {}
               /\ ins'[u] \subseteq Visible' \cup
                    UNION {del'[v] : v \in {w \in Tids : op'[w].at \in Through \cup {"lost"}}}
    <3>1. op[u].at \in Through BY <2>3, <1>z, ZenonT(60)
    <3>2. /\ del[u] \cap Visible = {}
          /\ \A v \in Tids : v # u /\ op[v].at \in Through => del[u] \cap del[v] = {}
          /\ ins[u] \subseteq Visible \cup
                    UNION {del[v] : v \in {w \in Tids : op[w].at \in Through \cup {"lost"}}}
      BY <3>1, <2>i, ZenonT(60) DEF History
    <3>3. ASSUME NEW x \in del[u], x \in Visible' PROVE FALSE
      <4>1. x \notin Visible BY <3>2, <3>3, ZenonT(60)
      <4>2. PICK t \in Tids : op[t].at \in {"flush", "write"} /\ x \in ins[t] BY <4>1, <3>3, <1>7, ZenonT(60)
      <4> QED BY <4>2, <3>3, <2>f, ZenonT(60)
    <3>4. ASSUME NEW x \in ins[u], x \notin Visible'
          PROVE  \E v \in Tids : op'[v].at \in Through \cup {"lost"} /\ x \in del[v]
      <4>1. CASE x \in Visible
        <5>1. PICK t \in Tids : op[t].at \in {"flush", "write"} /\ x \in del[t] BY <4>1, <3>4, <1>8, ZenonT(60)
        <5> QED BY <5>1, <1>z, ZenonT(60)
      <4>2. CASE x \notin Visible
        <5>1. PICK v \in Tids : op[v].at \in Through \cup {"lost"} /\ x \in del[v] BY <4>2, <3>2, <3>4, ZenonT(60)
        <5> QED BY <5>1, <1>z, ZenonT(60)
      <4> QED BY <4>1, <4>2, ZenonT(60)
    <3>5. ins[u] \subseteq Visible' \cup
            UNION {del[v] : v \in {w \in Tids : op'[w].at \in Through \cup {"lost"}}}
      BY <3>4, ZenonT(60)
    <3>6. \A v \in Tids : op'[v].at \in Through => op[v].at \in Through BY <1>z, ZenonT(60)
    <3> QED BY <3>2, <3>3, <3>5, <3>6, <1>a, ZenonT(60)
  <2> QED BY <2>1, <2>2, <2>3, ZenonT(60) DEF History
<1>10. \A p \in DOMAIN pool' : CachedPage(p)' BY <1>a
<1>11. EngineInv' BY <1>a, <1>l, <1>t, <1>1, <1>2, <1>4, <1>5, <1>6, <1>9, <1>10, ZenonT(60) DEF EngineInv
<1>12. \A t \in Tids : op'[t].at = IF op[t].at \in {"new", "acked", "aborted", "lost", "unlogged"}
                                   THEN op[t].at
                                   ELSE IF op[t].at = "log" THEN "unlogged" ELSE "lost"
  BY <1>o, ZenonT(60)
<1> QED BY <1>7, <1>8, <1>11, <1>12, ZenonT(60)

(* The first record of the new process throws the old log away, and        *)
(* recovery finds nothing to do.                                           *)
LEMMA StartKeeps ==
  ASSUME EngineInv, Start
  PROVE  EngineInv' /\ Visible' = Visible
<1>s. StorageTypeOK /\ LockInv /\ (\A u \in Tids : Session(u)) BY DEF EngineInv
<1>n. NoTid \notin Tids BY StorageAssumption
<1>a. /\ ~up /\ up' = TRUE
      /\ log' = <<Record("BEGIN", NoTid), Record("COMMIT", NoTid)>>
      /\ disk' = recover(log', disk)
      /\ UNCHANGED <<lockVars, pool, numPages, op, obj, mon, ins, del, restarts>>
  BY ZenonT(60) DEF Start, computeStatistics
<1>l. LockInv' BY <1>a, <1>s, LockInvNext, ZenonT(60)
<1>r. /\ Record("BEGIN", NoTid) \in Records /\ Record("BEGIN", NoTid).type = "BEGIN"
      /\ Record("COMMIT", NoTid) \in Records /\ Record("COMMIT", NoTid).type = "COMMIT"
      /\ Record("COMMIT", NoTid).tid = NoTid
  BY RecordIs, ZenonT(60)
<1>b. /\ log' \in Seq(Records) /\ DOMAIN log' = {1, 2}
      /\ log'[1] = Record("BEGIN", NoTid) /\ log'[2] = Record("COMMIT", NoTid)
  BY <1>a, <1>r
<1>c. \A p : Updates(log, p)' = {} BY <1>b, <1>r, ZenonT(60) DEF Updates
<1>e. \A p : Updates(log', p) = {} BY <1>b, <1>r, ZenonT(60) DEF Updates
<1>d. disk' = disk
  <2>1. disk' = [p \in Pages |-> disk[p]] BY <1>a, <1>e, ZenonT(60) DEF recover
  <2> QED BY <2>1, <1>s, ZenonT(60) DEF StorageTypeOK
<1>t. StorageTypeOK' BY <1>a, <1>b, <1>d, <1>s, ZenonT(60) DEF StorageTypeOK
<1>m. mon = NoTid BY <1>a, <1>s, ZenonT(60) DEF Session, StorageTypeOK
<1>v. UNCHANGED <<holders, exclusive, waitingFor, want, phase, granted, calls>> BY <1>a DEF lockVars
<1>p. /\ \A p : Image(p)' = Image(p) /\ Cur(p)' = Cur(p) /\ (Cached(p)' <=> Cached(p))
      /\ \A t, p : (Writer(t, p)' <=> Writer(t, p)) /\ Own(t, p)' = Own(t, p)
  BY <1>a, <1>d, <1>v, ZenonT(60) DEF Image, Cur, Cached, Writer, Own
<1>1. ASSUME NEW t \in Tids PROVE Session(t)'
  <2>1. Session(t) /\ op[t].at \in {"new", "acked", "aborted", "lost", "unlogged"} BY <1>a, <1>s, ZenonT(60) DEF Session
  <2>2. /\ waitingFor[t] = NoPage /\ \A p \in Pages : granted[t][p] = "none"
        /\ op[t].page < numPages /\ (op[t].at = "new" => ins[t] = {} /\ del[t] = {})
        /\ mon # t
    BY <2>1, <1>m, <1>n, ZenonT(60) DEF Session, Over
  <2>3. phase[t] \in {"active", "done"} /\ (phase[t] = "active" <=> op[t].at = "new")
    <3>1. (op[t].at = "new" => phase[t] = "active") /\ (phase[t] = "done" <=> op[t].at \in Over)
      BY <2>1, ZenonT(60) DEF Session
    <3> QED BY <2>1, <3>1, ZenonT(60) DEF Over
  <2> QED BY <2>1, <2>2, <2>3, <1>a, <1>v, RestSession, ZenonT(60)
<1>2. DOMAIN pool' = {} BY <1>a, ZenonT(60) DEF EngineInv, CachedPage
<1>3. Empty' BY <1>a, <1>d, ZenonT(60) DEF EngineInv, Empty
<1>4. LogRight'
  <2>1. \A p \in Pages : ~Ahead(p)' BY <1>a, <1>m, ZenonT(60) DEF Ahead
  <2>2. Tids \cap Committed(log)' = {}
    <3>1. \A k \in DOMAIN log' : log'[k].type = "COMMIT" => log'[k].tid = NoTid BY <1>b, <1>r, ZenonT(60)
    <3> QED BY <3>1, <1>n, ZenonT(60) DEF Committed
  <2> QED BY <2>1, <2>2, <1>c, ZenonT(60) DEF LogRight, Logs
<1>5. /\ OnePage' /\ Counted' /\ (\A t \in Tids : Effects(t)') /\ History' /\ Visible' = Visible
      /\ \A x : Used(x)' => Used(x)
  <2>1. \A u \in Tids : calls[u] \in Nat /\ calls'[u] \in Nat /\ calls[u] <= calls'[u]
    <3>1. calls \in [Tids -> Nat] BY <1>s, LockAssumption DEF LockInv, LockTypeOK
    <3> QED BY <3>1, <1>v
  <2>2. OnePage /\ Counted /\ (\A u \in Tids : Effects(u)) /\ History BY ZenonT(60) DEF EngineInv
  <2> QED BY <2>1, <2>2, <1>a, <1>p, QuietData, ZenonT(60)
<1>6. ASSUME NEW t \in Tids PROVE NewTuple(t)'
  <2>1. op[t].at \in {"new", "acked", "aborted", "lost", "unlogged"} BY <1>a, <1>s, ZenonT(60) DEF Session
  <2> QED BY <2>1, <1>a, ZenonT(60) DEF NewTuple, Inserting, InStatement
<1> QED BY <1>l, <1>t, <1>1, <1>2, <1>3, <1>4, <1>5, <1>6, ZenonT(60) DEF EngineInv

-----------------------------------------------------------------------------
(* The invariant holds from the start on, whatever happens. *)

(* The engine starts on a file of one page with nobody at work. *)
LEMMA InitEngine == Init => EngineInv
<1> SUFFICES ASSUME Init PROVE EngineInv OBVIOUS
<1>n. NoTid \notin Tids BY StorageAssumption, ZenonT(60)
<1>l. LockInit /\ LockInv BY LockInvInit, ZenonT(60) DEF Init
<1>a. /\ pool = <<>> /\ numPages = 1 /\ log = <<>> /\ mon = NoTid /\ up = TRUE
      /\ op = [t \in Tids |-> At("new")] /\ obj = [t \in Tids |-> NoObject]
      /\ ins = [t \in Tids |-> {}] /\ del = [t \in Tids |-> {}]
  BY ZenonT(60) DEF Init
<1>d. PICK old \in SUBSET {OldTuple} : disk = [p \in Pages |-> IF p = 0 THEN old ELSE {}]
  BY ZenonT(60) DEF Init
<1>o. OldTuple \in Tuples BY DEF Tuples
<1>b. "new" \in Places BY DEF Places
<1>c. At("new") \in Ops /\ At("new").at = "new" /\ At("new").page = 0 BY <1>b, AtIs, ZenonT(60)
<1>t. StorageTypeOK
  <2>1. NoObject \in PageObjects BY FreshIs, ZenonT(60) DEF NoObject
  <2>2. numPages \in Nat /\ numPages - 1 \in Pages BY <1>a, PageNumbers
  <2>3. disk \in [Pages -> SUBSET Tuples] BY <1>d, <1>o, ZenonT(60)
  <2>4. DOMAIN pool = {} BY <1>a
  <2>5. DOMAIN pool \subseteq Pages /\ pool \in [DOMAIN pool -> PageObjects] BY <2>4, <1>a
  <2>6. log \in Seq(Records) BY <1>a
  <2>7. op \in [Tids -> Ops] BY <1>a, <1>c, ZenonT(60)
  <2>8. obj \in [Tids -> PageObjects] BY <1>a, <2>1, ZenonT(60)
  <2>9. ins \in [Tids -> SUBSET Tuples] /\ del \in [Tids -> SUBSET Tuples] BY <1>a, ZenonT(60)
  <2> QED BY <2>2, <2>3, <2>5, <2>6, <2>7, <2>8, <2>9, <1>a DEF StorageTypeOK
<1>e. DOMAIN pool = {} /\ DOMAIN log = {} BY <1>a
<1>i. \A p : Image(p) = disk[p] /\ ~Cached(p) BY <1>e, ZenonT(60) DEF Image, Cached
<1>g. \A t \in Tids : /\ waitingFor[t] = NoPage /\ phase[t] = "active"
                      /\ \A p \in Pages : granted[t][p] = "none"
  BY <1>l, ZenonT(60) DEF LockInit
<1>w. \A t \in Tids, p \in Pages : ~Writer(t, p) BY <1>g, ZenonT(60) DEF Writer
<1>1. ASSUME NEW t \in Tids PROVE Session(t)
  <2>1. op[t].at = "new" /\ op[t].page < numPages /\ ins[t] = {} /\ del[t] = {} /\ mon # t /\ up
    BY <1>a, <1>c, <1>n
  <2> QED BY <2>1, <1>g, ZenonT(60) DEF Session, Over, InStatement
<1>2. Empty BY <1>a, <1>d, PageNumbers DEF Empty
<1>3. LogRight BY <1>a, <1>e, ZenonT(60) DEF LogRight, Logs, Updates, Committed, Ahead
<1>4. \A x : \A p \in Pages : On(x, p) => x = OldTuple /\ p = 0 BY <1>i, <1>w, <1>d, ZenonT(60) DEF On
<1>5. OnePage BY <1>4, ZenonT(60) DEF OnePage
<1>6. Counted
  <2>1. \A x : Used(x) => x = OldTuple BY <1>4, <1>a DEF Used
  <2> QED BY <2>1, ZenonT(60) DEF Counted, Numbered
<1>7. ASSUME NEW t \in Tids PROVE NewTuple(t) /\ Effects(t)
  <2>1. op[t].at = "new" /\ ins[t] = {} /\ del[t] = {} BY <1>a, <1>c, ZenonT(60)
  <2>2. NewTuple(t) BY <2>1, ZenonT(60) DEF NewTuple, Inserting, InStatement
  <2>3. Effects(t) BY <2>1, <1>w, ZenonT(60) DEF Effects
  <2> QED BY <2>2, <2>3, ZenonT(60)
<1>8. History
  <2>1. \A t \in Tids : ins[t] = {} /\ del[t] = {} /\ op[t].at = "new" BY <1>a, <1>c, ZenonT(60)
  <2> QED BY <2>1, ZenonT(60) DEF History, Through
<1> QED BY <1>l, <1>t, <1>e, <1>1, <1>2, <1>3, <1>5, <1>6, <1>7, <1>8, ZenonT(60) DEF EngineInv

(* A step that changes nothing. *)
LEMMA StutterKeeps ==
  ASSUME EngineInv, UNCHANGED engineVars
  PROVE  EngineInv' /\ Visible' = Visible
<1>1. /\ UNCHANGED <<holders, exclusive, waitingFor, want, phase, granted, calls>>
      /\ UNCHANGED <<pool, disk, numPages, log, op, obj, mon, ins, del, up, restarts>>
  BY ZenonT(60) DEF engineVars, lockVars, storageVars
<1>i. \A p : /\ Image(p)' = Image(p) /\ (Cached(p)' <=> Cached(p)) /\ Cur(p)' = Cur(p)
             /\ Updates(log, p)' = Updates(log, p)
  BY <1>1, ZenonT(60) DEF Image, Cached, Cur, Updates
<1>w. \A t, p : (Writer(t, p)' <=> Writer(t, p)) /\ Own(t, p)' = Own(t, p)
  BY <1>1, <1>i, ZenonT(60) DEF Writer, Own
<1>2. LockInv' BY <1>1, LockInvNext, ZenonT(60) DEF EngineInv, lockVars
<1>3. StorageTypeOK' BY <1>1, ZenonT(60) DEF EngineInv, StorageTypeOK
<1>4. ASSUME NEW t \in Tids PROVE Session(t)'
  <2>1. Session(t) BY <1>4, ZenonT(60) DEF EngineInv
  <2>2. /\ UNCHANGED <<waitingFor, want, phase, granted>>
        /\ UNCHANGED <<pool, numPages, op, obj, mon, ins, del, up>>
    BY <1>1, ZenonT(60)
  <2> QED BY <2>1, <2>2, <1>i, <1>w DEF Session
<1>5. ASSUME NEW p \in DOMAIN pool' PROVE CachedPage(p)' BY <1>1, <1>w, ZenonT(60) DEF EngineInv, CachedPage
<1>6. Empty' BY <1>1, ZenonT(60) DEF EngineInv, Empty
<1>7. up' => LogRight'
  <2>1. \A p \in Pages : Logs(p)' <=> Logs(p)
    <3> SUFFICES ASSUME NEW p \in Pages PROVE Logs(p)' <=> Logs(p) OBVIOUS
    <3>1. \A k : Settles(k, p)' <=> Settles(k, p) BY <1>i, ZenonT(60) DEF Settles
    <3>2. \A k : Settled(log[k], p)' <=> Settled(log[k], p)
      BY <1>1, <1>i, <1>w, ZenonT(60) DEF Settled
    <3>3. Ahead(p)' <=> Ahead(p) BY <1>1, <1>i, ZenonT(60) DEF Ahead
    <3>4. Committed(log)' = Committed(log) BY <1>1, ZenonT(60) DEF Committed
    <3> QED BY <1>1, <1>i, <3>1, <3>2, <3>3, <3>4, ZenonT(60) DEF Logs
  <2>2. Committed(log)' = Committed(log) BY <1>1, ZenonT(60) DEF Committed
  <2> QED BY <1>1, <2>1, <2>2, ZenonT(60) DEF EngineInv, LogRight
<1>8. \A x, p : On(x, p)' <=> On(x, p) BY <1>i, <1>w DEF On
<1>9. OnePage' BY <1>8, ZenonT(60) DEF EngineInv, OnePage
<1>10. \A x : (Used(x)' <=> Used(x)) /\ (Numbered(x)' <=> Numbered(x))
  BY <1>1, <1>8, ZenonT(60) DEF Used, Numbered
<1>11. Counted' BY <1>10, ZenonT(60) DEF EngineInv, Counted
<1>12. ASSUME NEW t \in Tids PROVE NewTuple(t)' /\ Effects(t)'
  <2>1. Effects(t)' BY <1>1, <1>i, <1>w, ZenonT(60) DEF EngineInv, Effects
  <2>2. PICK x : x = op[t].tup BY ZenonT(60)
  <2>3. NewTuple(t)' BY <2>2, <1>1, <1>10, ZenonT(60) DEF EngineInv, NewTuple, Inserting
  <2> QED BY <2>1, <2>3, ZenonT(60)
<1>13. Visible' = Visible BY <1>i, ZenonT(60) DEF Visible
<1>14. History' BY <1>1, <1>13, ZenonT(60) DEF EngineInv, History
<1> QED BY <1>2, <1>3, <1>4, <1>5, <1>6, <1>7, <1>9, <1>11, <1>12, <1>13, <1>14, ZenonT(60) DEF EngineInv

(* Every step of the engine keeps the invariant. *)
LEMMA NextEngine == EngineInv /\ [Next]_engineVars => EngineInv'
<1> SUFFICES ASSUME EngineInv, [Next]_engineVars PROVE EngineInv' OBVIOUS
<1>1. CASE UNCHANGED engineVars BY <1>1, StutterKeeps, ZenonT(60)
<1>2. CASE Crash BY <1>2, CrashKeeps, ZenonT(60)
<1>3. CASE Start BY <1>3, StartKeeps, ZenonT(60)
<1>4. ASSUME NEW t \in Tids, Step(t) PROVE EngineInv'
  <2>1. CASE logXactionBegin(t) BY <2>1, BeginKeeps, ZenonT(60)
  <2>2. CASE Statement(t) BY <2>2, StatementKeeps, ZenonT(60)
  <2>3. CASE Lock(t) BY <2>3, LockKeeps
  <2>4. CASE Fetch(t) BY <2>4, FetchKeeps
  <2>5. CASE FetchFails(t) \/ EditFails(t) BY <2>5, FailKeeps, ZenonT(60)
  <2>6. CASE NextPage(t) BY <2>6, NextPageKeeps
  <2>7. CASE Grow(t) BY <2>7, GrowKeeps
  <2>8. CASE Edit(t) BY <2>8, EditKeeps, ZenonT(60)
  <2>9. CASE Put(t) BY <2>9, PutKeeps
  <2>10. CASE StartCommit(t) BY <2>10, StartCommitKeeps
  <2>11. CASE \E p \in Pages : logWrite(t, p) BY <2>11, LogWriteKeeps, ZenonT(60)
  <2>12. CASE writePage(t) BY <2>12, WritePageKeeps
  <2>13. CASE transactionComplete(t) BY <2>13, CompleteKeeps, ZenonT(60)
  <2>14. CASE logCommit(t) BY <2>14, LogCommitKeeps
  <2>15. CASE logAbort(t) BY <2>15, LogAbortKeeps
  <2>16. CASE discardPages(t) BY <2>16, DiscardKeeps
  <2> QED BY <1>4, <2>1, <2>2, <2>3, <2>4, <2>5, <2>6, <2>7, <2>8, <2>9, <2>10, <2>11, <2>12,
             <2>13, <2>14, <2>15, <2>16, ZenonT(60) DEF Step
<1> QED BY <1>1, <1>2, <1>3, <1>4, ZenonT(60) DEF Next

(* The engine is never in another state. *)
LEMMA EngineAlways == Spec => []EngineInv
BY InitEngine, NextEngine, PTL DEF Spec

-----------------------------------------------------------------------------
(* What can be taken back, and what recovery would find. *)

(* The last record of a page is its only last one. *)
LEMMA OneSettles ==
  ASSUME EngineInv, NEW p \in Pages, NEW j \in DOMAIN log, NEW k \in DOMAIN log,
         Settles(j, p), Settles(k, p)
  PROVE  j = k
<1>1. log \in Seq(Records) BY DEF EngineInv, StorageTypeOK
<1>2. j \in Nat /\ k \in Nat BY <1>1
<1> QED BY <1>2 DEF Settles

(* What is not committed is locked in the pool, and in the log where the   *)
(* file already has it.                                                    *)
LEMMA HeldFollows == EngineInv => UncommittedHeld
<1> SUFFICES ASSUME EngineInv PROVE UncommittedHeld BY ZenonT(60)
<1>1. ASSUME NEW p \in DOMAIN pool, pool[p].data # pool[p].before
      PROVE  \E t \in Tids : granted[t][p] = "X" /\ pool[p].dirty \in {t, NoTid}
  BY <1>1, ZenonT(60) DEF EngineInv, CachedPage, Writer
<1>2. ASSUME up, NEW p \in Pages, disk[p] # Image(p)
      PROVE  \E k \in Updates(log, p) : log[k].before = Image(p) /\ log[k].after = disk[p]
  <2>1. PICK t \in Tids : op[t].at \in {"flush", "write"} /\ mon = t /\ disk[p] = Own(t, p)
    BY <1>2, DiskIs, ZenonT(60)
  <2>n. mon # NoTid BY <2>1, StorageAssumption, ZenonT(60)
  <2>2. Ahead(p) BY <2>n, <1>2, ZenonT(60) DEF Ahead
  <2>3. Logs(p) BY <1>2, ZenonT(60) DEF EngineInv, LogRight
  <2>4. PICK k \in DOMAIN log : Settles(k, p) /\ log[k].tid = mon BY <2>2, <2>3, ZenonT(60) DEF Logs
  <2>5. k \in Updates(log, p) BY <2>4, ZenonT(60) DEF Settles
  <2>6. PICK j \in DOMAIN log : Settles(j, p) /\ Settled(log[j], p) BY <2>3, <2>5, ZenonT(60) DEF Logs
  <2>7. j = k BY <2>4, <2>6, OneSettles, ZenonT(60)
  <2>8. Cached(p) /\ log[k].before = pool[p].before /\ log[k].after = pool[p].data
    BY <2>1, <2>4, <2>6, <2>7, ZenonT(60) DEF Settled
  <2>9. disk[p] = pool[p].data BY <2>1, <2>8, ZenonT(60) DEF Own, Cur
  <2> QED BY <2>5, <2>8, <2>9, ZenonT(60) DEF Image
<1> QED BY <1>1, <1>2, ZenonT(60) DEF UncommittedHeld

(* Recovery gives a page its committed contents, or takes back one         *)
(* transaction whose commit record is not there yet.                       *)
LEMMA RecoverIs ==
  ASSUME EngineInv, up, NEW p \in Pages
  PROVE  \/ recover(log, disk)[p] = Image(p)
         \/ \E u \in Tids : /\ op[u].at = "log"
                            /\ recover(log, disk)[p] \ Image(p) \subseteq del[u]
                            /\ Image(p) \ recover(log, disk)[p] \subseteq ins[u]
<1>1. Logs(p) /\ \A t \in Tids \cap Committed(log) : op[t].at = "acked" BY ZenonT(60) DEF EngineInv, LogRight
<1>2. CASE Updates(log, p) = {}
  <2>1. recover(log, disk)[p] = disk[p] BY <1>2, ZenonT(60) DEF recover
  <2>2. ASSUME disk[p] # Image(p) PROVE FALSE
    <3>1. PICK t \in Tids : mon = t BY <2>2, DiskIs, ZenonT(60)
    <3>2. mon # NoTid BY <3>1, StorageAssumption, ZenonT(60)
    <3>3. Ahead(p) BY <2>2, <3>2, ZenonT(60) DEF Ahead
    <3> QED BY <3>3, <1>1, <1>2, ZenonT(60) DEF Logs, Settles
  <2> QED BY <2>1, <2>2, ZenonT(60)
<1>3. CASE Updates(log, p) # {}
  <2>2. PICK c : c = CHOOSE k \in Updates(log, p) : \A j \in Updates(log, p) : j <= k BY ZenonT(60)
  <2>0. recover(log, disk)[p] = IF log[c].tid \in Committed(log) THEN log[c].after ELSE log[c].before
    BY <1>3, <2>2 DEF recover
  <2>1. PICK k \in DOMAIN log : Settles(k, p) /\ Settled(log[k], p) BY <1>1, <1>3, ZenonT(60) DEF Logs
  <2>3. c \in Updates(log, p) /\ \A j \in Updates(log, p) : j <= c BY <2>1, <2>2, ZenonT(60) DEF Settles
  <2>4. c \in DOMAIN log BY <2>3, ZenonT(60) DEF Updates
  <2>5. c = k BY <2>1, <2>3, <2>4, OneSettles, ZenonT(60) DEF Settles
  <2>6. recover(log, disk)[p] = IF log[k].tid \in Committed(log) THEN log[k].after ELSE log[k].before
    BY <2>0, <2>5, ZenonT(60)
  <2>7. PICK u \in Tids : u = log[k].tid /\ op[u].at \in {"flush", "write", "log", "acked"}
                          /\ (op[u].at = "acked" => u \in Committed(log))
    BY <2>1, <1>1, ZenonT(60) DEF Logs, Settles
  <2>8. CASE op[u].at \in {"flush", "write"}
    <3>1. u \notin Committed(log) BY <2>8, <1>1, ZenonT(60)
    <3>2. Cached(p) /\ log[k].before = pool[p].before BY <2>1, <2>7, <2>8, ZenonT(60) DEF Settled
    <3> QED BY <3>1, <3>2, <2>6, <2>7, ZenonT(60) DEF Image
  <2>9. CASE op[u].at = "acked"
    <3>1. u \in Committed(log) BY <2>9, <2>7, ZenonT(60)
    <3>2. log[k].after = Image(p) BY <2>1, <2>7, <2>9, ZenonT(60) DEF Settled
    <3> QED BY <3>1, <3>2, <2>6, <2>7, ZenonT(60)
  <2>10. CASE op[u].at = "log"
    <3>1. u \notin Committed(log) BY <2>10, <1>1, ZenonT(60)
    <3>2. /\ log[k].after = Image(p)
          /\ log[k].after \ log[k].before \subseteq ins[u] /\ log[k].before \ log[k].after \subseteq del[u]
      BY <2>1, <2>7, <2>10, ZenonT(60) DEF Settled
    <3> QED BY <3>1, <3>2, <2>6, <2>7, <2>10, ZenonT(60)
  <2> QED BY <2>7, <2>8, <2>9, <2>10, ZenonT(60)
<1> QED BY <1>2, <1>3, ZenonT(60)

(* So recovery finds every acknowledged transaction, and no other that was *)
(* not in its commit.                                                      *)
LEMMA RightFollows == EngineInv => RecoveryRight
<1> SUFFICES ASSUME EngineInv, up PROVE RecoveryRight BY DEF RecoveryRight
<1> DEFINE found == UNION {recover(log, disk)[p] : p \in Pages}
           gone == UNION {del[t] : t \in {u \in Tids : Undecided(u) \/ op[u].at = "acked"}}
<1>h. History BY ZenonT(60) DEF EngineInv
<1>1. ASSUME NEW x \in found, x \notin Visible
      PROVE  \E u \in Tids : op[u].at = "log" /\ x \in del[u]
  <2>1. PICK p \in Pages : x \in recover(log, disk)[p] OBVIOUS
  <2>2. x \notin Image(p) BY <1>1, ZenonT(60) DEF Visible
  <2> QED BY <2>1, <2>2, RecoverIs, ZenonT(60)
<1>2. ASSUME NEW x \in Visible, x \notin found
      PROVE  \E u \in Tids : op[u].at = "log" /\ x \in ins[u]
  <2>1. PICK p \in Pages : x \in Image(p) BY DEF Visible
  <2>2. x \notin recover(log, disk)[p] BY <1>2, ZenonT(60)
  <2> QED BY <2>1, <2>2, RecoverIs, ZenonT(60)
<1>3. ASSUME NEW t \in Tids, op[t].at = "acked"
      PROVE  ins[t] \ gone \subseteq found /\ del[t] \cap found = {}
  <2>t. op[t].at \in Through BY <1>3, ZenonT(60) DEF Through
  <2>1. ASSUME NEW x \in del[t], x \in found PROVE FALSE
    <3>1. x \notin Visible BY <2>1, <2>t, <1>h, ZenonT(60) DEF History
    <3>2. PICK u \in Tids : op[u].at = "log" /\ x \in del[u] BY <3>1, <2>1, <1>1, ZenonT(60)
    <3>3. u # t /\ op[u].at \in Through BY <3>2, <1>3, ZenonT(60) DEF Through
    <3> QED BY <3>2, <3>3, <2>1, <2>t, <1>h, ZenonT(60) DEF History
  <2>2. ASSUME NEW x \in ins[t], x \notin gone, x \notin found PROVE FALSE
    <3>1. x \in Visible \/ \E v \in Tids : op[v].at \in Through \cup {"lost"} /\ x \in del[v]
      BY <2>2, <2>t, <1>h DEF History
    <3>2. \A v \in Tids : op[v].at \in Through \cup {"lost"} => x \notin del[v]
      BY <2>2, ZenonT(60) DEF Through, Undecided
    <3>3. PICK u \in Tids : op[u].at = "log" /\ x \in ins[u] BY <3>1, <3>2, <2>2, <1>2, ZenonT(60)
    <3>4. u # t BY <3>3, <1>3, ZenonT(60)
    <3> QED BY <3>3, <3>4, <2>2, <1>h, ZenonT(60) DEF History
  <2> QED BY <2>1, <2>2, ZenonT(60)
<1>4. ASSUME NEW t \in Tids, op[t].at # "acked", ~Undecided(t)
      PROVE  ins[t] \cap found = {}
  <2>1. op[t].at \notin Through \cup {"lost"} BY <1>4, ZenonT(60) DEF Through, Undecided
  <2>2. ins[t] \cap Visible = {} /\ \A u \in Tids : ins[t] \cap del[u] = {} BY <2>1, <1>h, ZenonT(60) DEF History
  <2> QED BY <2>2, <1>1, ZenonT(60)
<1> QED BY <1>3, <1>4, ZenonT(60) DEF RecoveryRight

(* Whatever is evicted, interleaved or cut off: what is not committed can  *)
(* be taken back.  An edited page stays locked by its writer until commit  *)
(* or abort, and its log record reaches the disk before the page does.     *)
THEOREM UncommittedAlwaysHeld == Spec => []UncommittedHeld
BY EngineAlways, HeldFollows, PTL

(* Were LogFile.recover given the log and the file at any moment, it would *)
(* find every acknowledged transaction whole and nothing of any other but  *)
(* those caught between the start of their commit and its record.          *)
THEOREM RecoveryAlwaysRight == Spec => []RecoveryRight
BY EngineAlways, RightFollows, PTL

-----------------------------------------------------------------------------
(* The engine implements TransactionalStore. *)

(* What TransactionalStore calls a session that is at a. *)
StatusOf(a) == CASE a \in {"new", "aborted", "lost"} -> a
                 [] a \in {"flush", "write"} -> "committing"
                 [] a \in {"log", "acked", "unlogged"} -> "committed"
                 [] OTHER -> "running"

(* The places of the engine, as TransactionalStore knows them. *)
LEMMA StatusIs ==
  /\ \A a \in {"new", "aborted", "lost"} : StatusOf(a) = a
  /\ \A a \in {"flush", "write"} : StatusOf(a) = "committing"
  /\ \A a \in Through : StatusOf(a) = "committed"
  /\ \A a \in InStatement \cup {"idle", "undo"} : StatusOf(a) = "running"
BY DEF StatusOf, Through, InStatement

(* The status of every transaction, before a step and after it. *)
LEMMA StoreStatusIs ==
  /\ StoreStatus = [t \in Tids |-> StatusOf(op[t].at)]
  /\ StoreStatus' = [t \in Tids |-> StatusOf(op'[t].at)]
BY ZenonT(60) DEF StoreStatus, StatusOf

(* Only the session that steps changes its status. *)
LEMMA StatusMoves ==
  ASSUME NEW t \in Tids, \A u \in Tids : u # t => op'[u].at = op[u].at
  PROVE  StoreStatus' = [StoreStatus EXCEPT ![t] = StatusOf(op'[t].at)]
BY StoreStatusIs, ZenonT(60)

(* A step that is not seen outside. *)
LEMMA Unseen ==
  ASSUME NEW t \in Tids, \A u \in Tids : u # t => op'[u].at = op[u].at,
         StatusOf(op'[t].at) = StatusOf(op[t].at),
         Visible' = Visible, ins' = ins, del' = del
  PROVE  UNCHANGED Store!storeVars
<1>1. StoreStatus' = StoreStatus BY StoreStatusIs, ZenonT(60)
<1> QED BY <1>1, ZenonT(60) DEF Store!storeVars

(* A transaction begins, asks for its commit or ends its abort. *)
LEMMA Seen ==
  ASSUME NEW t \in Tids, \A u \in Tids : u # t => op'[u].at = op[u].at,
         Visible' = Visible, ins' = ins, del' = del,
         \/ op[t].at = "new" /\ op'[t].at = "idle"
         \/ op[t].at = "idle" /\ op'[t].at = "flush"
         \/ op[t].at = "undo" /\ op'[t].at = "aborted"
  PROVE  Store!StoreNext
<1>1. /\ StoreStatus[t] = StatusOf(op[t].at)
      /\ StoreStatus' = [StoreStatus EXCEPT ![t] = StatusOf(op'[t].at)]
  BY StoreStatusIs, StatusMoves, ZenonT(60)
<1>2. /\ StatusOf("new") = "new" /\ StatusOf("idle") = "running" /\ StatusOf("flush") = "committing"
      /\ StatusOf("undo") = "running" /\ StatusOf("aborted") = "aborted"
  BY StatusIs, ZenonT(60)
<1>3. Store!Begin(t) \/ Store!AskCommit(t) \/ Store!Abort(t)
  BY <1>1, <1>2, ZenonT(60) DEF Store!Begin, Store!AskCommit, Store!Abort, Store!Move
<1> QED BY <1>3, ZenonT(60) DEF Store!StoreNext

(* An edit is an insert or a delete of the store. *)
LEMMA EditSeen ==
  ASSUME NEW t \in Tids, NEW x \in Tuples, EditDoes(t, x), Visible' = Visible, op \in [Tids -> Ops],
         op[t].at = "edit", op' = [op EXCEPT ![t].at = "put"]
  PROVE  Store!StoreNext
<1>1. StatusOf("edit") = "running" /\ StatusOf("put") = "running" BY StatusIs DEF InStatement
<1>2. op'[t].at = "put" /\ \A u \in Tids : u # t => op'[u].at = op[u].at OBVIOUS
<1>3. StoreStatus' = StoreStatus /\ StoreStatus[t] = "running" BY <1>1, <1>2, StoreStatusIs
<1>4. ASSUME NEW u \in Tids, Store!Active(u) PROVE op[u].at \notin Over
  <2>1. StatusOf(op[u].at) \in {"running", "committing"} BY <1>4, StoreStatusIs, ZenonT(60) DEF Store!Active
  <2> QED BY <2>1 DEF StatusOf, Over
<1>5. Store!Insert(t, x) \/ Store!Delete(t, x)
  BY <1>3, <1>4, ZenonT(60) DEF EditDoes, Store!Insert, Store!Delete
<1> QED BY <1>5 DEF Store!StoreNext

(* The last page written, everything of the transaction is there. *)
LEMMA CompleteSeen ==
  ASSUME NEW t \in Tids, \A u \in Tids : u # t => op'[u].at = op[u].at,
         op[t].at = "flush", op'[t].at = "log", ins' = ins, del' = del,
         Visible' = (Visible \ del[t]) \cup ins[t]
  PROVE  Store!StoreNext
<1>1. /\ StoreStatus[t] = StatusOf(op[t].at)
      /\ StoreStatus' = [StoreStatus EXCEPT ![t] = StatusOf(op'[t].at)]
  BY StoreStatusIs, StatusMoves, ZenonT(60)
<1>2. StatusOf("flush") = "committing" /\ StatusOf("log") = "committed" BY StatusIs, ZenonT(60) DEF Through
<1>3. Store!Commit(t) BY <1>1, <1>2, ZenonT(60) DEF Store!Commit, Store!Move
<1> QED BY <1>3, ZenonT(60) DEF Store!StoreNext

(* A crash of the engine is one of the store. *)
LEMMA CrashSeen ==
  ASSUME EngineInv, Crash
  PROVE  Store!StoreNext
<1>1. /\ \A x \in Visible' \ Visible : \E t \in Tids : op[t].at \in {"flush", "write"} /\ x \in ins[t]
      /\ \A x \in Visible \ Visible' : \E t \in Tids : op[t].at \in {"flush", "write"} /\ x \in del[t]
      /\ \A t \in Tids : op'[t].at = IF op[t].at \in {"new", "acked", "aborted", "lost", "unlogged"}
                                     THEN op[t].at
                                     ELSE IF op[t].at = "log" THEN "unlogged" ELSE "lost"
  BY CrashKeeps
<1>2. ASSUME NEW t \in Tids
      PROVE  /\ StoreStatus'[t] = IF Store!Active(t) THEN "lost" ELSE StoreStatus[t]
             /\ op[t].at \in {"flush", "write"} => StoreStatus[t] = "committing"
  <2>1. op[t].at \in Places BY ZenonT(60) DEF EngineInv, StorageTypeOK, Ops
  <2>2. StoreStatus[t] = StatusOf(op[t].at) /\ StoreStatus'[t] = StatusOf(op'[t].at) BY StoreStatusIs, ZenonT(60)
  <2>3. CASE op[t].at \in {"new", "acked", "aborted", "lost", "unlogged"}
    <3>1. StoreStatus'[t] = StoreStatus[t] BY <2>2, <2>3, <1>1, ZenonT(60)
    <3>2. StoreStatus[t] \notin {"running", "committing"} BY <2>2, <2>3, ZenonT(60) DEF StatusOf
    <3> QED BY <2>3, <3>1, <3>2, ZenonT(60) DEF Store!Active
  <2>4. CASE op[t].at = "log"
    <3>1. op'[t].at = "unlogged" BY <2>4, <1>1, ZenonT(60)
    <3>2. StatusOf("unlogged") = "committed" /\ StatusOf("log") = "committed" BY StatusIs, ZenonT(60) DEF Through
    <3> QED BY <2>2, <2>4, <3>1, <3>2, ZenonT(60) DEF Store!Active
  <2>5. CASE op[t].at \notin {"new", "acked", "aborted", "lost", "unlogged", "log"}
    <3>1. op'[t].at = "lost" BY <2>5, <1>1, ZenonT(60)
    <3>2. StatusOf("lost") = "lost" BY StatusIs, ZenonT(60)
    <3>3. /\ StatusOf(op[t].at) \in {"running", "committing"}
          /\ op[t].at \in {"flush", "write"} => StatusOf(op[t].at) = "committing"
      BY <2>5, ZenonT(60) DEF StatusOf
    <3> QED BY <2>2, <3>1, <3>2, <3>3, ZenonT(60) DEF Store!Active
  <2> QED BY <2>3, <2>4, <2>5, ZenonT(60)
<1>3. StoreStatus' = [t \in Tids |-> IF Store!Active(t) THEN "lost" ELSE StoreStatus[t]]
  BY <1>2, StoreStatusIs, ZenonT(60)
<1>4. Visible' \in SUBSET Tuples
  <2>1. \A p \in Pages : disk'[p] \in SUBSET Tuples /\ (Cached(p)' => pool'[p].before \in SUBSET Tuples)
    BY CrashKeeps, ZenonT(60) DEF EngineInv, StorageTypeOK, PageObjects, Cached
  <2> QED BY <2>1, ZenonT(60) DEF Visible, Image
<1>5. ins' = ins /\ del' = del BY ZenonT(60) DEF Crash
<1>6. /\ Visible' \ Visible \subseteq UNION {ins[t] : t \in {u \in Tids : StoreStatus[u] = "committing"}}
      /\ Visible \ Visible' \subseteq UNION {del[t] : t \in {u \in Tids : StoreStatus[u] = "committing"}}
  BY <1>1, <1>2, ZenonT(60)
<1>7. Store!Crash BY <1>3, <1>4, <1>5, <1>6, ZenonT(60) DEF Store!Crash
<1> QED BY <1>7 DEF Store!StoreNext

(* Where a session at work may be without anybody outside noticing. *)
Busy == InStatement \cup {"idle", "undo"}

(* A session that goes on with its statement or its abort. *)
LEMMA BusyUnseen ==
  ASSUME NEW t \in Tids, op \in [Tids -> Ops], NEW o, op' = [op EXCEPT ![t] = o],
         op[t].at \in Busy, o.at \in Busy,
         Visible' = Visible, ins' = ins, del' = del
  PROVE  UNCHANGED Store!storeVars
<1>1. op'[t] = o /\ \A u \in Tids : u # t => op'[u].at = op[u].at BY ZenonT(60)
<1>2. StatusOf(op'[t].at) = StatusOf(op[t].at) BY <1>1, StatusIs, ZenonT(60) DEF Busy
<1> QED BY <1>1, <1>2, Unseen, ZenonT(60)

(* The steps of a statement. *)
LEMMA StatementSeen ==
  ASSUME EngineInv, NEW t \in Tids,
         Statement(t) \/ Lock(t) \/ Fetch(t) \/ NextPage(t) \/ Grow(t) \/ Put(t)
  PROVE  UNCHANGED Store!storeVars
<1>s. Session(t) /\ StorageTypeOK /\ LockInv /\ op \in [Tids -> Ops] /\ op[t] \in Ops
  BY DEF EngineInv, StorageTypeOK
<1>g. {"idle", "lock", "fetch", "full", "grow", "edit", "put"} \subseteq Busy
  BY DEF Busy, InStatement
<1>p. {"idle", "lock", "fetch", "full", "grow", "edit", "put"} \subseteq Places BY ZenonT(60) DEF Places
<1>v. Visible' = Visible
  BY StatementKeeps, LockKeeps, FetchKeeps, NextPageKeeps, GrowKeeps, PutKeeps, ZenonT(60)
<1>e. ins' = ins /\ del' = del
  BY DEF Statement, StartStatement, Lock, Fetch, NextPage, Grow, Put
<1>1. CASE Statement(t)
  <2>1. PICK o : /\ op' = [op EXCEPT ![t] = o]
                 /\ \/ o = Visit([At("idle") EXCEPT !.kind = "insert", !.tup = <<t, calls[t] + 1>>], t, 0)
                    \/ \E p \in 0..(numPages - 1) : o = Visit([At("idle") EXCEPT !.kind = "scan"], t, p)
    BY <1>1 DEF Statement, StartStatement
  <2>2. o.at = "lock" BY <2>1, ZenonT(60) DEF Visit, At
  <2>3. op[t].at = "idle" BY <1>1, ZenonT(60) DEF Statement, StartStatement, Running
  <2> QED BY <2>1, <2>2, <2>3, <1>s, <1>g, <1>v, <1>e, BusyUnseen, ZenonT(60)
<1>2. CASE Lock(t)
  <2>1. PICK a : /\ a = IF waitingFor'[t] = NoPage /\ phase'[t] = "active" THEN "fetch" ELSE "lock"
    OBVIOUS
  <2>2. op' = [op EXCEPT ![t].at = a] /\ op[t].at = "lock" BY <1>2, <2>1 DEF Lock, Running
  <2>3. PICK o : o = [op[t] EXCEPT !.at = a] BY ZenonT(60)
  <2>4. o.at = a /\ a \in {"lock", "fetch"} BY <2>1, <2>3, <1>s, <1>p, MovesIs
  <2>5. op' = [op EXCEPT ![t] = o] BY <2>2, <2>3, <1>s
  <2>6. op[t].at \in Busy /\ o.at \in Busy BY <2>2, <2>4, <1>g
  <2> QED BY <2>5, <2>6, <1>s, <1>v, <1>e, BusyUnseen, ZenonT(60)
<1>3. CASE Fetch(t)
  <2>1. op[t].at = "fetch" /\ op[t].kind \in {"insert", "scan"} /\ op[t].page \in Pages
    BY <1>3, <1>s, ZenonT(60) DEF Fetch, Running, Session, InStatement, Ops
  <2>2. PICK o \in Onward(op[t], pool'[op[t].page]) : op' = [op EXCEPT ![t] = o] BY <1>3, ZenonT(60) DEF Fetch
  <2>3. StorageTypeOK' /\ op[t].page \in DOMAIN pool'
    <3>1. EngineInv' BY <1>3, FetchKeeps, ZenonT(60)
    <3> QED BY <3>1, <1>3, ZenonT(60) DEF EngineInv, Fetch, Cached, With
  <2>4. pool'[op[t].page] \in PageObjects BY <2>3, ZenonT(60) DEF StorageTypeOK
  <2>5. o = At("idle") \/ o.at \in {"edit", "lock", "full"} BY <1>s, <2>1, <2>2, <2>4, OnwardIs
  <2>6. At("idle").at = "idle" BY ZenonT(60) DEF At
  <2> QED BY <2>1, <2>2, <2>5, <2>6, <1>s, <1>g, <1>v, <1>e, BusyUnseen, ZenonT(60)
<1>4. CASE NextPage(t)
  <2>1. op[t].at = "full" BY <1>4 DEF NextPage, Running
  <2>2. PICK o : /\ op' = [op EXCEPT ![t] = o]
                 /\ o = IF op[t].page + 1 < numPages THEN Visit(op[t], t, op[t].page + 1)
                        ELSE [op[t] EXCEPT !.at = "grow"]
    BY <1>4, <1>s, ZenonT(60) DEF NextPage
  <2>3. o.at \in {"lock", "grow"} BY <2>2, <1>s DEF Visit, Ops
  <2> QED BY <2>1, <2>2, <2>3, <1>s, <1>g, <1>v, <1>e, BusyUnseen, ZenonT(60)
<1>5. CASE Grow(t)
  <2>1. op[t].at = "grow" BY <1>5 DEF Grow, Running
  <2>2. PICK o : o = [op[t] EXCEPT !.at = "lock", !.page = numPages, !.ex = TRUE] OBVIOUS
  <2>3. op' = [op EXCEPT ![t] = o] BY <1>5, <2>2, <1>s, ZenonT(60) DEF Grow
  <2>4. o.at = "lock" BY <2>2, <1>s DEF Ops
  <2> QED BY <2>1, <2>3, <2>4, <1>s, <1>g, <1>v, <1>e, BusyUnseen, ZenonT(60)
<1>6. CASE Put(t)
  <2>1. op[t].at = "put" /\ op' = [op EXCEPT ![t] = At("idle")] /\ At("idle").at = "idle"
    BY <1>6, ZenonT(60) DEF Put, Running, At
  <2> QED BY <2>1, <1>s, <1>g, <1>v, <1>e, BusyUnseen, ZenonT(60)
<1> QED BY <1>1, <1>2, <1>3, <1>4, <1>5, <1>6, ZenonT(60)

(* The other steps nobody sees: a statement fails, a page is logged or     *)
(* written, the commit record follows, an abort undoes what it logged.     *)
LEMMA InnerSeen ==
  ASSUME EngineInv, NEW t \in Tids,
         \/ FetchFails(t) \/ EditFails(t) \/ (\E p \in Pages : logWrite(t, p)) \/ writePage(t)
         \/ logCommit(t) \/ logAbort(t)
  PROVE  UNCHANGED Store!storeVars
<1>s. Session(t) /\ StorageTypeOK /\ LockInv /\ op \in [Tids -> Ops] /\ op[t] \in Ops
  BY ZenonT(60) DEF EngineInv, StorageTypeOK
<1>v. Visible' = Visible
  BY FailKeeps, LogWriteKeeps, WritePageKeeps, LogCommitKeeps, LogAbortKeeps, ZenonT(60)
<1>e. ins' = ins /\ del' = del
  BY ZenonT(60) DEF FetchFails, EditFails, storageVars, logWrite, writePage, logCommit, logAbort
<1>1. CASE FetchFails(t) \/ EditFails(t)
  <2>1. op' = op BY <1>1, ZenonT(60) DEF FetchFails, EditFails, storageVars
  <2> QED BY <2>1, <1>v, <1>e, Unseen
<1>2. CASE \E p \in Pages : logWrite(t, p)
  <2>1. op[t].at = "flush" /\ op'[t].at = "write" /\ \A u \in Tids : u # t => op'[u].at = op[u].at
    BY <1>2, <1>s, ZenonT(60) DEF logWrite, Running, Ops
  <2>2. StatusOf(op'[t].at) = StatusOf(op[t].at) BY <2>1, StatusIs, ZenonT(60)
  <2> QED BY <2>1, <2>2, <1>v, <1>e, Unseen, ZenonT(60)
<1>3. CASE writePage(t)
  <2>1. op[t].at = "write" /\ op'[t].at = "flush" /\ \A u \in Tids : u # t => op'[u].at = op[u].at
    BY <1>3, <1>s, ZenonT(60) DEF writePage, Running, Go, Ops
  <2>2. StatusOf(op'[t].at) = StatusOf(op[t].at) BY <2>1, StatusIs, ZenonT(60)
  <2> QED BY <2>1, <2>2, <1>v, <1>e, Unseen, ZenonT(60)
<1>4. CASE logCommit(t)
  <2>1. op[t].at = "log" /\ op'[t].at = "acked" /\ \A u \in Tids : u # t => op'[u].at = op[u].at
    BY <1>4, <1>s, ZenonT(60) DEF logCommit, Go, Ops
  <2>2. StatusOf(op'[t].at) = StatusOf(op[t].at) BY <2>1, StatusIs, ZenonT(60) DEF Through
  <2> QED BY <2>1, <2>2, <1>v, <1>e, Unseen, ZenonT(60)
<1>5. CASE logAbort(t)
  <2>1. op' = [op EXCEPT ![t] = At("undo")] /\ At("undo").at = "undo" BY <1>5 DEF logAbort, At
  <2>2. op[t].at \in Busy
    <3>1. phase[t] = "aborting" \/ op[t].at = "idle" BY <1>5, ZenonT(60) DEF logAbort, Running
    <3>2. op[t].at \in Places BY <1>s, ZenonT(60) DEF Ops
    <3>3. /\ op[t].at \in {"new", "idle", "full", "grow", "put", "flush", "write"} => phase[t] = "active"
          /\ phase[t] = "done" <=> op[t].at \in Over
      BY <1>s, ZenonT(60) DEF Session
    <3>4. op[t].at \notin {"new", "flush", "write"} \cup Over BY <3>1, <3>3, ZenonT(60) DEF Over
    <3> QED BY <3>2, <3>4, ZenonT(60) DEF Busy, InStatement, Places, Over
  <2>3. "undo" \in Busy BY DEF Busy
  <2> QED BY <2>1, <2>2, <2>3, <1>s, <1>v, <1>e, BusyUnseen, ZenonT(60)
<1> QED BY <1>1, <1>2, <1>3, <1>4, <1>5, ZenonT(60)

(* Every step of the engine is a step of the store, or is not seen. *)
LEMMA StepSeen == EngineInv /\ [Next]_engineVars => [Store!StoreNext]_(Store!storeVars)
<1> SUFFICES ASSUME EngineInv, [Next]_engineVars
             PROVE  Store!StoreNext \/ UNCHANGED Store!storeVars
  BY ZenonT(60)
<1>o. op \in [Tids -> Ops] BY DEF EngineInv, StorageTypeOK
<1>1. CASE UNCHANGED engineVars
  <2>1. Visible' = Visible /\ ins' = ins /\ del' = del /\ op' = op
    BY <1>1, StutterKeeps, ZenonT(60) DEF engineVars, storageVars
  <2> QED BY <2>1, ZenonT(60) DEF Store!storeVars, StoreStatus
<1>2. CASE Crash BY <1>2, CrashSeen, ZenonT(60)
<1>3. CASE Start
  <2>1. Visible' = Visible /\ ins' = ins /\ del' = del /\ op' = op BY <1>3, StartKeeps, ZenonT(60) DEF Start
  <2> QED BY <2>1 DEF Store!storeVars, StoreStatus
<1>4. ASSUME NEW t \in Tids, Step(t) PROVE Store!StoreNext \/ UNCHANGED Store!storeVars
  <2>1. CASE logXactionBegin(t)
    <3>1. /\ op[t].at = "new" /\ op'[t].at = "idle" /\ ins' = ins /\ del' = del
          /\ \A u \in Tids : u # t => op'[u].at = op[u].at
      BY <2>1, <1>o, ZenonT(60) DEF logXactionBegin, Running, Go, Ops
    <3>2. Visible' = Visible BY <2>1, BeginKeeps, ZenonT(60)
    <3> QED BY <3>1, <3>2, Seen, ZenonT(60)
  <2>2. CASE Statement(t) \/ Lock(t) \/ Fetch(t) \/ NextPage(t) \/ Grow(t) \/ Put(t)
    BY <2>2, StatementSeen, ZenonT(60)
  <2>3. CASE Edit(t)
    <3>1. PICK x \in Tuples : EditDoes(t, x) BY <2>3, EditKeeps
    <3>2. Visible' = Visible /\ op[t].at = "edit" /\ op' = [op EXCEPT ![t].at = "put"]
      BY <2>3, EditKeeps
    <3> QED BY <3>1, <3>2, <1>o, EditSeen, ZenonT(60)
  <2>4. CASE StartCommit(t)
    <3>1. /\ op[t].at = "idle" /\ op'[t].at = "flush" /\ ins' = ins /\ del' = del
          /\ \A u \in Tids : u # t => op'[u].at = op[u].at
      BY <2>4, <1>o, ZenonT(60) DEF StartCommit, Running, Go, Ops
    <3>2. Visible' = Visible BY <2>4, StartCommitKeeps
    <3> QED BY <3>1, <3>2, Seen, ZenonT(60)
  <2>5. CASE transactionComplete(t)
    <3>1. /\ op[t].at = "flush" /\ op'[t].at = "log" /\ ins' = ins /\ del' = del
          /\ \A u \in Tids : u # t => op'[u].at = op[u].at
      BY <2>5, CompleteIs, ZenonT(60)
    <3>2. Visible' = (Visible \ del[t]) \cup ins[t] BY <2>5, CompleteKeeps, ZenonT(60)
    <3> QED BY <3>1, <3>2, CompleteSeen, ZenonT(60)
  <2>6. CASE discardPages(t)
    <3>1. /\ op[t].at = "undo" /\ op' = [op EXCEPT ![t] = At("aborted")] /\ ins' = ins /\ del' = del
      BY <2>6, ZenonT(60) DEF discardPages
    <3>2. At("aborted").at = "aborted" BY ZenonT(60) DEF At
    <3>3. op'[t].at = "aborted" /\ \A u \in Tids : u # t => op'[u].at = op[u].at
      BY <3>1, <3>2, <1>o, ZenonT(60)
    <3>4. Visible' = Visible BY <2>6, DiscardKeeps
    <3> QED BY <3>1, <3>3, <3>4, Seen, ZenonT(60)
  <2>7. CASE \/ FetchFails(t) \/ EditFails(t) \/ (\E p \in Pages : logWrite(t, p)) \/ writePage(t)
             \/ logCommit(t) \/ logAbort(t)
    BY <2>7, InnerSeen, ZenonT(60)
  <2> QED BY <1>4, <2>1, <2>2, <2>3, <2>4, <2>5, <2>6, <2>7, ZenonT(60) DEF Step
<1> QED BY <1>1, <1>2, <1>3, <1>4, ZenonT(60) DEF Next

(* The engine starts as a store may start. *)
LEMMA InitSeen == Init => Store!StoreInit
<1> SUFFICES ASSUME Init PROVE Store!StoreInit OBVIOUS
<1>1. EngineInv BY InitEngine, ZenonT(60)
<1>2. Visible \in SUBSET Tuples
  <2>1. \A p \in Pages : Image(p) \in SUBSET Tuples
    BY <1>1, ZenonT(60) DEF EngineInv, StorageTypeOK, Image, Cached, PageObjects
  <2> QED BY <2>1, ZenonT(60) DEF Visible
<1>3. \A t \in Tids : op[t].at = "new" BY ZenonT(60) DEF Init, At
<1>4. StatusOf("new") = "new" BY StatusIs, ZenonT(60)
<1>5. StoreStatus = [t \in Tids |-> "new"] BY <1>3, <1>4, StoreStatusIs, ZenonT(60)
<1> QED BY <1>2, <1>5, ZenonT(60) DEF Init, Store!StoreInit

(* BufferPool, LogFile, HeapFile and the page locks together keep what     *)
(* TransactionalStore promises: a commit or an abort takes effect whole    *)
(* and in isolation, however sessions interleave and pages are evicted,    *)
(* and a process that is killed loses no acknowledged commit and keeps     *)
(* nothing of what was still running.  Of a commit in progress when it is  *)
(* killed TransactionalStore allows a part to stay (CrashUndone).          *)
THEOREM StorageImplements == Spec => KeepsPromise
BY EngineAlways, StepSeen, InitSeen, PTL DEF Spec, KeepsPromise, Store!StoreSpec

=============================================================================
