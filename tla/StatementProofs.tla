-------------------------- MODULE StatementProofs --------------------------
(* The steps that touch pages and the log keep what the engine rests on. *)
EXTENDS EngineProofs

(* Commit takes the buffer pool's monitor. *)
LEMMA StartCommitKeeps ==
  ASSUME EngineInv, NEW t \in Tids, StartCommit(t)
  PROVE  EngineInv' /\ Visible' = Visible
<1>s. Session(t) /\ StorageTypeOK /\ LockInv BY DEF EngineInv
<1>l. LockInv' BY <1>s, LocksStep DEF Step
<1>n. NoTid \notin Tids BY StorageAssumption
<1>a. /\ up /\ op[t].at = "idle" /\ phase[t] = "active" /\ mon = NoTid /\ mon' = t
      /\ op' = [op EXCEPT ![t].at = "flush"]
      /\ UNCHANGED <<lockVars, pool, disk, numPages, log, obj, ins, del, up, restarts>>
  BY DEF StartCommit, Running, Go
<1>x. PICK o : o = [op[t] EXCEPT !.at = "flush"] BY ZenonT(60)
<1>o. o \in Ops /\ o.at = "flush" /\ o.page = op[t].page
  BY <1>s, <1>x, MovesIs DEF StorageTypeOK, Places
<1>c. /\ Calm(t) /\ op'[t] = o /\ op' \in [Tids -> Ops]
      /\ \A u \in Tids \ {t} : op'[u] = op[u]
  <2>1. op' = [op EXCEPT ![t] = o] BY <1>a, <1>x
  <2> QED BY <2>1, <1>a, <1>o, <1>n, SessionMoves, ZenonT(60) DEF Over, Through
<1>t. StorageTypeOK' BY <1>a, <1>c, <1>s, ZenonT(60) DEF StorageTypeOK
<1>1. Session(t)' BY <1>a, <1>c, <1>o, <1>s, ZenonT(60) DEF Session, lockVars, Over, InStatement
<1>2. NewTuple(t)' BY <1>c, <1>o DEF NewTuple, Inserting, InStatement
<1>3. LogRight' BY <1>a, <1>o, <1>c, <1>t, CalmLog, ZenonT(60)
<1> QED BY <1>c, <1>l, <1>t, <1>1, <1>2, <1>3, CalmStep

(* A transaction that is not in its commit has no update record, so that   *)
(* rollback finds nothing to undo: the page locks and NO STEAL have kept   *)
(* its pages out of the file.                                              *)
LEMMA LogAbortKeeps ==
  ASSUME EngineInv, NEW t \in Tids, logAbort(t)
  PROVE  EngineInv' /\ Visible' = Visible
<1>s. Session(t) /\ StorageTypeOK /\ LockInv BY DEF EngineInv
<1>l. LockInv' BY <1>s, LocksStep DEF Step
<1>n. NoTid \notin Tids BY StorageAssumption
<1>a. /\ up /\ mon = NoTid /\ (phase[t] = "aborting" \/ (op[t].at = "idle" /\ phase[t] = "active"))
      /\ log' = Append(log, Record("ABORT", t))
      /\ op' = [op EXCEPT ![t] = At("undo")] /\ obj' = [obj EXCEPT ![t] = NoObject]
      /\ UNCHANGED <<lockVars, numPages, mon, ins, del, up, restarts>>
  BY ZenonT(60) DEF logAbort, Running
<1>b. /\ op[t].at \notin {"flush", "write", "put", "new"} \cup Over /\ phase[t] # "done"
      /\ waitingFor[t] = NoPage
  BY <1>a, <1>s DEF Session, LockInv, LockTypeOK
<1>d. Logged(t) = {}
  <2> SUFFICES ASSUME NEW p \in Pages, NEW k \in Updates(log, p), log[k].tid = t PROVE FALSE
    BY DEF Logged
  <2>1. Logs(p) BY <1>a DEF EngineInv, LogRight
  <2> QED BY <2>1, <1>b DEF Logs, Over
<1>e. disk' = disk /\ pool' = pool
  <2>1. disk' = [p \in Pages |-> disk[p]] BY <1>d DEF logAbort
  <2>2. pool' = [p \in DOMAIN pool |-> pool[p]] BY <1>d DEF logAbort, Dropping
  <2> QED BY <2>1, <2>2, <1>s DEF StorageTypeOK
<1>x. PICK o : o = At("undo") OBVIOUS
<1>o. o \in Ops /\ o.at = "undo" /\ o.page = 0 BY <1>x, AtIs DEF Places
<1>j. NoObject \in PageObjects BY FreshIs DEF NoObject
<1>g. obj' \in [Tids -> PageObjects] /\ \A u \in Tids \ {t} : obj'[u] = obj[u]
  BY <1>a, <1>j, <1>s, ZenonT(60) DEF StorageTypeOK
<1>c. /\ Calm(t) /\ op'[t] = o /\ op' \in [Tids -> Ops]
      /\ \A u \in Tids \ {t} : op'[u] = op[u]
  BY <1>a, <1>b, <1>e, <1>g, <1>o, <1>x, <1>n, SessionMoves, ZenonT(60) DEF Over, Through
<1>r. Record("ABORT", t) \in Records /\ Record("ABORT", t).type = "ABORT" BY RecordIs
<1>t. StorageTypeOK'
  <2>1. log' \in Seq(Records) BY <1>a, <1>r, <1>s DEF StorageTypeOK
  <2> QED BY <1>a, <1>c, <1>e, <1>g, <1>s, <2>1 DEF StorageTypeOK
<1>1. Session(t)'
  <2>1. 0 < numPages BY <1>s, PageNumbers DEF StorageTypeOK
  <2> QED BY <1>a, <1>b, <1>c, <1>o, <1>s, <1>n, <2>1, ZenonT(60) DEF Session, lockVars, Over, InStatement
<1>2. NewTuple(t)' BY <1>c, <1>o, ZenonT(60) DEF NewTuple, Inserting, InStatement
<1>3. LogRight' BY <1>a, <1>b, <1>o, <1>c, <1>r, <1>t, CalmLog, ZenonT(60) DEF Over
<1> QED BY <1>c, <1>l, <1>t, <1>1, <1>2, <1>3, CalmStep

(* What the session does with the page. *)
LEMMA OnwardIs ==
  ASSUME NEW o \in Ops, NEW g \in PageObjects, NEW x \in Onward(o, g),
         o.at = "fetch", o.kind \in {"insert", "scan"}
  PROVE  /\ x \in Ops
         /\ \/ x = At("idle") /\ ~o.ex /\ o.kind = "scan"
            \/ /\ x.page = o.page /\ x.kind = o.kind
               /\ \/ o.ex /\ x.at = "edit" /\ x.ex /\ x.tup = o.tup
                  \/ ~o.ex /\ o.kind = "insert" /\ x.at \in {"lock", "full"} /\ x.tup = o.tup
                  \/ ~o.ex /\ o.kind = "scan" /\ x.at = "lock" /\ x.tup \in g.data
<1>1. CASE o.ex
  <2>1. x = [o EXCEPT !.at = "edit"] BY <1>1, ZenonT(60) DEF Onward
  <2> QED BY <1>1, <2>1, ZenonT(60) DEF Ops, Places
<1>2. CASE ~o.ex /\ o.kind = "insert"
  <2>1. x \in {[o EXCEPT !.at = "lock", !.ex = TRUE], [o EXCEPT !.at = "full"]} BY <1>2 DEF Onward
  <2>2. CASE x = [o EXCEPT !.at = "lock", !.ex = TRUE] BY <1>2, <2>2, ZenonT(60) DEF Ops, Places
  <2>3. CASE x = [o EXCEPT !.at = "full"] BY <1>2, <2>3 DEF Ops, Places
  <2> QED BY <2>1, <2>2, <2>3, ZenonT(60)
<1>3. CASE ~o.ex /\ o.kind = "scan"
  <2>1. x = At("idle") \/ \E y \in g.data : x = [o EXCEPT !.at = "lock", !.ex = TRUE, !.tup = y]
    BY <1>3, ZenonT(60) DEF Onward
  <2>2. CASE x = At("idle")
    <3>1. x \in Ops BY <2>2, AtIs, ZenonT(60) DEF Places
    <3> QED BY <1>3, <2>2, <3>1, ZenonT(60)
  <2>3. CASE \E y \in g.data : x = [o EXCEPT !.at = "lock", !.ex = TRUE, !.tup = y]
    <3>1. PICK y \in g.data : x = [o EXCEPT !.at = "lock", !.ex = TRUE, !.tup = y] BY <2>3, ZenonT(60)
    <3>2. y \in Tuples BY DEF PageObjects
    <3> QED BY <1>3, <3>1, <3>2, ZenonT(60) DEF Ops, Places
  <2> QED BY <2>1, <2>2, <2>3, ZenonT(60)
<1>4. o.ex \in BOOLEAN BY ZenonT(60) DEF Ops
<1> QED BY <1>1, <1>2, <1>3, <1>4, ZenonT(60)

(* Reading a page in evicts clean pages only, and shows every session what *)
(* it saw before.                                                          *)
LEMMA FetchPages ==
  ASSUME EngineInv, NEW t \in Tids, Fetch(t), NEW p, p = op[t].page
  PROVE  /\ \A q \in Pages : Loose(q)
         /\ Cached(p)' /\ pool'[p] \in PageObjects
         /\ pool'[p].data = Cur(p) /\ pool'[p].before = Image(p)
         /\ DOMAIN pool' \subseteq Pages /\ pool' \in [DOMAIN pool' -> PageObjects]
<1>s. Session(t) /\ StorageTypeOK /\ LockInv /\ op[t] \in Ops BY ZenonT(60) DEF EngineInv, StorageTypeOK
<1>a. /\ op[t].at = "fetch" /\ mon = NoTid /\ disk' = disk
      /\ \/ Cached(p) /\ pool' = pool
         \/ ~Cached(p) /\ \E rest \in Evicted : pool' = With(rest, p, Fresh(disk[p]))
  BY ZenonT(60) DEF Fetch, Running
<1>p. p \in Pages /\ p < numPages /\ granted[t][p] # "none" BY <1>a, <1>s, ZenonT(60) DEF Session, Ops
<1>1. CASE Cached(p) /\ pool' = pool
  <2>1. \A q \in Pages : Loose(q) BY <1>1, <1>a, StillPages, ZenonT(60)
  <2> QED BY <1>1, <1>s, <2>1, ZenonT(60) DEF Cached, Cur, Image, StorageTypeOK
<1>2. CASE ~Cached(p) /\ \E rest \in Evicted : pool' = With(rest, p, Fresh(disk[p]))
  <2>1. PICK rest \in Evicted : pool' = With(rest, p, Fresh(disk[p])) BY <1>2
  <2>2. /\ DOMAIN rest \subseteq DOMAIN pool /\ \A q \in DOMAIN rest : rest[q] = pool[q]
        /\ \A q \in DOMAIN pool \ DOMAIN rest : pool[q].dirty = NoTid
    BY ZenonT(60) DEF Evicted, Clean, Dropping
  <2>d. disk[p] \in SUBSET Tuples BY <1>p, <1>s DEF StorageTypeOK
  <2>3. /\ Fresh(disk[p]) \in PageObjects /\ Fresh(disk[p]).data = disk[p]
        /\ Fresh(disk[p]).before = disk[p]
    BY <2>d, FreshIs
  <2>4. /\ DOMAIN pool' = DOMAIN rest \cup {p} /\ pool'[p] = Fresh(disk[p])
        /\ \A q \in DOMAIN rest \ {p} : pool'[q] = rest[q]
        /\ pool' = [q \in DOMAIN pool' |-> pool'[q]]
    BY <2>1 DEF With
  <2>5. ASSUME NEW q \in Pages PROVE Loose(q)
    <3>1. CASE q = p
      <4>1. \A u \in Tids : Writer(u, p) => op[u].at # "put" \/ op[u].page # p
        BY <1>a, <1>p, <1>s, WriterAlone, ZenonT(60)
      <4> QED BY <3>1, <4>1, <2>4, <1>2, <1>a, <1>p, ZenonT(60) DEF Loose, Cached
    <3>2. CASE q # p /\ q \in DOMAIN rest BY <3>2, <2>2, <2>4, <1>a, ZenonT(60) DEF Loose, Cached
    <3>3. CASE q # p /\ q \notin DOMAIN rest BY <3>3, <2>2, <2>4, <1>a, ZenonT(60) DEF Loose, Cached
    <3> QED BY <3>1, <3>2, <3>3, ZenonT(60)
  <2>6. \A q \in DOMAIN pool' : q \in Pages /\ pool'[q] \in PageObjects
    BY <2>2, <2>3, <2>4, <1>p, <1>s, ZenonT(60) DEF StorageTypeOK
  <2> QED BY <1>2, <2>3, <2>4, <2>5, <2>6, ZenonT(60) DEF Cached, Cur, Image
<1> QED BY <1>1, <1>2, <1>a, ZenonT(60)

(* getPage returns the page. *)
LEMMA FetchKeeps ==
  ASSUME EngineInv, NEW t \in Tids, Fetch(t)
  PROVE  EngineInv' /\ Visible' = Visible
<1>s. Session(t) /\ StorageTypeOK /\ LockInv /\ op[t] \in Ops BY DEF EngineInv, StorageTypeOK
<1>l. LockInv' BY <1>s, LocksStep DEF Step
<1>p. PICK p : p = op[t].page OBVIOUS
<1>a. /\ up /\ op[t].at = "fetch" /\ phase[t] = "active" /\ mon = NoTid
      /\ obj' = IF op[t].ex THEN [obj EXCEPT ![t] = pool'[p]] ELSE obj
      /\ \E o \in Onward(op[t], pool'[p]) : op' = [op EXCEPT ![t] = o]
      /\ UNCHANGED <<lockVars, disk, numPages, log, mon, ins, del, up, restarts>>
  BY <1>p, ZenonT(60) DEF Fetch, Running
<1>b. UNCHANGED <<holders, exclusive, waitingFor, want, phase, granted, calls>>
  BY <1>a DEF lockVars
<1>m. calls \in [Tids -> Nat] /\ numPages \in Nat /\ 0 < numPages
  BY <1>s, LockAssumption, PageNumbers DEF LockInv, LockTypeOK, StorageTypeOK
<1>g. /\ \A q \in Pages : Loose(q)
      /\ Cached(p)' /\ pool'[p] \in PageObjects
      /\ pool'[p].data = Cur(p) /\ pool'[p].before = Image(p)
      /\ DOMAIN pool' \subseteq Pages /\ pool' \in [DOMAIN pool' -> PageObjects]
  BY <1>p, FetchPages
<1>h. Cur(p)' = Cur(p) /\ Image(p)' = Image(p) /\ pool'[p].data = Cur(p)' /\ pool'[p].before = Image(p)'
  BY <1>g DEF Cur, Image, Cached
<1>i. /\ op[t].kind \in {"insert", "scan"} /\ p < numPages /\ mon # t /\ waitingFor[t] = NoPage
      /\ granted[t][p] # "none" /\ (op[t].ex => granted[t][p] = "X")
      /\ op[t].ex /\ op[t].kind = "scan" => op[t].tup \in Cur(p)
  BY <1>a, <1>p, <1>s DEF Session, InStatement, Writer
<1>x. PICK o \in Onward(op[t], pool'[p]) : op' = [op EXCEPT ![t] = o] BY <1>a, ZenonT(60)
<1>o. /\ o \in Ops
      /\ \/ o = At("idle") /\ ~op[t].ex /\ op[t].kind = "scan"
         \/ /\ o.page = p /\ o.kind = op[t].kind
            /\ \/ op[t].ex /\ o.at = "edit" /\ o.ex /\ o.tup = op[t].tup
               \/ ~op[t].ex /\ o.kind = "insert" /\ o.at \in {"lock", "full"} /\ o.tup = op[t].tup
               \/ ~op[t].ex /\ o.kind = "scan" /\ o.at = "lock" /\ o.tup \in Cur(p)
  BY <1>s, <1>p, <1>a, <1>g, <1>i, <1>x, OnwardIs
<1>y. At("idle").at = "idle" /\ At("idle").page = 0 /\ At("idle").kind = "none" BY AtIs DEF Places
<1>z. o.at \in {"idle", "edit", "lock", "full"} BY <1>o, <1>y
<1>f. op'[t] = o /\ op' \in [Tids -> Ops] /\ \A u \in Tids \ {t} : op'[u] = op[u]
  BY <1>x, <1>o, <1>s, ZenonT(60) DEF StorageTypeOK
<1>j. /\ obj' \in [Tids -> PageObjects] /\ \A u \in Tids \ {t} : obj'[u] = obj[u]
      /\ op[t].ex => obj'[t] = pool'[p]
  BY <1>a, <1>g, <1>s, ZenonT(60) DEF StorageTypeOK
<1>t. StorageTypeOK' BY <1>a, <1>f, <1>g, <1>j, <1>s, ZenonT(60) DEF StorageTypeOK
<1>c. Calm(t)
  <2>2. numPages <= numPages' /\ calls[t] <= calls'[t] BY <1>a, <1>b, <1>m
  <2>3. Others(t) BY <1>a, <1>b, <1>f, <1>j, ZenonT(60) DEF Others
  <2>4. \A q \in Pages : Writer(t, q) => Writer(t, q)' BY <1>b DEF Writer
  <2> QED BY <1>a, <1>f, <1>z, <1>g, <2>2, <2>3, <2>4, <1>i, ZenonT(60) DEF Calm, Over, Through
<1>1. Session(t)'
  <2>1. CASE o = At("idle")
    BY <2>1, <1>y, <1>a, <1>b, <1>f, <1>i, <1>m, ZenonT(60) DEF Session, Over, InStatement
  <2>2. CASE o.page = p /\ o.kind = op[t].kind
    <3>1. Image(op[t].page)' = Image(p)' /\ Cur(op[t].page)' = Cur(p)' BY <1>f, <2>2, ZenonT(60) DEF Image, Cur, Cached
    <3>2. CASE o.at = "edit"
      <4>1. op[t].ex /\ o.ex /\ o.tup = op[t].tup BY <3>2, <2>2, <1>o, <1>y, ZenonT(60)
      <4> QED BY <2>2, <3>1, <3>2, <4>1, <1>a, <1>b, <1>f, <1>i, <1>h, <1>j, ZenonT(60)
          DEF Session, Over, InStatement, Writer
    <3>3. CASE o.at = "full"
      <4>1. o.kind = "insert" BY <3>3, <2>2, <1>o, <1>y, ZenonT(60)
      <4> QED BY <2>2, <3>3, <4>1, <1>a, <1>b, <1>f, <1>i, ZenonT(60) DEF Session, Over, InStatement
    <3>4. CASE o.at = "lock"
      <4>1. o.kind = "scan" => o.tup \in Cur(p)' BY <3>4, <2>2, <1>o, <1>y, <1>h, ZenonT(60)
      <4> QED BY <2>2, <3>1, <3>4, <4>1, <1>a, <1>b, <1>f, <1>i, ZenonT(60) DEF Session, Over, InStatement
    <3>5. CASE o.at = "idle" BY <3>5, <2>2, <1>o, <1>y, <1>i, <2>1, ZenonT(60)
    <3> QED BY <3>2, <3>3, <3>4, <3>5, <1>z, ZenonT(60)
  <2> QED BY <2>1, <2>2, <1>o, ZenonT(60)
<1>2. NewTuple(t)'
  <2> SUFFICES ASSUME Inserting(t)' PROVE NewTuple(t)' BY DEF NewTuple
  <2>0. o.kind = "insert" BY <1>f DEF Inserting
  <2>z. op[t].kind = "insert" /\ o.tup = op[t].tup BY <2>0, <1>o, <1>y
  <2>1. NewTuple(t) /\ Inserting(t) BY <1>a, <2>z, ZenonT(60) DEF EngineInv, Inserting, InStatement
  <2>2. PICK k \in 1..MaxCalls : op[t].tup = <<t, k>> /\ k <= calls[t]
    BY <2>1, <1>a DEF NewTuple
  <2>3. k <= calls'[t] /\ k <= calls'[t] + 1 BY <2>2, <1>b, <1>m
  <2>4. PICK x : x = op[t].tup OBVIOUS
  <2>5. ~Used(x)' BY <2>1, <2>4, <1>c, <1>l, CalmData, ZenonT(60) DEF NewTuple
  <2>6. Used(op[t].tup)' <=> Used(x)' BY <2>4, <2>z, <1>f DEF Used, On
  <2> QED BY <2>2, <2>3, <2>5, <2>6, <2>z, <1>f, ZenonT(60) DEF NewTuple
<1>3. LogRight' BY <1>a, <1>f, <1>z, <1>c, <1>t, CalmLog, ZenonT(60)
<1> QED BY <1>c, <1>l, <1>t, <1>1, <1>2, <1>3, CalmStep, ZenonT(60)

-----------------------------------------------------------------------------
(* The records of a commit. *)

(* A page whose records stay the same, when t goes from flush to write or  *)
(* from log to acked.                                                      *)
LEMMA LogsStay ==
  ASSUME EngineInv, up, NEW t \in Tids, NEW q \in Pages, NEW o \in Ops,
         op'[t] = o, \A u \in Tids \ {t} : op'[u] = op[u],
         UNCHANGED <<lockVars, pool, disk, ins, del, mon>>,
         Updates(log, q)' = Updates(log, q), \A k : Settles(k, q)' <=> Settles(k, q),
         \A k \in Updates(log, q) : k \in DOMAIN log /\ log'[k] = log[k],
         DOMAIN log \subseteq DOMAIN log', Committed(log) \subseteq Committed(log)',
         \/ op[t].at = "flush" /\ o.at = "write" /\ o.page # q
         \/ op[t].at = "log" /\ o.at = "acked" /\ t \in Committed(log)' /\ mon # t
  PROVE  Logs(q)'
<1>l. Logs(q) BY DEF EngineInv, LogRight
<1>n. NoTid \notin Tids /\ mon \in Tids \cup {NoTid}
  BY StorageAssumption, ZenonT(60) DEF EngineInv, StorageTypeOK
<1>1. \A k \in Updates(log, q) : /\ log[k].tid \in Tids
                                 /\ op[log[k].tid].at \in {"flush", "write", "log", "acked"}
                                 /\ op[log[k].tid].at = "acked" => log[k].tid \in Committed(log)
  BY <1>l, ZenonT(60) DEF Logs
<1>2. \A k \in Updates(log, q)' :
        /\ log'[k].tid \in Tids /\ op'[log'[k].tid].at \in {"flush", "write", "log", "acked"}
        /\ op'[log'[k].tid].at = "acked" => log'[k].tid \in Committed(log)'
  BY <1>1
<1>3. /\ Image(q)' = Image(q) /\ (Cached(q)' <=> Cached(q)) /\ pool' = pool
      /\ \A u : Writer(u, q)' <=> Writer(u, q)
  BY DEF Image, Cached, Writer, lockVars
<1>4. ASSUME NEW k \in Updates(log, q), Settled(log[k], q) PROVE Settled(log[k], q)'
  <2>1. PICK r, u : r = log[k] /\ u = r.tid OBVIOUS
  <2>2. r = log'[k] /\ u \in Tids BY <2>1, <1>1, ZenonT(60)
  <2>3. /\ op'[u].at \in {"flush", "write"} => op[u].at \in {"flush", "write"}
        /\ op'[u].at \in {"log", "acked"} => op[u].at \in {"log", "acked"}
    BY <2>2
  <2>4. Settled(r, q) BY <1>4, <2>1, ZenonT(60)
  <2>5. Settled(r, q)' BY <2>1, <2>3, <2>4, <1>3, ZenonT(60) DEF Settled
  <2>6. Settled(log[k], q)' <=> Settled(r, q)' BY <2>2, ZenonT(60) DEF Settled, Writer
  <2> QED BY <2>5, <2>6, ZenonT(60)
<1>5. ASSUME Updates(log, q)' # {}
      PROVE  \E k \in DOMAIN log' : Settles(k, q)' /\ Settled(log[k], q)'
  <2>1. PICK k \in DOMAIN log : Settles(k, q) /\ Settled(log[k], q) BY <1>5, <1>l, ZenonT(60) DEF Logs
  <2>2. k \in Updates(log, q) BY <2>1, ZenonT(60) DEF Settles
  <2> QED BY <2>1, <2>2, <1>4, ZenonT(60)
<1>6. ASSUME Ahead(q)' PROVE Ahead(q)
  BY <1>6, <1>3, <1>n, ZenonT(60) DEF Ahead
<1>7. ASSUME Ahead(q)' PROVE \E k \in DOMAIN log' : Settles(k, q)' /\ log'[k].tid = mon'
  <2>1. PICK k \in DOMAIN log : Settles(k, q) /\ log[k].tid = mon BY <1>6, <1>7, <1>l, ZenonT(60) DEF Logs
  <2>2. k \in Updates(log, q) BY <2>1 DEF Settles
  <2> QED BY <2>1, <2>2, ZenonT(60)
<1> QED BY <1>2, <1>5, <1>7, ZenonT(60) DEF Logs

(* "the update record must reach disk before the page does": it says what  *)
(* the transaction has done to the page.                                   *)
LEMMA LogWriteKeeps ==
  ASSUME EngineInv, NEW t \in Tids, NEW p \in Pages, logWrite(t, p)
  PROVE  EngineInv' /\ Visible' = Visible
<1>s. Session(t) /\ StorageTypeOK /\ LockInv /\ op[t] \in Ops BY DEF EngineInv, StorageTypeOK
<1>l. LockInv' BY <1>s, LocksStep DEF Step
<1>n. NoTid \notin Tids BY StorageAssumption
<1>r. PICK r : r = [type |-> "UPDATE", tid |-> t, page |-> p,
                    before |-> pool[p].before, after |-> pool[p].data]
  BY ZenonT(60)
<1>a. /\ up /\ op[t].at = "flush" /\ phase[t] = "active"
      /\ Cached(p) /\ pool[p].dirty = t
      /\ log' = Append(log, r)
      /\ op' = [op EXCEPT ![t].at = "write", ![t].page = p]
      /\ UNCHANGED <<lockVars, pool, disk, numPages, obj, mon, ins, del, up, restarts>>
  BY <1>r DEF logWrite, Running, DirtyPages, Cached
<1>g. CachedPage(p) /\ pool[p] \in PageObjects /\ mon = t
  BY <1>a, <1>s DEF EngineInv, Cached, StorageTypeOK, Session
<1>w. Writer(t, p) /\ p < numPages BY <1>g, <1>a, <1>n DEF CachedPage
<1>i. r \in Records /\ r.type = "UPDATE" /\ r.tid = t /\ r.page = p
      /\ r.before = pool[p].before /\ r.after = pool[p].data
  BY <1>r, <1>g DEF Records, PageObjects
<1>x. PICK o : o = [op[t] EXCEPT !.at = "write", !.page = p] OBVIOUS
<1>o. o \in Ops /\ o.at = "write" /\ o.page = p BY <1>s, <1>x, ZenonT(60) DEF Ops, Places
<1>c. /\ Calm(t) /\ op'[t] = o /\ op' \in [Tids -> Ops]
      /\ \A u \in Tids \ {t} : op'[u] = op[u]
  <2>1. op' = [op EXCEPT ![t] = o] BY <1>a, <1>x, ZenonT(60)
  <2> QED BY <2>1, <1>a, <1>o, <1>n, SessionMoves, ZenonT(60) DEF Over, Through
<1>b. log \in Seq(Records) /\ log' \in Seq(Records) /\ DOMAIN log \subseteq DOMAIN log'
  BY <1>a, <1>i, <1>s, Appends DEF StorageTypeOK
<1>t. StorageTypeOK' BY <1>a, <1>b, <1>c, <1>s DEF StorageTypeOK
<1>1. Session(t)'
  <2>1. Cached(op[t].page)' /\ pool'[op'[t].page].dirty = t BY <1>a, <1>c, <1>o, ZenonT(60) DEF Cached
  <2> QED BY <2>1, <1>a, <1>c, <1>o, <1>s, <1>w, <1>g, ZenonT(60) DEF Session, lockVars, Over, InStatement
<1>2. NewTuple(t)' BY <1>c, <1>o DEF NewTuple, Inserting, InStatement
<1>d. PICK n : n = Len(log) + 1 OBVIOUS
<1>u. /\ n \in DOMAIN log' /\ log'[n] = r
      /\ Committed(log)' = Committed(log)
  BY <1>d, <1>a, <1>b, <1>i, Appends, CommitRecord, ZenonT(60)
<1>3. LogRight'
  <2>1. ASSUME NEW q \in Pages, q # p PROVE Logs(q)'
    <3>1. /\ Updates(log, q)' = Updates(log, q) /\ \A k : Settles(k, q)' <=> Settles(k, q)
          /\ \A k \in Updates(log, q) : k \in DOMAIN log /\ log'[k] = log[k]
      BY <2>1, <1>a, <1>b, <1>i, <1>d, UpdateRecord, ZenonT(60)
    <3> QED BY <2>1, <3>1, <1>a, <1>b, <1>c, <1>o, <1>u, LogsStay, ZenonT(60)
  <2>2. Logs(p)'
    <3>1. /\ Updates(log, p)' = Updates(log, p) \cup {n} /\ Settles(n, p)'
          /\ \A k \in Updates(log, p) : k \in DOMAIN log /\ log'[k] = log[k]
      BY <1>a, <1>b, <1>i, <1>d, UpdateRecord, ZenonT(60)
    <3>2. Logs(p) BY <1>a, ZenonT(60) DEF EngineInv, LogRight
    <3>3. ASSUME NEW k \in Updates(log, p)'
          PROVE  /\ log'[k].tid \in Tids /\ op'[log'[k].tid].at \in {"flush", "write", "log", "acked"}
                 /\ op'[log'[k].tid].at = "acked" => log'[k].tid \in Committed(log)'
      <4>1. CASE k = n BY <4>1, <1>u, <1>i, <1>c, <1>o, ZenonT(60)
      <4>2. CASE k \in Updates(log, p)
        <5>1. PICK u : u = log[k].tid BY ZenonT(60)
        <5>2. u \in Tids /\ op[u].at \in {"flush", "write", "log", "acked"}
              /\ (op[u].at = "acked" => u \in Committed(log))
          BY <5>1, <4>2, <3>2, ZenonT(60) DEF Logs
        <5> QED BY <5>1, <5>2, <4>2, <3>1, <1>c, <1>o, <1>u, ZenonT(60)
      <4> QED BY <4>1, <4>2, <3>1, ZenonT(60)
    <3>4. Settled(log[n], p)'
      <4>1. Own(t, p) = pool[p].data /\ Image(p) = pool[p].before
        BY <1>a DEF Own, Cur, Image
      <4>2. Effects(t) /\ op[t].at \notin Over BY <1>a, ZenonT(60) DEF EngineInv, Over
      <4>3. r.after \ r.before \subseteq ins[t] /\ r.before \ r.after \subseteq del[t]
        BY <4>1, <4>2, <1>w, <1>i DEF Effects, Records
      <4>4. Settled(r, p)' BY <4>3, <1>a, <1>c, <1>i, <1>o, <1>w, ZenonT(60) DEF Settled, Writer, lockVars, Cached
      <4>5. Settled(log[n], p)' <=> Settled(r, p)' BY <1>u DEF Settled, Writer
      <4> QED BY <4>4, <4>5
    <3>5. log'[n].tid = mon' BY <1>a, <1>g, <1>i, <1>u
    <3> QED BY <3>1, <3>3, <3>4, <3>5, <1>u, ZenonT(60) DEF Logs
  <2>3. \A u \in Tids \cap Committed(log)' : op'[u].at = "acked"
    <3>1. \A u \in Tids \cap Committed(log) : op[u].at = "acked" BY <1>a, ZenonT(60) DEF EngineInv, LogRight
    <3> QED BY <3>1, <1>u, <1>c, <1>a
  <2> QED BY <2>1, <2>2, <2>3, ZenonT(60) DEF LogRight
<1> QED BY <1>c, <1>l, <1>t, <1>1, <1>2, <1>3, CalmStep, ZenonT(60)

(* The commit record. *)
LEMMA LogCommitKeeps ==
  ASSUME EngineInv, NEW t \in Tids, logCommit(t)
  PROVE  EngineInv' /\ Visible' = Visible
<1>s. Session(t) /\ StorageTypeOK /\ LockInv /\ op[t] \in Ops BY DEF EngineInv, StorageTypeOK
<1>l. LockInv' BY <1>s, LocksStep DEF Step
<1>a. /\ up /\ op[t].at = "log"
      /\ log' = Append(log, Record("COMMIT", t))
      /\ op' = [op EXCEPT ![t].at = "acked"]
      /\ UNCHANGED <<lockVars, pool, disk, numPages, obj, mon, ins, del, up, restarts>>
  BY DEF logCommit, Go
<1>m. mon # t BY <1>a, <1>s DEF Session
<1>x. PICK o : o = [op[t] EXCEPT !.at = "acked"] BY ZenonT(60)
<1>o. o \in Ops /\ o.at = "acked" /\ o.page = op[t].page
  BY <1>s, <1>x, MovesIs DEF StorageTypeOK, Places
<1>c. /\ Calm(t) /\ op'[t] = o /\ op' \in [Tids -> Ops]
      /\ \A u \in Tids \ {t} : op'[u] = op[u]
  <2>1. op' = [op EXCEPT ![t] = o] BY <1>a, <1>x
  <2> QED BY <2>1, <1>a, <1>o, SessionMoves, ZenonT(60) DEF Over, Through
<1>r. Record("COMMIT", t) \in Records /\ Record("COMMIT", t).type = "COMMIT" /\ Record("COMMIT", t).tid = t
  BY RecordIs
<1>b. log \in Seq(Records) /\ log' \in Seq(Records) /\ DOMAIN log \subseteq DOMAIN log'
  BY <1>a, <1>r, <1>s, Appends, ZenonT(60) DEF StorageTypeOK
<1>t. StorageTypeOK' BY <1>a, <1>b, <1>c, <1>s, ZenonT(60) DEF StorageTypeOK
<1>1. Session(t)' BY <1>a, <1>c, <1>o, <1>s, ZenonT(60) DEF Session, lockVars, Over, InStatement
<1>2. NewTuple(t)' BY <1>c, <1>o DEF NewTuple, Inserting, InStatement
<1>u. Committed(log)' = Committed(log) \cup {t} BY <1>a, <1>b, <1>r, CommitRecord, ZenonT(60)
<1>3. LogRight'
  <2>1. ASSUME NEW q \in Pages PROVE Logs(q)'
    <3>1. /\ Updates(log, q)' = Updates(log, q) /\ \A k : Settles(k, q)' <=> Settles(k, q)
          /\ \A k \in Updates(log, q) : k \in DOMAIN log /\ log'[k] = log[k]
      BY <2>1, <1>a, <1>b, <1>r, OtherRecord, ZenonT(60)
    <3> QED BY <2>1, <3>1, <1>a, <1>b, <1>c, <1>o, <1>u, <1>m, LogsStay, ZenonT(60)
  <2>2. \A u \in Tids \cap Committed(log)' : op'[u].at = "acked"
    <3>1. \A u \in Tids \cap Committed(log) : op[u].at = "acked" BY <1>a DEF EngineInv, LogRight
    <3> QED BY <3>1, <1>u, <1>c, <1>o, ZenonT(60)
  <2> QED BY <2>1, <2>2 DEF LogRight
<1> QED BY <1>c, <1>l, <1>t, <1>1, <1>2, <1>3, CalmStep

-----------------------------------------------------------------------------
(* Steps that change a page, of the only session that may. *)

Same(q) ==
  /\ disk'[q] = disk[q] /\ (Cached(q)' <=> Cached(q)) /\ (Cached(q) => pool'[q] = pool[q])

(* A step of the writer t of page p. *)
Touch(t, p) ==
  /\ Others(t) /\ UNCHANGED lockVars
  /\ Writer(t, p) /\ op[t].page = p /\ p < numPages
  /\ \A q \in Pages \ {p} : Same(q)
  /\ Image(p)' = Image(p)
  /\ up /\ up' /\ numPages' = numPages /\ mon' = mon

(* The others, and the other pages. *)
LEMMA TouchOthers ==
  ASSUME EngineInv, NEW t \in Tids, NEW p \in Pages, Touch(t, p)
  PROVE  /\ \A u \in Tids \ {t} : Session(u)'
         /\ \A q \in (DOMAIN pool' \cap Pages) \ {p} : CachedPage(q)'
         /\ Empty'
         /\ \A q \in Pages : Image(q)' = Image(q)
         /\ \A q \in Pages \ {p} : Cur(q)' = Cur(q)
         /\ \A u \in Tids \ {t}, q \in Pages : Writer(u, q) => q # p /\ Own(u, q)' = Own(u, q)
<1>i. LockInv /\ StorageTypeOK /\ \A u \in Tids : Session(u) BY DEF EngineInv
<1>k. \A q \in Pages : Cached(q) => CachedPage(q) BY DEF EngineInv, Cached
<1>n. NoTid \notin Tids BY StorageAssumption
<1>m. numPages \in Nat /\ Pages \subseteq Nat /\ \A u \in Tids : op[u].page \in Pages
  BY <1>i, PageNumbers, ZenonT(60) DEF StorageTypeOK, Ops
<1>a. /\ Others(t) /\ Writer(t, p) /\ op[t].page = p /\ p < numPages
      /\ \A q \in Pages \ {p} : Same(q)
      /\ Image(p)' = Image(p)
      /\ up /\ up' /\ numPages' = numPages /\ mon' = mon
      /\ \A u \in Tids, q \in Pages : Writer(u, q)' <=> Writer(u, q)
  BY ZenonT(60) DEF Touch, lockVars, Writer
<1>1. \A q \in Pages : Image(q)' = Image(q)
  <2>1. \A q \in Pages \ {p} : Image(q)' = Image(q) BY <1>a, ZenonT(60) DEF Same, Image, Cached
  <2> QED BY <2>1, <1>a, ZenonT(60)
<1>2. \A q \in Pages \ {p} : Cur(q)' = Cur(q) BY <1>a, ZenonT(60) DEF Same, Cur, Cached
<1>3. ASSUME NEW u \in Tids \ {t}, NEW q \in Pages, granted[u][q] # "none" PROVE q # p
  BY <1>3, <1>a, <1>i, WriterAlone, ZenonT(60)
<1>4. ASSUME NEW u \in Tids \ {t}, NEW q \in Pages, Writer(u, q)
      PROVE  q # p /\ Own(u, q)' = Own(u, q)
  <2>1. q # p BY <1>3, <1>4, ZenonT(60) DEF Writer
  <2>2. op'[u] = op[u] /\ obj'[u] = obj[u] BY <1>a, ZenonT(60) DEF Others
  <2> QED BY <2>1, <2>2, <1>2, ZenonT(60) DEF Own
<1>5. ASSUME NEW u \in Tids \ {t} PROVE Session(u)'
  <2>p. PICK q : q = op[u].page OBVIOUS
  <2>s. Session(u) /\ q \in Pages /\ q \in Nat BY <2>p, <1>m, <1>i, ZenonT(60)
  <2>1. /\ op'[u] = op[u] /\ obj'[u] = obj[u] /\ phase'[u] = phase[u]
        /\ waitingFor'[u] = waitingFor[u] /\ want'[u] = want[u] /\ granted'[u] = granted[u]
        /\ ins'[u] = ins[u] /\ del'[u] = del[u] /\ (mon' = u <=> mon = u)
    BY <1>a DEF Others
  <2>2. ASSUME granted[u][q] # "none"
        PROVE  /\ Image(q)' = Image(q) /\ (Cur(q)' = Cur(q) \/ op[u].at = "put")
               /\ op[u].at = "put" /\ Cached(q)' => Cached(q) /\ pool'[q].data = pool[q].data
    <3>1. q # p BY <2>2, <2>s, <1>3, ZenonT(60)
    <3>2. Same(q) BY <3>1, <2>s, <1>a, ZenonT(60)
    <3> QED BY <3>1, <3>2, <2>s, <1>1, <1>2, ZenonT(60) DEF Same
  <2>3. ASSUME op[u].at = "write" PROVE Cached(q)' /\ pool'[q].dirty = u
    <3>1. Cached(q) /\ pool[q].dirty = u BY <2>3, <2>p, <2>s, ZenonT(60) DEF Session
    <3>2. Writer(u, q) BY <3>1, <2>s, <1>k, <1>n, ZenonT(60) DEF CachedPage
    <3>3. Same(q) BY <3>2, <1>4, <2>s, <1>a, ZenonT(60)
    <3> QED BY <3>1, <3>3, ZenonT(60) DEF Same
  <2>4. numPages' \in Nat /\ numPages <= numPages' BY <1>a, <1>m
  <2> QED BY <2>p, <2>s, <2>1, <2>2, <2>3, <2>4, <1>a, <1>m, SessionStays, ZenonT(60)
<1>6. ASSUME NEW q \in (DOMAIN pool' \cap Pages) \ {p} PROVE CachedPage(q)'
  <2>1. Same(q) /\ Cached(q)' BY <1>a, ZenonT(60) DEF Cached
  <2>2. Cached(q) /\ CachedPage(q) BY <2>1, <1>k, ZenonT(60) DEF Same
  <2>3. Loose(q) BY <2>1, ZenonT(60) DEF Same, Loose
  <2>4. \A u \in Tids : Writer(u, q) => /\ Writer(u, q)' /\ (mon = u => mon' = u)
                                        /\ op[u].at = "put" /\ op[u].page = q => op'[u] = op[u]
    BY <1>a DEF Others
  <2>5. pool[q].dirty \in Tids \cup {NoTid} BY <2>2, <1>i, ZenonT(60) DEF StorageTypeOK, PageObjects, Cached
  <2>6. numPages' \in Nat /\ numPages <= numPages' /\ q \in Nat BY <1>a, <1>m
  <2> QED BY <2>1, <2>2, <2>3, <2>4, <2>5, <2>6, <1>a, <1>m, CachedStays, ZenonT(60)
<1>7. Empty'
  <2> SUFFICES ASSUME NEW q \in Pages, q >= numPages' PROVE disk'[q] = {} BY ZenonT(60) DEF Empty
  <2>1. q # p BY <1>a, <1>m
  <2>2. disk[q] = {} BY <1>a, ZenonT(60) DEF EngineInv, Empty
  <2> QED BY <2>1, <2>2, <1>a, ZenonT(60) DEF Same
<1> QED BY <1>1, <1>2, <1>4, <1>5, <1>6, <1>7, ZenonT(60)

(* The log stays as it is, and right. *)
LEMMA LogKept ==
  ASSUME EngineInv, up, log' = log,
         \A q \in Pages : Image(q)' = Image(q) /\ (Ahead(q)' => Ahead(q) /\ mon' = mon),
         \A u \in Tids : op[u].at \in {"flush", "write", "log", "acked"} =>
           /\ op'[u].at \in {"flush", "write"} <=> op[u].at \in {"flush", "write"}
           /\ op'[u].at = "log" <=> op[u].at = "log"
           /\ op'[u].at = "acked" <=> op[u].at = "acked"
           /\ ins'[u] = ins[u] /\ del'[u] = del[u]
           /\ \A q \in Pages : op[u].at \in {"flush", "write"} /\ Cached(q) /\ Writer(u, q) =>
                /\ Cached(q)' /\ Writer(u, q)'
                /\ pool'[q].before = pool[q].before /\ pool'[q].data = pool[q].data
  PROVE  LogRight'
<1>i. LogRight BY ZenonT(60) DEF EngineInv
<1>1. Committed(log)' = Committed(log) BY ZenonT(60) DEF Committed
<1>2. ASSUME NEW p \in Pages PROVE Logs(p)'
  <2>l. Logs(p) BY <1>i, ZenonT(60) DEF LogRight
  <2>u. Updates(log, p)' = Updates(log, p) /\ \A k : Settles(k, p)' <=> Settles(k, p)
    BY ZenonT(60) DEF Updates, Settles
  <2>1. \A k \in Updates(log, p) : /\ log[k].tid \in Tids
                                   /\ op[log[k].tid].at \in {"flush", "write", "log", "acked"}
                                   /\ op[log[k].tid].at = "acked" => log[k].tid \in Committed(log)
    BY <2>l, ZenonT(60) DEF Logs
  <2>2. \A k \in Updates(log, p)' :
          /\ log'[k].tid \in Tids /\ op'[log'[k].tid].at \in {"flush", "write", "log", "acked"}
          /\ op'[log'[k].tid].at = "acked" => log'[k].tid \in Committed(log)'
    BY <2>1, <2>u, <1>1, ZenonT(60)
  <2>3. ASSUME NEW k \in Updates(log, p), Settled(log[k], p) PROVE Settled(log[k], p)'
    <3>1. PICK r, u : r = log[k] /\ u = r.tid BY ZenonT(60)
    <3>2. r = log'[k] /\ u \in Tids /\ op[u].at \in {"flush", "write", "log", "acked"}
      BY <3>1, <2>1, ZenonT(60)
    <3>3. Settled(r, p) BY <2>3, <3>1, ZenonT(60)
    <3>4. Settled(r, p)'
      <4>1. /\ r.after \ r.before \subseteq ins[u] /\ r.before \ r.after \subseteq del[u]
            /\ op[u].at \in {"flush", "write"} =>
                 /\ Cached(p) /\ Writer(u, p)
                 /\ r.before = pool[p].before /\ r.after = pool[p].data
            /\ op[u].at \in {"log", "acked"} => r.after = Image(p)
        BY <3>3, <3>1, ZenonT(60) DEF Settled
      <4>2. /\ op'[u].at \in {"flush", "write"} =>
                 /\ Cached(p)' /\ Writer(u, p)'
                 /\ r.before = pool'[p].before /\ r.after = pool'[p].data
            /\ op'[u].at \in {"log", "acked"} => r.after = Image(p)'
        BY <4>1, <3>2, ZenonT(60)
      <4>3. r.tid = u /\ ins'[u] = ins[u] /\ del'[u] = del[u] BY <3>1, <3>2, ZenonT(60)
      <4> QED BY <4>1, <4>2, <4>3, ZenonT(60) DEF Settled, Writer
    <3>5. Settled(log[k], p)' <=> Settled(r, p)' BY <3>2, ZenonT(60) DEF Settled, Writer
    <3> QED BY <3>4, <3>5, ZenonT(60)
  <2>4. ASSUME Updates(log, p)' # {}
        PROVE  \E k \in DOMAIN log' : Settles(k, p)' /\ Settled(log[k], p)'
    <3>1. PICK k \in DOMAIN log : Settles(k, p) /\ Settled(log[k], p) BY <2>4, <2>l, <2>u, ZenonT(60) DEF Logs
    <3>2. k \in Updates(log, p) BY <3>1, ZenonT(60) DEF Settles
    <3> QED BY <3>1, <3>2, <2>3, <2>u, ZenonT(60)
  <2>5. ASSUME Ahead(p)' PROVE \E k \in DOMAIN log' : Settles(k, p)' /\ log'[k].tid = mon'
    <3>1. PICK k \in DOMAIN log : Settles(k, p) /\ log[k].tid = mon BY <2>5, <2>l, ZenonT(60) DEF Logs
    <3> QED BY <3>1, <2>5, <2>u, ZenonT(60)
  <2> QED BY <2>2, <2>4, <2>5, ZenonT(60) DEF Logs
<1>3. \A u \in Tids \cap Committed(log)' : op'[u].at = "acked" BY <1>1, <1>i, ZenonT(60) DEF LogRight
<1> QED BY <1>2, <1>3, ZenonT(60) DEF LogRight

(* Steps of a page's writer that change nobody's tuples. *)
LEMMA TouchStep ==
  ASSUME EngineInv, NEW t \in Tids, NEW p \in Pages, Touch(t, p),
         LockInv, StorageTypeOK', Session(t)', Cached(p)' => CachedPage(p)', LogRight',
         Own(t, p)' = Own(t, p), op'[t].at # "put", ~Inserting(t)',
         ins' = ins, del' = del, op[t].at \notin Over \cup {"lost"}, op'[t].at \notin Over
  PROVE  EngineInv' /\ Visible' = Visible
<1>1. /\ \A u \in Tids \ {t} : Session(u)'
      /\ \A q \in (DOMAIN pool' \cap Pages) \ {p} : CachedPage(q)'
      /\ Empty'
      /\ \A q \in Pages : Image(q)' = Image(q)
      /\ \A q \in Pages \ {p} : Cur(q)' = Cur(q)
      /\ \A u \in Tids \ {t}, q \in Pages : Writer(u, q) => q # p /\ Own(u, q)' = Own(u, q)
  BY TouchOthers, ZenonT(60)
<1>2. /\ UNCHANGED lockVars /\ op[t].page = p /\ Others(t) /\ up' BY ZenonT(60) DEF Touch
<1>3. LockInv' /\ calls' = calls /\ waitingFor' = waitingFor
  BY <1>2, LockInvNext, ZenonT(60) DEF lockVars
<1>4. \A u \in Tids, q \in Pages : Writer(u, q)' <=> Writer(u, q) BY <1>2, ZenonT(60) DEF lockVars, Writer
<1>5. \A u \in Tids, q \in Pages : Writer(u, q) => Own(u, q)' = Own(u, q)
  <2>1. ASSUME NEW q \in Pages \ {p} PROVE Own(t, q)' = Own(t, q)
    BY <1>1, <1>2, ZenonT(60) DEF Own
  <2> QED BY <2>1, <1>1, ZenonT(60)
<1>6. \A u \in Tids : /\ op[u].at \in Over => op'[u].at \in Over
                      /\ op'[u].at \in Through <=> op[u].at \in Through
                      /\ op'[u].at = "lost" <=> op[u].at = "lost"
  BY <1>2, ZenonT(60) DEF Others, Over, Through
<1>7. \A u \in Tids : calls[u] \in Nat /\ calls'[u] \in Nat /\ calls[u] <= calls'[u]
  <2>1. calls \in [Tids -> Nat] BY LockAssumption DEF LockInv, LockTypeOK
  <2> QED BY <2>1, <1>3
<1>8. OnePage /\ Counted /\ (\A u \in Tids : Effects(u)) /\ History BY ZenonT(60) DEF EngineInv
<1>9. /\ OnePage' /\ Counted' /\ \A u \in Tids : Effects(u)'
      /\ History' /\ Visible' = Visible
      /\ \A x : Used(x)' => Used(x)
  BY <1>1, <1>4, <1>5, <1>6, <1>7, <1>8, QuietData, ZenonT(60)
<1>10. ASSUME NEW u \in Tids \ {t} PROVE NewTuple(u)'
  <2>1. op'[u] = op[u] BY <1>2, ZenonT(60) DEF Others
  <2>2. NewTuple(u) BY ZenonT(60) DEF EngineInv
  <2>3. PICK x : x = op[u].tup BY ZenonT(60)
  <2>4. Used(op[u].tup)' <=> Used(x)' BY <2>1, <2>3, ZenonT(60) DEF Used, On
  <2>5. Used(x)' => Used(op[u].tup) BY <1>9, <2>3, ZenonT(60)
  <2> QED BY <2>1, <2>2, <2>4, <2>5, <1>3, ZenonT(60) DEF NewTuple, Inserting
<1>11. \A q \in DOMAIN pool' : CachedPage(q)' BY <1>1, ZenonT(60) DEF StorageTypeOK, Cached
<1>12. NewTuple(t)' BY ZenonT(60) DEF NewTuple
<1>13. \A u \in Tids : Session(u)' /\ NewTuple(u)' BY <1>1, <1>10, <1>12, ZenonT(60)
<1> QED BY <1>1, <1>2, <1>3, <1>9, <1>11, <1>13, ZenonT(60) DEF EngineInv

(* The changed page goes back to the pool, marked dirty. *)
LEMMA PutKeeps ==
  ASSUME EngineInv, NEW t \in Tids, Put(t)
  PROVE  EngineInv' /\ Visible' = Visible
<1>s. Session(t) /\ StorageTypeOK /\ LockInv /\ op[t] \in Ops /\ obj[t] \in PageObjects
  BY DEF EngineInv, StorageTypeOK
<1>n. NoTid \notin Tids BY StorageAssumption
<1>p. PICK p : p = op[t].page OBVIOUS
<1>q. PICK g : g = [obj[t] EXCEPT !.dirty = t] BY ZenonT(60)
<1>a. /\ up /\ op[t].at = "put" /\ phase[t] = "active" /\ mon = NoTid
      /\ pool' = With(pool, p, g)
      /\ op' = [op EXCEPT ![t] = At("idle")] /\ obj' = [obj EXCEPT ![t] = NoObject]
      /\ UNCHANGED <<lockVars, disk, numPages, log, mon, ins, del, up, restarts>>
  BY <1>p, <1>q DEF Put, Running
<1>b. UNCHANGED <<holders, exclusive, waitingFor, want, phase, granted, calls>>
  BY <1>a DEF lockVars
<1>g. g \in PageObjects /\ g.data = obj[t].data /\ g.before = obj[t].before /\ g.dirty = t
  BY <1>q, <1>s DEF PageObjects
<1>i. /\ p \in Pages /\ p < numPages /\ Writer(t, p) /\ obj[t].before = Image(p)
      /\ waitingFor[t] = NoPage
  BY <1>a, <1>p, <1>s, ZenonT(60) DEF Session, Ops
<1>h. /\ DOMAIN pool' = DOMAIN pool \cup {p} /\ pool'[p] = g
      /\ \A q \in DOMAIN pool \ {p} : pool'[q] = pool[q]
      /\ pool' = [q \in DOMAIN pool' |-> pool'[q]]
  BY <1>a DEF With
<1>o. At("idle") \in Ops /\ At("idle").at = "idle" /\ At("idle").page = 0 BY AtIs, ZenonT(60) DEF Places
<1>f. /\ op'[t] = At("idle") /\ op' \in [Tids -> Ops] /\ \A u \in Tids \ {t} : op'[u] = op[u]
      /\ obj' \in [Tids -> PageObjects] /\ \A u \in Tids \ {t} : obj'[u] = obj[u]
  <2>1. NoObject \in PageObjects BY FreshIs DEF NoObject
  <2> QED BY <2>1, <1>a, <1>o, <1>s, ZenonT(60) DEF StorageTypeOK
<1>t. StorageTypeOK'
  <2>1. DOMAIN pool' \subseteq Pages /\ \A q \in DOMAIN pool' : pool'[q] \in PageObjects
    BY <1>h, <1>g, <1>i, <1>s, ZenonT(60) DEF StorageTypeOK
  <2>2. pool' \in [DOMAIN pool' -> PageObjects] BY <2>1, <1>h, ZenonT(60)
  <2> QED BY <2>1, <2>2, <1>a, <1>f, <1>s, ZenonT(60) DEF StorageTypeOK
<1>c. Touch(t, p)
  <2>1. Others(t) BY <1>a, <1>b, <1>f, ZenonT(60) DEF Others
  <2>2. \A q \in Pages \ {p} : Same(q) BY <1>h, <1>a, ZenonT(60) DEF Same, Cached
  <2>3. Image(p)' = Image(p) BY <1>h, <1>g, <1>i, ZenonT(60) DEF Image, Cached
  <2> QED BY <2>1, <2>2, <2>3, <1>a, <1>p, <1>i, ZenonT(60) DEF Touch
<1>1. Session(t)'
  <2>1. 0 < numPages BY <1>s, PageNumbers DEF StorageTypeOK
  <2> QED BY <2>1, <1>a, <1>b, <1>f, <1>o, <1>i, <1>n, ZenonT(60) DEF Session, Over, InStatement
<1>2. CachedPage(p)'
  <2>1. disk[p] = Image(p)
    <3>1. Cached(p) => CachedPage(p) BY ZenonT(60) DEF EngineInv, Cached
    <3> QED BY <3>1, <1>a, <1>n, ZenonT(60) DEF CachedPage, Image
  <2>2. disk'[p] = pool'[p].before BY <2>1, <1>a, <1>g, <1>h, <1>i, ZenonT(60)
  <2>3. Writer(t, p)' BY <1>b, <1>i, ZenonT(60) DEF Writer
  <2> QED BY <2>2, <2>3, <1>a, <1>g, <1>h, <1>i, <1>n, ZenonT(60) DEF CachedPage
<1>3. LogRight'
  <2>1. \A q \in Pages : Image(q)' = Image(q) BY <1>c, <1>i, TouchOthers, ZenonT(60)
  <2>2. \A q \in Pages : ~Ahead(q)' BY <1>a, ZenonT(60) DEF Ahead
  <2>3. \A u \in Tids : op[u].at \notin {"flush", "write"} BY <1>a, <1>n, ZenonT(60) DEF EngineInv, Session
  <2>4. \A u \in Tids : op[u].at \in {"flush", "write", "log", "acked"} =>
           /\ op'[u].at \in {"flush", "write"} <=> op[u].at \in {"flush", "write"}
           /\ op'[u].at = "log" <=> op[u].at = "log"
           /\ op'[u].at = "acked" <=> op[u].at = "acked"
           /\ ins'[u] = ins[u] /\ del'[u] = del[u]
           /\ \A q \in Pages : op[u].at \in {"flush", "write"} /\ Cached(q) /\ Writer(u, q) =>
                /\ Cached(q)' /\ Writer(u, q)'
                /\ pool'[q].before = pool[q].before /\ pool'[q].data = pool[q].data
    BY <2>3, <1>a, <1>f, ZenonT(60)
  <2> QED BY <2>1, <2>2, <2>4, <1>a, LogKept, ZenonT(60)
<1>4. Own(t, p)' = Own(t, p)
  BY <1>a, <1>p, <1>f, <1>o, <1>h, <1>g, ZenonT(60) DEF Own, Cur, Cached
<1>5. /\ op'[t].at # "put" /\ ~Inserting(t)' /\ op[t].at \notin Over \cup {"lost"}
      /\ op'[t].at \notin Over
  BY <1>a, <1>f, <1>o DEF Inserting, InStatement, Over
<1> QED BY <1>a, <1>c, <1>i, <1>s, <1>t, <1>1, <1>2, <1>3, <1>4, <1>5, TouchStep, ZenonT(60)

(* A logged page goes to its file. *)
LEMMA WritePageKeeps ==
  ASSUME EngineInv, NEW t \in Tids, writePage(t)
  PROVE  EngineInv' /\ Visible' = Visible
<1>s. Session(t) /\ StorageTypeOK /\ LockInv /\ op[t] \in Ops
  BY DEF EngineInv, StorageTypeOK
<1>n. NoTid \notin Tids BY StorageAssumption
<1>p. PICK p : p = op[t].page OBVIOUS
<1>a. /\ up /\ op[t].at = "write" /\ phase[t] = "active"
      /\ disk' = [disk EXCEPT ![p] = pool[p].data]
      /\ pool' = [pool EXCEPT ![p].dirty = NoTid]
      /\ op' = [op EXCEPT ![t].at = "flush"]
      /\ UNCHANGED <<lockVars, numPages, log, obj, mon, ins, del, up, restarts>>
  BY <1>p DEF writePage, Running, Go
<1>b. UNCHANGED <<holders, exclusive, waitingFor, want, phase, granted, calls>>
  BY <1>a, ZenonT(60) DEF lockVars
<1>i. p \in Pages /\ p < numPages /\ Cached(p) /\ pool[p].dirty = t /\ mon = t
  BY <1>a, <1>p, <1>s, ZenonT(60) DEF Session, Ops
<1>w. Writer(t, p) /\ pool[p] \in PageObjects
  BY <1>i, <1>n, <1>s, ZenonT(60) DEF EngineInv, CachedPage, Cached, StorageTypeOK
<1>q. PICK g : g = [pool[p] EXCEPT !.dirty = NoTid] BY ZenonT(60)
<1>g. g \in PageObjects /\ g.data = pool[p].data /\ g.before = pool[p].before /\ g.dirty = NoTid
  BY <1>q, <1>w DEF PageObjects
<1>h. /\ DOMAIN pool' = DOMAIN pool /\ pool'[p] = g
      /\ \A q \in DOMAIN pool \ {p} : pool'[q] = pool[q]
      /\ pool' \in [DOMAIN pool -> PageObjects]
  BY <1>a, <1>q, <1>g, <1>i, <1>s DEF Cached, StorageTypeOK
<1>d. /\ disk'[p] = pool[p].data /\ disk' \in [Pages -> SUBSET Tuples]
      /\ \A q \in Pages \ {p} : disk'[q] = disk[q]
  BY <1>a, <1>i, <1>w, <1>s, ZenonT(60) DEF StorageTypeOK, PageObjects
<1>x. PICK o : o = [op[t] EXCEPT !.at = "flush"] BY ZenonT(60)
<1>o. o \in Ops /\ o.at = "flush" /\ o.page = p BY <1>s, <1>p, <1>x, MovesIs DEF Places
<1>f. op'[t] = o /\ op' \in [Tids -> Ops] /\ \A u \in Tids \ {t} : op'[u] = op[u]
  BY <1>x, <1>o, <1>a, <1>s, ZenonT(60) DEF StorageTypeOK
<1>t. StorageTypeOK' BY <1>a, <1>d, <1>f, <1>h, <1>s, ZenonT(60) DEF StorageTypeOK
<1>c. Touch(t, p)
  <2>1. Others(t) BY <1>a, <1>b, <1>f, ZenonT(60) DEF Others
  <2>2. \A q \in Pages \ {p} : Same(q) BY <1>h, <1>d, ZenonT(60) DEF Same, Cached
  <2>3. Image(p)' = Image(p) BY <1>h, <1>g, <1>i, ZenonT(60) DEF Image, Cached
  <2> QED BY <2>1, <2>2, <2>3, <1>a, <1>p, <1>i, <1>w, ZenonT(60) DEF Touch
<1>1. Session(t)' BY <1>a, <1>b, <1>f, <1>o, <1>i, <1>s, ZenonT(60) DEF Session, Over, InStatement
<1>2. CachedPage(p)'
  <2>1. Writer(t, p)' /\ mon' = t /\ disk'[p] = pool'[p].data BY <1>a, <1>b, <1>d, <1>g, <1>h, <1>w, <1>i, ZenonT(60) DEF Writer
  <2> QED BY <2>1, <1>a, <1>g, <1>h, <1>i, <1>n, ZenonT(60) DEF CachedPage
<1>3. LogRight'
  <2>1. \A q \in Pages : Image(q)' = Image(q) BY <1>c, <1>i, TouchOthers, ZenonT(60)
  <2>2. \A q \in Pages : Ahead(q)' => Ahead(q) /\ mon' = mon
    <3>1. Ahead(p) BY <1>a, <1>i, <1>n, <1>p, ZenonT(60) DEF Ahead
    <3>2. ASSUME NEW q \in Pages \ {p}, Ahead(q)' PROVE Ahead(q)
      <4>1. disk'[q] # Image(q)' BY <3>2, <1>a, <1>i, <1>f, <1>o, ZenonT(60) DEF Ahead
      <4> QED BY <4>1, <2>1, <1>d, <1>i, <1>n, ZenonT(60) DEF Ahead
    <3> QED BY <3>1, <3>2, <1>a, ZenonT(60)
  <2>3. \A q \in Pages : Cached(q) => /\ Cached(q)' /\ pool'[q].before = pool[q].before
                                      /\ pool'[q].data = pool[q].data
    BY <1>g, <1>h, <1>i, ZenonT(60) DEF Cached
  <2>4. \A u \in Tids : op[u].at \in {"flush", "write", "log", "acked"} =>
           /\ op'[u].at \in {"flush", "write"} <=> op[u].at \in {"flush", "write"}
           /\ op'[u].at = "log" <=> op[u].at = "log"
           /\ op'[u].at = "acked" <=> op[u].at = "acked"
           /\ ins'[u] = ins[u] /\ del'[u] = del[u]
           /\ \A q \in Pages : op[u].at \in {"flush", "write"} /\ Cached(q) /\ Writer(u, q) =>
                /\ Cached(q)' /\ Writer(u, q)'
                /\ pool'[q].before = pool[q].before /\ pool'[q].data = pool[q].data
    BY <2>3, <1>a, <1>b, <1>f, <1>o, ZenonT(60) DEF Writer
  <2> QED BY <2>1, <2>2, <2>4, <1>a, LogKept, ZenonT(60)
<1>4. Own(t, p)' = Own(t, p)
  BY <1>a, <1>p, <1>f, <1>o, <1>h, <1>g, <1>i, ZenonT(60) DEF Own, Cur, Cached
<1>5. /\ op'[t].at # "put" /\ ~Inserting(t)' /\ op[t].at \notin Over \cup {"lost"}
      /\ op'[t].at \notin Over
  BY <1>a, <1>f, <1>o, ZenonT(60) DEF Inserting, InStatement, Over
<1> QED BY <1>a, <1>c, <1>i, <1>s, <1>t, <1>1, <1>2, <1>3, <1>4, <1>5, TouchStep, ZenonT(60)

(* HeapPage.insertTuple and deleteTuple, as far as the pages go. *)
LEMMA EditIs ==
  ASSUME EngineInv, NEW t \in Tids, Edit(t), NEW p, p = op[t].page, NEW x, x = op[t].tup
  PROVE  /\ p \in Pages /\ x \in Tuples /\ Touch(t, p) /\ StorageTypeOK' /\ Session(t)'
         /\ Cached(p)' => CachedPage(p)'
         /\ LogRight'
         /\ op[t].at = "edit" /\ op'[t].at = "put" /\ op[t].kind \in {"insert", "scan"}
         /\ op[t].kind = "scan" => x \in Own(t, p)
         /\ Own(t, p)' = IF op[t].kind = "insert" THEN Own(t, p) \cup {x} ELSE Own(t, p) \ {x}
         /\ \A q \in Pages \ {p} : Own(t, q)' = Own(t, q)
         /\ ins'[t] = IF op[t].kind = "insert" THEN ins[t] \cup {x} ELSE ins[t] \ {x}
         /\ del'[t] = IF op[t].kind = "insert" \/ x \in ins[t] THEN del[t] ELSE del[t] \cup {x}
         /\ ins' = [ins EXCEPT ![t] = ins'[t]] /\ del' = [del EXCEPT ![t] = del'[t]]
         /\ calls' = calls /\ waitingFor' = waitingFor
<1>s. /\ Session(t) /\ StorageTypeOK /\ LockInv /\ op[t] \in Ops /\ obj[t] \in PageObjects
      /\ NewTuple(t)
  BY DEF EngineInv, StorageTypeOK
<1>n. NoTid \notin Tids BY StorageAssumption, ZenonT(60)
<1>y. PICK data : data = IF op[t].kind = "insert" THEN obj[t].data \cup {x} ELSE obj[t].data \ {x}
  BY ZenonT(60)
<1>a. /\ up /\ op[t].at = "edit" /\ phase[t] = "active"
      /\ obj' = [obj EXCEPT ![t].data = data]
      /\ pool' = IF Cached(p) THEN [pool EXCEPT ![p].data = data] ELSE pool
      /\ ins' = [ins EXCEPT ![t] = IF op[t].kind = "insert" THEN @ \cup {x} ELSE @ \ {x}]
      /\ del' = [del EXCEPT ![t] = IF op[t].kind = "insert" \/ x \in ins[t] THEN @ ELSE @ \cup {x}]
      /\ op' = [op EXCEPT ![t].at = "put"]
      /\ UNCHANGED <<lockVars, disk, numPages, log, mon, up, restarts>>
  BY <1>y DEF Edit, Running, Go
<1>b. UNCHANGED <<holders, exclusive, waitingFor, want, phase, granted, calls>>
  BY <1>a, ZenonT(60) DEF lockVars
<1>i. /\ p \in Pages /\ p < numPages /\ Writer(t, p) /\ op[t].ex /\ mon # t /\ waitingFor[t] = NoPage
      /\ op[t].kind \in {"insert", "scan"} /\ (op[t].kind = "scan" => x \in Cur(p))
      /\ obj[t].before = Image(p) /\ obj[t].data = Cur(p)
  BY <1>a, <1>s, ZenonT(60) DEF Session, Ops, InStatement
<1>c. Own(t, p) = Cur(p) /\ Cur(p) \in SUBSET Tuples
  BY <1>a, <1>i, <1>s, ZenonT(60) DEF Own, StorageTypeOK, PageObjects
<1>e. x \in Tuples
  <2>1. CASE op[t].kind = "scan" BY <2>1, <1>i, <1>c, ZenonT(60)
  <2>2. CASE op[t].kind = "insert"
    <3>1. \E n \in 1..MaxCalls : x = <<t, n>>
      BY <2>2, <1>a, <1>s, ZenonT(60) DEF NewTuple, Inserting, InStatement
    <3> QED BY <3>1 DEF Tuples
  <2> QED BY <2>1, <2>2, <1>i, ZenonT(60)
<1>d. data \in SUBSET Tuples BY <1>y, <1>e, <1>s, ZenonT(60) DEF PageObjects
<1>j. PICK j : j = [obj[t] EXCEPT !.data = data] BY ZenonT(60)
<1>k. j \in PageObjects /\ j.data = data /\ j.before = obj[t].before BY <1>j, <1>d, <1>s DEF PageObjects
<1>x. PICK o : o = [op[t] EXCEPT !.at = "put"] BY ZenonT(60)
<1>o. o \in Ops /\ o.at = "put" /\ o.page = p /\ o.kind = op[t].kind /\ o.ex = op[t].ex
  BY <1>s, <1>x, MovesIs DEF Places
<1>f. /\ op'[t] = o /\ op' \in [Tids -> Ops] /\ \A u \in Tids \ {t} : op'[u] = op[u]
      /\ obj'[t] = j /\ obj' \in [Tids -> PageObjects] /\ \A u \in Tids \ {t} : obj'[u] = obj[u]
  <2>1. op' = [op EXCEPT ![t] = o] /\ obj' = [obj EXCEPT ![t] = j] BY <1>a, <1>x, <1>j, ZenonT(60)
  <2> QED BY <2>1, <1>o, <1>k, <1>s, ZenonT(60) DEF StorageTypeOK
<1>g. /\ ins'[t] = IF op[t].kind = "insert" THEN ins[t] \cup {x} ELSE ins[t] \ {x}
      /\ del'[t] = IF op[t].kind = "insert" \/ x \in ins[t] THEN del[t] ELSE del[t] \cup {x}
      /\ ins' = [ins EXCEPT ![t] = ins'[t]] /\ del' = [del EXCEPT ![t] = del'[t]]
      /\ ins' \in [Tids -> SUBSET Tuples] /\ del' \in [Tids -> SUBSET Tuples]
      /\ \A u \in Tids \ {t} : ins'[u] = ins[u] /\ del'[u] = del[u]
  BY <1>a, <1>e, <1>s, ZenonT(60) DEF StorageTypeOK
<1>q. PICK g : g = [pool[p] EXCEPT !.data = data] BY ZenonT(60)
<1>h. /\ Cached(p) => /\ pool[p] \in PageObjects /\ pool'[p] = g /\ g \in PageObjects /\ g.data = data
                      /\ g.before = pool[p].before /\ g.dirty = pool[p].dirty
      /\ DOMAIN pool' = DOMAIN pool /\ \A q \in DOMAIN pool \ {p} : pool'[q] = pool[q]
      /\ pool' \in [DOMAIN pool -> PageObjects]
  <2>1. CASE Cached(p)
    <3>1. pool[p] \in PageObjects BY <2>1, <1>s, ZenonT(60) DEF Cached, StorageTypeOK
    <3>2. g \in PageObjects /\ g.data = data /\ g.before = pool[p].before /\ g.dirty = pool[p].dirty
      BY <3>1, <1>q, <1>d, ZenonT(60) DEF PageObjects
    <3>3. pool' = [pool EXCEPT ![p] = g] BY <2>1, <1>a, <1>q, ZenonT(60)
    <3> QED BY <2>1, <3>1, <3>2, <3>3, <1>s, ZenonT(60) DEF Cached, StorageTypeOK
  <2>2. CASE ~Cached(p) BY <2>2, <1>a, <1>s, ZenonT(60) DEF Cached, StorageTypeOK
  <2> QED BY <2>1, <2>2, ZenonT(60)
<1>t. StorageTypeOK' BY <1>a, <1>f, <1>g, <1>h, <1>s, ZenonT(60) DEF StorageTypeOK
<1>1. Touch(t, p)
  <2>1. Others(t) BY <1>a, <1>b, <1>f, <1>g, ZenonT(60) DEF Others
  <2>2. \A q \in Pages \ {p} : Same(q) BY <1>h, <1>a, ZenonT(60) DEF Same, Cached
  <2>3. Image(p)' = Image(p) BY <1>h, <1>a, ZenonT(60) DEF Image, Cached
  <2> QED BY <2>1, <2>2, <2>3, <1>a, <1>i, ZenonT(60) DEF Touch
<1>2. Session(t)'
  <2>1. Image(op[t].page)' = Image(p)' BY <1>f, <1>o, ZenonT(60) DEF Image, Cached
  <2>2. Image(p)' = Image(p) BY <1>1, ZenonT(60) DEF Touch
  <2>3. Cached(op[t].page)' => pool'[op'[t].page].data = obj'[t].data
    BY <1>f, <1>o, <1>h, <1>k, ZenonT(60) DEF Cached
  <2> QED BY <2>1, <2>2, <2>3, <1>a, <1>b, <1>f, <1>o, <1>i, <1>k, ZenonT(60) DEF Session, Over, InStatement, Writer
<1>3. ASSUME Cached(p)' PROVE CachedPage(p)'
  <2>1. Cached(p) /\ CachedPage(p) BY <1>3, <1>h, ZenonT(60) DEF EngineInv, Cached
  <2>2. \A u \in Tids : Writer(u, p) => u = t BY <1>i, <1>s, WriterAlone, ZenonT(60) DEF Writer
  <2>3. pool[p].dirty \in Tids \cup {NoTid} BY <2>1, <1>h, ZenonT(60) DEF PageObjects
  <2>4. pool[p].dirty \in {t, NoTid} BY <2>1, <2>2, <2>3, ZenonT(60) DEF CachedPage
  <2>5. disk[p] = pool[p].before BY <2>1, <2>2, <1>i, ZenonT(60) DEF CachedPage
  <2>6. Writer(t, p)' BY <1>b, <1>i, ZenonT(60) DEF Writer
  <2> QED BY <2>1, <2>4, <2>5, <2>6, <1>a, <1>f, <1>h, <1>i, <1>o, ZenonT(60) DEF CachedPage
<1>4. LogRight'
  <2>1. \A q \in Pages : Image(q)' = Image(q) BY <1>1, <1>i, TouchOthers, ZenonT(60)
  <2>2. \A q \in Pages : Ahead(q)' => Ahead(q) /\ mon' = mon
    <3>1. mon \in Tids \ {t} \/ mon = NoTid BY <1>i, <1>s, ZenonT(60) DEF StorageTypeOK
    <3> QED BY <3>1, <2>1, <1>a, <1>f, ZenonT(60) DEF Ahead
  <2>3. \A u \in Tids \ {t}, q \in Pages : Writer(u, q) => q # p /\ Writer(u, q)'
    BY <1>1, <1>b, <1>i, TouchOthers, ZenonT(60) DEF Writer
  <2>4. \A u \in Tids : op[u].at \in {"flush", "write", "log", "acked"} =>
           /\ op'[u].at \in {"flush", "write"} <=> op[u].at \in {"flush", "write"}
           /\ op'[u].at = "log" <=> op[u].at = "log"
           /\ op'[u].at = "acked" <=> op[u].at = "acked"
           /\ ins'[u] = ins[u] /\ del'[u] = del[u]
           /\ \A q \in Pages : op[u].at \in {"flush", "write"} /\ Cached(q) /\ Writer(u, q) =>
                /\ Cached(q)' /\ Writer(u, q)'
                /\ pool'[q].before = pool[q].before /\ pool'[q].data = pool[q].data
    BY <2>3, <1>a, <1>f, <1>g, <1>h DEF Cached
  <2> QED BY <2>1, <2>2, <2>4, <1>a, LogKept, ZenonT(60)
<1>5. Own(t, p)' = IF op[t].kind = "insert" THEN Own(t, p) \cup {x} ELSE Own(t, p) \ {x}
  BY <1>f, <1>o, <1>k, <1>y, <1>c, <1>i, ZenonT(60) DEF Own
<1>6. \A q \in Pages \ {p} : Own(t, q)' = Own(t, q)
  <2>1. \A q \in Pages \ {p} : Cur(q)' = Cur(q) BY <1>1, <1>i, TouchOthers, ZenonT(60)
  <2> QED BY <2>1, <1>f, <1>o, <1>a, ZenonT(60) DEF Own
<1> QED BY <1>a, <1>b, <1>c, <1>e, <1>f, <1>g, <1>i, <1>o, <1>t, <1>1, <1>2, <1>3, <1>4, <1>5, <1>6, ZenonT(60)

(* An insert adds a tuple nobody has seen; a delete removes one of the     *)
(* transaction's own, or a committed one that no other transaction is      *)
(* about to remove.                                                        *)
EditDoes(t, x) ==
  \/ /\ x \notin Visible /\ \A u \in Tids : x \notin ins[u]
     /\ ins' = [ins EXCEPT ![t] = @ \cup {x}] /\ del' = del
  \/ x \in ins[t] /\ ins' = [ins EXCEPT ![t] = @ \ {x}] /\ del' = del
  \/ /\ x \in Visible /\ \A u \in Tids : op[u].at \notin Over => x \notin del[u]
     /\ del' = [del EXCEPT ![t] = @ \cup {x}] /\ ins' = ins

(* What both come to, given what the pages show. *)
LEMMA InsertData ==
  ASSUME EngineInv, NEW t \in Tids, NEW p \in Pages, NEW x \in Tuples, Writer(t, p),
         \A q \in Pages : Image(q)' = Image(q),
         \A u \in Tids, q \in Pages : Writer(u, q)' <=> Writer(u, q),
         \A u \in Tids \ {t}, q \in Pages : Writer(u, q) => Own(u, q)' = Own(u, q),
         \A q \in Pages \ {p} : Own(t, q)' = Own(t, q),
         Own(t, p)' = Own(t, p) \cup {x},
         ins' = [ins EXCEPT ![t] = ins[t] \cup {x}], del' = del,
         ~Used(x), Numbered(x), calls' = calls,
         \A u \in Tids \ {t} : op'[u] = op[u],
         op[t].at \notin Over, op'[t].at \notin Over
  PROVE  /\ OnePage' /\ Counted' /\ \A u \in Tids : Effects(u)'
         /\ History' /\ Visible' = Visible /\ EditDoes(t, x)
         /\ \A y : Used(y)' => Used(y) \/ y = x
<1>i. OnePage /\ Counted /\ (\A u \in Tids : Effects(u)) /\ History /\ ins \in [Tids -> SUBSET Tuples]
  BY ZenonT(60) DEF EngineInv, StorageTypeOK
<1>1. Visible' = Visible BY ZenonT(60) DEF Visible
<1>2. (\A q \in Pages : ~On(x, q)) /\ \A u \in Tids : x \notin ins[u] /\ x \notin del[u] BY ZenonT(60) DEF Used
<1>v. x \notin Visible BY <1>2, ZenonT(60) DEF Visible, On
<1>f. ins'[t] = ins[t] \cup {x} /\ \A u \in Tids \ {t} : ins'[u] = ins[u] BY <1>i, ZenonT(60)
<1>3. ASSUME NEW y, NEW q \in Pages, On(y, q)' PROVE On(y, q) \/ (y = x /\ q = p)
  <2>1. CASE y \in Image(q)' BY <2>1, ZenonT(60) DEF On
  <2>2. CASE \E u \in Tids : Writer(u, q)' /\ y \in Own(u, q)'
    <3>1. PICK u \in Tids : Writer(u, q)' /\ y \in Own(u, q)' BY <2>2, ZenonT(60)
    <3>2. Writer(u, q) /\ (y \in Own(u, q) \/ (y = x /\ q = p)) BY <3>1, ZenonT(60)
    <3> QED BY <3>2, ZenonT(60) DEF On
  <2> QED BY <1>3, <2>1, <2>2, ZenonT(60) DEF On
<1>4. OnePage' BY <1>2, <1>3, <1>i DEF OnePage
<1>5. \A y : Used(y)' => Used(y) \/ y = x BY <1>3, <1>f, ZenonT(60) DEF Used
<1>6. Counted'
  <2>1. \A y : Numbered(y)' <=> Numbered(y) BY ZenonT(60) DEF Numbered
  <2> QED BY <2>1, <1>5, <1>i, ZenonT(60) DEF Counted
<1>7. ASSUME NEW u \in Tids PROVE Effects(u)'
  <2> SUFFICES ASSUME op'[u].at \notin Over
               PROVE  /\ \A y \in Tuples : y \in ins'[u] <=>
                           \E q \in Pages : Writer(u, q)' /\ y \in Own(u, q)' /\ y \notin Image(q)'
                      /\ \A y \in Tuples : y \in del'[u] <=>
                           \E q \in Pages : Writer(u, q)' /\ y \in Image(q)' /\ y \notin Own(u, q)'
    BY ZenonT(60) DEF Effects
  <2>1. op[u].at \notin Over BY ZenonT(60)
  <2>3. \A y \in Tuples : y \in ins[u] <=>
          \E q \in Pages : Writer(u, q) /\ y \in Own(u, q) /\ y \notin Image(q)
    BY <2>1, <1>i, ZenonT(60) DEF Effects
  <2>4. \A y \in Tuples : y \in del[u] <=>
          \E q \in Pages : Writer(u, q) /\ y \in Image(q) /\ y \notin Own(u, q)
    BY <2>1, <1>i, ZenonT(60) DEF Effects
  <2>5. CASE u # t
    <3>1. \A q \in Pages : Writer(u, q) => Own(u, q)' = Own(u, q) BY <2>5, ZenonT(60)
    <3> QED BY <2>3, <2>4, <3>1, <1>f, <2>5, ZenonT(60)
  <2>6. CASE u = t
    <3>1. \A q \in Pages : x \notin Image(q) /\ (Writer(t, q) => x \notin Own(t, q)) BY <1>2, ZenonT(60) DEF On
    <3>2. \A q \in Pages, y \in Tuples : y # x => (y \in Own(t, q)' <=> y \in Own(t, q)) BY ZenonT(60)
    <3>3. ASSUME NEW y \in Tuples, y # x
          PROVE  /\ y \in ins'[t] <=>
                      \E q \in Pages : Writer(t, q)' /\ y \in Own(t, q)' /\ y \notin Image(q)'
                 /\ y \in del'[t] <=>
                      \E q \in Pages : Writer(t, q)' /\ y \in Image(q)' /\ y \notin Own(t, q)'
      BY <2>3, <2>4, <2>6, <3>2, <3>3, <1>f
    <3>4. x \in ins'[t] /\ \E q \in Pages : Writer(t, q)' /\ x \in Own(t, q)' /\ x \notin Image(q)'
      BY <3>1, <1>f, ZenonT(60)
    <3>5. x \notin del'[t] /\ \A q \in Pages : x \notin Image(q)' BY <3>1, <1>2, ZenonT(60)
    <3> QED BY <2>6, <3>3, <3>4, <3>5, ZenonT(60)
  <2> QED BY <2>5, <2>6, ZenonT(60)
<1>8. History'
  <2>t. op[t].at \notin Through \cup {"lost"} /\ op'[t].at \notin Through \cup {"lost"} BY ZenonT(60) DEF Over, Through
  <2>1. \A u, v \in Tids : u # v => ins'[u] \cap ins'[v] = {} BY <1>2, <1>f, <1>i DEF History
  <2>2. ASSUME NEW u \in Tids, op'[u].at \notin Through \cup {"lost"}
        PROVE  ins'[u] \cap Visible' = {} /\ \A v \in Tids : ins'[u] \cap del'[v] = {}
    <3>1. op[u].at \notin Through \cup {"lost"} BY <2>2, <2>t, ZenonT(60)
    <3>2. ins[u] \cap Visible = {} /\ \A v \in Tids : ins[u] \cap del[v] = {} BY <3>1, <1>i, ZenonT(60) DEF History
    <3>3. ins'[u] \subseteq ins[u] \cup {x} BY <1>f, ZenonT(60)
    <3> QED BY <3>2, <3>3, <1>1, <1>2, <1>v, ZenonT(60)
  <2>3. ASSUME NEW u \in Tids, op'[u].at \in Through
        PROVE  /\ del'[u] \cap Visible' = {}
               /\ \A v \in Tids : v # u /\ op'[v].at \in Through => del'[u] \cap del'[v] = {}
               /\ ins'[u] \subseteq Visible' \cup
                    UNION {del'[v] : v \in {w \in Tids : op'[w].at \in Through \cup {"lost"}}}
    <3>1. u # t /\ op[u].at \in Through BY <2>3, <2>t, ZenonT(60)
    <3>2. {w \in Tids : op'[w].at \in Through \cup {"lost"}} = {w \in Tids : op[w].at \in Through \cup {"lost"}}
      BY <2>t, ZenonT(60)
    <3>3. /\ del[u] \cap Visible = {}
          /\ \A v \in Tids : v # u /\ op[v].at \in Through => del[u] \cap del[v] = {}
          /\ ins[u] \subseteq Visible \cup
                    UNION {del[v] : v \in {w \in Tids : op[w].at \in Through \cup {"lost"}}}
      BY <3>1, <1>i, ZenonT(60) DEF History
    <3>4. \A v \in Tids : op'[v].at \in Through => op[v].at \in Through BY <2>t, ZenonT(60)
    <3> QED BY <3>1, <3>2, <3>3, <3>4, <1>1, <1>f, ZenonT(60)
  <2> QED BY <2>1, <2>2, <2>3, ZenonT(60) DEF History
<1>9. EditDoes(t, x) BY <1>2, <1>v, ZenonT(60) DEF EditDoes
<1> QED BY <1>1, <1>4, <1>5, <1>6, <1>7, <1>8, <1>9, ZenonT(60)

(* What a delete comes to, given what the pages show. *)
LEMMA DeleteData ==
  ASSUME EngineInv, NEW t \in Tids, NEW p \in Pages, NEW x \in Tuples, Writer(t, p),
         \A q \in Pages : Image(q)' = Image(q),
         \A u \in Tids, q \in Pages : Writer(u, q)' <=> Writer(u, q),
         \A u \in Tids \ {t}, q \in Pages : Writer(u, q) => q # p /\ Own(u, q)' = Own(u, q),
         \A q \in Pages \ {p} : Own(t, q)' = Own(t, q),
         x \in Own(t, p), Own(t, p)' = Own(t, p) \ {x},
         ins' = [ins EXCEPT ![t] = ins[t] \ {x}],
         del' = [del EXCEPT ![t] = IF x \in ins[t] THEN del[t] ELSE del[t] \cup {x}],
         calls' = calls,
         \A u \in Tids \ {t} : op'[u] = op[u],
         op[t].at \notin Over, op'[t].at \notin Over
  PROVE  /\ OnePage' /\ Counted' /\ \A u \in Tids : Effects(u)'
         /\ History' /\ Visible' = Visible /\ EditDoes(t, x)
         /\ \A y : Used(y)' => Used(y)
<1>i. /\ OnePage /\ Counted /\ (\A u \in Tids : Effects(u)) /\ History
      /\ ins \in [Tids -> SUBSET Tuples] /\ del \in [Tids -> SUBSET Tuples]
  BY ZenonT(60) DEF EngineInv, StorageTypeOK
<1>1. Visible' = Visible BY ZenonT(60) DEF Visible
<1>f. /\ ins'[t] = ins[t] \ {x} /\ \A u \in Tids \ {t} : ins'[u] = ins[u] /\ del'[u] = del[u]
      /\ del'[t] = IF x \in ins[t] THEN del[t] ELSE del[t] \cup {x}
  BY <1>i, ZenonT(60)
<1>2. On(x, p) /\ \A q \in Pages : On(x, q) => q = p
  <2>1. On(x, p) BY ZenonT(60) DEF On
  <2> QED BY <2>1, <1>i, ZenonT(60) DEF OnePage
<1>e. /\ \A y \in Tuples : y \in ins[t] <=>
          \E q \in Pages : Writer(t, q) /\ y \in Own(t, q) /\ y \notin Image(q)
      /\ \A y \in Tuples : y \in del[t] <=>
          \E q \in Pages : Writer(t, q) /\ y \in Image(q) /\ y \notin Own(t, q)
  BY <1>i, ZenonT(60) DEF Effects
<1>3. x \in ins[t] <=> x \notin Image(p)
  <2>1. x \notin Image(p) => x \in ins[t] BY <1>e, ZenonT(60)
  <2>2. ASSUME x \in ins[t] PROVE x \notin Image(p)
    <3>1. PICK q \in Pages : Writer(t, q) /\ x \in Own(t, q) /\ x \notin Image(q) BY <2>2, <1>e, ZenonT(60)
    <3>2. On(x, q) BY <3>1, ZenonT(60) DEF On
    <3> QED BY <3>1, <3>2, <1>2, ZenonT(60)
  <2> QED BY <2>1, <2>2, ZenonT(60)
<1>4. x \notin ins[t] => x \in Visible BY <1>3, ZenonT(60) DEF Visible
<1>5. ASSUME NEW u \in Tids, op[u].at \notin Over PROVE x \notin del[u]
  <2> SUFFICES ASSUME x \in del[u] PROVE FALSE BY ZenonT(60)
  <2>1. PICK q \in Pages : Writer(u, q) /\ x \in Image(q) /\ x \notin Own(u, q)
    BY <1>5, <1>i, ZenonT(60) DEF Effects
  <2>2. On(x, q) BY <2>1, ZenonT(60) DEF On
  <2>3. q = p BY <2>2, <1>2, ZenonT(60)
  <2> QED BY <2>1, <2>3, ZenonT(60)
<1>6. ASSUME NEW y, NEW q \in Pages, On(y, q)' PROVE On(y, q)
  <2>1. CASE y \in Image(q)' BY <2>1, ZenonT(60) DEF On
  <2>2. CASE \E u \in Tids : Writer(u, q)' /\ y \in Own(u, q)'
    <3>1. PICK u \in Tids : Writer(u, q)' /\ y \in Own(u, q)' BY <2>2, ZenonT(60)
    <3>2. Writer(u, q) /\ y \in Own(u, q) BY <3>1, ZenonT(60)
    <3> QED BY <3>2, ZenonT(60) DEF On
  <2> QED BY <1>6, <2>1, <2>2, ZenonT(60) DEF On
<1>7. OnePage' BY <1>6, <1>i, ZenonT(60) DEF OnePage
<1>8. \A y : Used(y)' => Used(y)
  <2>1. Used(x) BY <1>2, ZenonT(60) DEF Used
  <2>2. \A u \in Tids : ins'[u] \cup del'[u] \subseteq ins[u] \cup del[u] \cup {x} BY <1>f
  <2> QED BY <2>1, <2>2, <1>6 DEF Used
<1>9. Counted'
  <2>1. \A y : Numbered(y)' <=> Numbered(y) BY ZenonT(60) DEF Numbered
  <2> QED BY <2>1, <1>8, <1>i, ZenonT(60) DEF Counted
<1>10. ASSUME NEW u \in Tids PROVE Effects(u)'
  <2> SUFFICES ASSUME op'[u].at \notin Over
               PROVE  /\ \A y \in Tuples : y \in ins'[u] <=>
                           \E q \in Pages : Writer(u, q)' /\ y \in Own(u, q)' /\ y \notin Image(q)'
                      /\ \A y \in Tuples : y \in del'[u] <=>
                           \E q \in Pages : Writer(u, q)' /\ y \in Image(q)' /\ y \notin Own(u, q)'
    BY ZenonT(60) DEF Effects
  <2>5. CASE u # t
    <3>0. op[u].at \notin Over BY <2>5, ZenonT(60)
    <3>1. \A q \in Pages : Writer(u, q) => Own(u, q)' = Own(u, q) BY <2>5, ZenonT(60)
    <3>2. /\ \A y \in Tuples : y \in ins[u] <=>
              \E q \in Pages : Writer(u, q) /\ y \in Own(u, q) /\ y \notin Image(q)
          /\ \A y \in Tuples : y \in del[u] <=>
              \E q \in Pages : Writer(u, q) /\ y \in Image(q) /\ y \notin Own(u, q)
      BY <3>0, <1>i, ZenonT(60) DEF Effects
    <3> QED BY <3>1, <3>2, <1>f, <2>5
  <2>6. CASE u = t
    <3>1. \A q \in Pages, y \in Tuples : y # x => (y \in Own(t, q)' <=> y \in Own(t, q)) BY ZenonT(60)
    <3>2. ASSUME NEW y \in Tuples, y # x
          PROVE  /\ y \in ins'[t] <=>
                      \E q \in Pages : Writer(t, q)' /\ y \in Own(t, q)' /\ y \notin Image(q)'
                 /\ y \in del'[t] <=>
                      \E q \in Pages : Writer(t, q)' /\ y \in Image(q)' /\ y \notin Own(t, q)'
      BY <1>e, <3>1, <3>2, <1>f
    <3>3. x \notin ins'[t] /\ \A q \in Pages : ~(Writer(t, q)' /\ x \in Own(t, q)' /\ x \notin Image(q)')
      <4>1. ASSUME NEW q \in Pages, Writer(t, q)', x \in Own(t, q)' PROVE FALSE
        <5>1. q # p BY <4>1, ZenonT(60)
        <5>2. On(x, q) BY <4>1, <5>1, ZenonT(60) DEF On
        <5> QED BY <5>1, <5>2, <1>2, ZenonT(60)
      <4> QED BY <4>1, <1>f, ZenonT(60)
    <3>4. CASE x \in ins[t]
      <4>1. x \notin del'[t] BY <3>4, <1>f, <1>5, ZenonT(60)
      <4>2. \A q \in Pages : x \notin Image(q)' BY <3>4, <1>3, <1>2, ZenonT(60) DEF On
      <4> QED BY <2>6, <3>2, <3>3, <4>1, <4>2, ZenonT(60)
    <3>5. CASE x \notin ins[t]
      <4>1. x \in del'[t] /\ Writer(t, p)' /\ x \in Image(p)' /\ x \notin Own(t, p)' BY <3>5, <1>f, <1>3
      <4> QED BY <2>6, <3>2, <3>3, <4>1, ZenonT(60)
    <3> QED BY <3>4, <3>5, ZenonT(60)
  <2> QED BY <2>5, <2>6, ZenonT(60)
<1>11. History'
  <2>t. op[t].at \notin Through \cup {"lost"} /\ op'[t].at \notin Through \cup {"lost"} BY ZenonT(60) DEF Over, Through
  <2>1. \A u, v \in Tids : u # v => ins'[u] \cap ins'[v] = {} BY <1>f, <1>i, ZenonT(60) DEF History
  <2>2. ASSUME NEW u \in Tids, op'[u].at \notin Through \cup {"lost"}
        PROVE  ins'[u] \cap Visible' = {} /\ \A v \in Tids : ins'[u] \cap del'[v] = {}
    <3>1. op[u].at \notin Through \cup {"lost"} BY <2>2, <2>t, ZenonT(60)
    <3>2. ins[u] \cap Visible = {} /\ \A v \in Tids : ins[u] \cap del[v] = {} BY <3>1, <1>i, ZenonT(60) DEF History
    <3>3. (ins'[u] \subseteq ins[u] /\ x \notin ins'[u]) \/ (u # t /\ ins'[u] = ins[u]) BY <1>f, ZenonT(60)
    <3>4. \A v \in Tids : del'[v] \subseteq del[v] \/ (x \notin ins[t] /\ del'[v] = del[v] \cup {x}) BY <1>f, ZenonT(60)
    <3> QED BY <3>2, <3>3, <3>4, <1>1, <1>4
  <2>3. ASSUME NEW u \in Tids, op'[u].at \in Through
        PROVE  /\ del'[u] \cap Visible' = {}
               /\ \A v \in Tids : v # u /\ op'[v].at \in Through => del'[u] \cap del'[v] = {}
               /\ ins'[u] \subseteq Visible' \cup
                    UNION {del'[v] : v \in {w \in Tids : op'[w].at \in Through \cup {"lost"}}}
    <3>1. u # t /\ op[u].at \in Through BY <2>3, <2>t, ZenonT(60)
    <3>3. /\ del[u] \cap Visible = {}
          /\ \A v \in Tids : v # u /\ op[v].at \in Through => del[u] \cap del[v] = {}
          /\ ins[u] \subseteq Visible \cup
                    UNION {del[v] : v \in {w \in Tids : op[w].at \in Through \cup {"lost"}}}
      BY <3>1, <1>i, ZenonT(60) DEF History
    <3>4. \A v \in Tids : op'[v].at \in Through \cup {"lost"} <=> op[v].at \in Through \cup {"lost"} BY <2>t, ZenonT(60)
    <3>5. \A v \in Tids : op'[v].at \in Through \cup {"lost"} => v # t /\ del'[v] = del[v] BY <2>t, <1>f, ZenonT(60)
    <3>6. \A v \in Tids : op'[v].at \in Through => op[v].at \in Through /\ del'[v] = del[v] BY <2>t, <1>f, ZenonT(60)
    <3>7. UNION {del[v] : v \in {w \in Tids : op[w].at \in Through \cup {"lost"}}} \subseteq
          UNION {del'[v] : v \in {w \in Tids : op'[w].at \in Through \cup {"lost"}}}
      BY <3>4, <3>5, ZenonT(60)
    <3>8. ins'[u] = ins[u] /\ del'[u] = del[u] BY <3>1, <1>f, ZenonT(60)
    <3> QED BY <3>3, <3>6, <3>7, <3>8, <1>1, ZenonT(60)
  <2> QED BY <2>1, <2>2, <2>3, ZenonT(60) DEF History
<1>12. EditDoes(t, x)
  <2>1. CASE x \in ins[t]
    <3>1. del' = del BY <2>1, <1>i, ZenonT(60)
    <3> QED BY <2>1, <3>1, ZenonT(60) DEF EditDoes
  <2>2. CASE x \notin ins[t]
    <3>1. ins' = ins BY <2>2, <1>i
    <3> QED BY <2>2, <3>1, <1>4, <1>5, ZenonT(60) DEF EditDoes
  <2> QED BY <2>1, <2>2, ZenonT(60)
<1> QED BY <1>1, <1>7, <1>8, <1>9, <1>10, <1>11, <1>12, ZenonT(60)

(* A page is changed in place. *)
LEMMA EditKeeps ==
  ASSUME EngineInv, NEW t \in Tids, Edit(t)
  PROVE  /\ EngineInv' /\ Visible' = Visible
         /\ op[t].at = "edit" /\ op' = [op EXCEPT ![t].at = "put"]
         /\ \E x \in Tuples : EditDoes(t, x)
<1>p. PICK p, x : p = op[t].page /\ x = op[t].tup OBVIOUS
<1>1. /\ p \in Pages /\ x \in Tuples /\ Touch(t, p) /\ StorageTypeOK' /\ Session(t)'
      /\ Cached(p)' => CachedPage(p)'
      /\ LogRight'
      /\ op[t].at = "edit" /\ op'[t].at = "put" /\ op[t].kind \in {"insert", "scan"}
      /\ op[t].kind = "scan" => x \in Own(t, p)
      /\ Own(t, p)' = IF op[t].kind = "insert" THEN Own(t, p) \cup {x} ELSE Own(t, p) \ {x}
      /\ \A q \in Pages \ {p} : Own(t, q)' = Own(t, q)
      /\ ins'[t] = IF op[t].kind = "insert" THEN ins[t] \cup {x} ELSE ins[t] \ {x}
      /\ del'[t] = IF op[t].kind = "insert" \/ x \in ins[t] THEN del[t] ELSE del[t] \cup {x}
      /\ ins' = [ins EXCEPT ![t] = ins'[t]] /\ del' = [del EXCEPT ![t] = del'[t]]
      /\ calls' = calls /\ waitingFor' = waitingFor
  BY <1>p, EditIs, ZenonT(60)
<1>2. /\ \A u \in Tids \ {t} : Session(u)'
      /\ \A q \in (DOMAIN pool' \cap Pages) \ {p} : CachedPage(q)'
      /\ Empty'
      /\ \A q \in Pages : Image(q)' = Image(q)
      /\ \A u \in Tids \ {t}, q \in Pages : Writer(u, q) => q # p /\ Own(u, q)' = Own(u, q)
  BY <1>1, TouchOthers, ZenonT(60)
<1>3. /\ UNCHANGED lockVars /\ Others(t) /\ up' /\ Writer(t, p) BY <1>1 DEF Touch
<1>4. LockInv' BY <1>3, LockInvNext, ZenonT(60) DEF EngineInv
<1>5. \A u \in Tids, q \in Pages : Writer(u, q)' <=> Writer(u, q) BY <1>3, ZenonT(60) DEF lockVars, Writer
<1>6. op[t].at \notin Over /\ op'[t].at \notin Over /\ \A u \in Tids \ {t} : op'[u] = op[u]
  BY <1>1, <1>3, ZenonT(60) DEF Over, Others
<1>7. ~Inserting(t)' BY <1>1, ZenonT(60) DEF Inserting
<1>8. ASSUME op[t].kind = "insert"
      PROVE  /\ OnePage' /\ Counted' /\ \A u \in Tids : Effects(u)'
             /\ History' /\ Visible' = Visible /\ EditDoes(t, x)
             /\ \A u \in Tids \ {t} : NewTuple(u)'
  <2>1. NewTuple(t) /\ Inserting(t) BY <1>1, <1>8, ZenonT(60) DEF EngineInv, Inserting, InStatement
  <2>2. PICK n \in 1..MaxCalls : x = <<t, n>> /\ n <= calls[t] BY <2>1, <1>1, <1>p, ZenonT(60) DEF NewTuple
  <2>3. ~Used(x) BY <2>1, <1>p, ZenonT(60) DEF NewTuple
  <2>4. Numbered(x) BY <2>2, ZenonT(60) DEF Numbered
  <2>5. ins' = [ins EXCEPT ![t] = ins[t] \cup {x}] /\ del' = del
    <3>1. ins'[t] = ins[t] \cup {x} /\ del'[t] = del[t] BY <1>1, <1>8, ZenonT(60)
    <3>2. del \in [Tids -> SUBSET Tuples] BY ZenonT(60) DEF EngineInv, StorageTypeOK
    <3> QED BY <3>1, <3>2, <1>1, ZenonT(60)
  <2>6. Own(t, p)' = Own(t, p) \cup {x} BY <1>1, <1>8, ZenonT(60)
  <2>7. \A u \in Tids \ {t}, q \in Pages : Writer(u, q) => Own(u, q)' = Own(u, q) BY <1>2, ZenonT(60)
  <2>8. /\ OnePage' /\ Counted' /\ \A u \in Tids : Effects(u)'
        /\ History' /\ Visible' = Visible /\ EditDoes(t, x)
        /\ \A y : Used(y)' => Used(y) \/ y = x
    <3>1. /\ p \in Pages /\ x \in Tuples /\ Writer(t, p) /\ calls' = calls
          /\ \A q \in Pages : Image(q)' = Image(q)
          /\ \A q \in Pages \ {p} : Own(t, q)' = Own(t, q)
      BY <1>1, <1>2, <1>3, ZenonT(60)
    <3> QED BY <2>3, <2>4, <2>5, <2>6, <2>7, <3>1, <1>5, <1>6, InsertData, ZenonT(60)
  <2>9. ASSUME NEW u \in Tids \ {t} PROVE NewTuple(u)'
    <3> SUFFICES ASSUME Inserting(u)' PROVE NewTuple(u)' BY ZenonT(60) DEF NewTuple
    <3>1. op'[u] = op[u] BY <1>6, ZenonT(60)
    <3>2. NewTuple(u) /\ Inserting(u) BY <3>1, ZenonT(60) DEF EngineInv, Inserting
    <3>3. PICK y : y = op[u].tup BY ZenonT(60)
    <3>4. PICK k \in 1..MaxCalls : y = <<u, k>> BY <3>2, <3>3, ZenonT(60) DEF NewTuple
    <3>5. y # x BY <3>4, <2>2, ZenonT(60)
    <3>6. Used(op[u].tup)' <=> Used(y)' BY <3>1, <3>3, ZenonT(60) DEF Used, On
    <3>7. Used(y)' => Used(op[u].tup) BY <2>8, <3>3, <3>5, ZenonT(60)
    <3> QED BY <3>1, <3>2, <3>6, <3>7, <1>1, ZenonT(60) DEF NewTuple
  <2> QED BY <2>8, <2>9, ZenonT(60)
<1>9. ASSUME op[t].kind = "scan"
      PROVE  /\ OnePage' /\ Counted' /\ \A u \in Tids : Effects(u)'
             /\ History' /\ Visible' = Visible /\ EditDoes(t, x)
             /\ \A u \in Tids \ {t} : NewTuple(u)'
  <2>1. x \in Own(t, p) /\ Own(t, p)' = Own(t, p) \ {x} BY <1>1, <1>9, ZenonT(60)
  <2>2. /\ ins' = [ins EXCEPT ![t] = ins[t] \ {x}]
        /\ del' = [del EXCEPT ![t] = IF x \in ins[t] THEN del[t] ELSE del[t] \cup {x}]
    BY <1>1, <1>9, ZenonT(60)
  <2>3. /\ OnePage' /\ Counted' /\ \A u \in Tids : Effects(u)'
        /\ History' /\ Visible' = Visible /\ EditDoes(t, x)
        /\ \A y : Used(y)' => Used(y)
    BY <2>1, <2>2, <1>1, <1>2, <1>3, <1>5, <1>6, DeleteData, ZenonT(60)
  <2>4. ASSUME NEW u \in Tids \ {t} PROVE NewTuple(u)'
    <3>1. op'[u] = op[u] BY <1>6
    <3>2. NewTuple(u) BY DEF EngineInv
    <3>3. PICK y : y = op[u].tup BY ZenonT(60)
    <3>4. Used(op[u].tup)' <=> Used(y)' BY <3>1, <3>3, ZenonT(60) DEF Used, On
    <3>5. Used(y)' => Used(op[u].tup) BY <2>3, <3>3, ZenonT(60)
    <3> QED BY <3>1, <3>2, <3>4, <3>5, <1>1, ZenonT(60) DEF NewTuple, Inserting
  <2> QED BY <2>3, <2>4, ZenonT(60)
<1>10. /\ OnePage' /\ Counted' /\ \A u \in Tids : Effects(u)'
       /\ History' /\ Visible' = Visible /\ EditDoes(t, x)
       /\ \A u \in Tids \ {t} : NewTuple(u)'
  BY <1>1, <1>8, <1>9, ZenonT(60)
<1>11. \A q \in DOMAIN pool' : CachedPage(q)' BY <1>1, <1>2, ZenonT(60) DEF StorageTypeOK, Cached
<1>12. NewTuple(t)' BY <1>7, ZenonT(60) DEF NewTuple
<1>13. \A u \in Tids : Session(u)' /\ NewTuple(u)' BY <1>1, <1>2, <1>10, <1>12, ZenonT(60)
<1>14. op' = [op EXCEPT ![t].at = "put"] BY ZenonT(60) DEF Edit, Go
<1>15. EngineInv' BY <1>1, <1>2, <1>3, <1>4, <1>10, <1>11, <1>13, ZenonT(60) DEF EngineInv
<1> QED BY <1>1, <1>10, <1>14, <1>15

=============================================================================
