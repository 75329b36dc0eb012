--------------------------- MODULE ReceiptProofs ---------------------------
(* What a voter is told holds, for any number of voters, workers,          *)
(* elections, nonces, attempts and faults.                                 *)
EXTENDS BallotProofs

Votes == {"CAST", "UPDATE"}

(* The voter's ballot has been given this version or a later one. *)
Reached(T, name, id, version) == \E o \in OwnerRows(T, id, name) : o.version >= version

(* A receipt is for a ballot that is stored, and is the voter's own or has *)
(* been replaced by a later one of theirs.                                 *)
Holds(T, name, id, hash, option, version) ==
  /\ version \in Nat
  /\ \E b \in Matching(T, id, hash) : b.option = option
  /\ \E o \in OwnerRows(T, id, name) :
       (o.hash = hash /\ o.version = version) \/ o.version > version

(* What a join answers, and a session remembers. *)
Told(T, name, id, s) ==
  /\ s.version \in Nat
  /\ IF s.has THEN Reached(T, name, id, s.version) ELSE s.version = 0

(* T's ballots stay in U, and nobody's version goes back. *)
Grows(T, U) ==
  /\ \A name, id : \A v \in Nat : Reached(T, name, id, v) => Reached(U, name, id, v)
  /\ \A name, id, hash, option, version :
       Holds(T, name, id, hash, option, version) => Holds(U, name, id, hash, option, version)

-----------------------------------------------------------------------------

(* An owner row has the version of a ballot. *)
LEMMA OwnerVersions ==
  ASSUME NEW T, Sound(T), NEW o \in T.owner
  PROVE  o.version \in Nat \ {0}
<1>1. PICK b \in T.ballot : b.version = o.version BY DEF Sound, BallotsSound
<1> QED BY <1>1, ZenonT(60) DEF Sound, BallotsSound

(* A transaction of bb_record_ballot keeps every ballot, counted or not,   *)
(* and gives its voter a version one past the last.                        *)
LEMMA RecordedGrows ==
  ASSUME NEW T, NEW j, Sound(T), Passed(T, j)
  PROVE  /\ Grows(T, Recorded(T, j))
         /\ Holds(Recorded(T, j), j.req.name, j.req.id, j.row.hash, j.req.option, j.row.version)
         /\ \A v \in Nat : v = 0 \/ Reached(T, j.req.name, j.req.id, v)
                             => Reached(Recorded(T, j), j.req.name, j.req.id, v + 1)
<1> DEFINE R == Recorded(T, j)
           Old == Matching(T, j.req.id, j.prior)
           mine == [id |-> j.req.id, name |-> j.req.name, hash |-> j.row.hash, version |-> j.row.version]
           rows == OwnerRows(T, j.req.id, j.req.name)
<1>1. /\ R.ballot = ((T.ballot \ Old) \cup {Off(b) : b \in Old}) \cup {j.row}
      /\ R.owner = (T.owner \ rows) \cup {mine}
  BY Records
<1>2. /\ mine.id = j.req.id /\ mine.name = j.req.name /\ mine.hash = j.row.hash
      /\ mine.version = j.row.version
  OBVIOUS
<1>3. j.row.version \in Nat \ {0} /\ j.row.id = j.req.id /\ j.row.option = j.req.option
  <2>1. /\ j.row.version \in Nat \ {0}
        /\ j.row = [id |-> j.req.id, hash |-> <<j.req.nonce, j.row.version>>, option |-> j.req.option,
                    version |-> j.row.version, live |-> TRUE]
    BY NewHash
  <2>2. j.row.id = j.req.id /\ j.row.option = j.req.option BY <2>1
  <2> QED BY <2>1, <2>2
<1> HIDE DEF R, Old, mine, rows
<1>4. mine \in OwnerRows(R, j.req.id, j.req.name) BY <1>1, <1>2 DEF OwnerRows
<1>5. \A o \in rows : o.version \in Nat /\ j.row.version = o.version + 1
  <2> SUFFICES ASSUME NEW o \in rows PROVE o.version \in Nat /\ j.row.version = o.version + 1
    OBVIOUS
  <2>1. PICK p \in rows : j.row.version = p.version + 1 BY DEF Passed, rows
  <2>2. o \in T.owner /\ p \in T.owner /\ o.id = p.id /\ o.name = p.name BY DEF rows, OwnerRows
  <2>3. o = p BY <2>2 DEF Sound, BallotsSound
  <2> QED BY <2>1, <2>2, <2>3, OwnerVersions
<1>6. ASSUME NEW name, NEW id, NEW o \in OwnerRows(T, id, name)
      PROVE  \E p \in OwnerRows(R, id, name) :
               p = o \/ (o.version \in Nat /\ p.version = o.version + 1)
  <2>1. CASE o \in rows
    <3>1. id = j.req.id /\ name = j.req.name BY <2>1 DEF rows, OwnerRows
    <3> QED BY <1>2, <1>4, <1>5, <2>1, <3>1, SMTT(60)
  <2>2. CASE o \notin rows
    BY <1>1, <2>2 DEF OwnerRows
  <2> QED BY <2>1, <2>2
<1>7. ASSUME NEW id, NEW hash, NEW b \in Matching(T, id, hash)
      PROVE  \E p \in Matching(R, id, hash) : p.option = b.option
  <2>1. CASE b \in Old
    <3>1. b = [id |-> b.id, hash |-> b.hash, option |-> b.option, version |-> b.version, live |-> b.live]
      BY ZenonT(60) DEF Sound, BallotsSound, Matching
    <3>2. Off(b).id = b.id /\ Off(b).hash = b.hash /\ Off(b).option = b.option
      BY <3>1 DEF Off
    <3>3. Off(b) \in R.ballot BY <1>1, <2>1
    <3> QED BY <3>2, <3>3 DEF Matching
  <2>2. CASE b \notin Old
    BY <1>1, <2>2 DEF Matching
  <2> QED BY <2>1, <2>2
<1>8. ASSUME NEW name, NEW id, NEW v \in Nat, Reached(T, name, id, v) PROVE Reached(R, name, id, v)
  <2>1. PICK o \in OwnerRows(T, id, name) : o.version >= v BY <1>8 DEF Reached
  <2>2. o.version \in Nat BY OwnerVersions DEF OwnerRows
  <2>3. PICK p \in OwnerRows(R, id, name) : p = o \/ p.version = o.version + 1 BY <1>6
  <2>4. p.version >= v BY <2>1, <2>2, <2>3
  <2> QED BY <2>4 DEF Reached
<1>9. ASSUME NEW name, NEW id, NEW hash, NEW option, NEW version, Holds(T, name, id, hash, option, version)
      PROVE  Holds(R, name, id, hash, option, version)
  <2>1. version \in Nat /\ \E b \in Matching(R, id, hash) : b.option = option
    BY <1>7, <1>9 DEF Holds
  <2>2. PICK o \in OwnerRows(T, id, name) :
          (o.hash = hash /\ o.version = version) \/ o.version > version
    BY <1>9 DEF Holds
  <2>3. o.version \in Nat BY OwnerVersions DEF OwnerRows
  <2>4. PICK p \in OwnerRows(R, id, name) : p = o \/ p.version = o.version + 1 BY <1>6
  <2>5. (p.hash = hash /\ p.version = version) \/ p.version > version BY <2>1, <2>2, <2>3, <2>4, SMTT(60)
  <2> QED BY <2>1, <2>5 DEF Holds
<1>10. Holds(R, j.req.name, j.req.id, j.row.hash, j.req.option, j.row.version)
  <2>1. j.row \in Matching(R, j.req.id, j.row.hash) BY <1>1, <1>3 DEF Matching
  <2> QED BY <1>2, <1>3, <1>4, <2>1, SMTT(60) DEF Holds
<1>11. ASSUME NEW v \in Nat, v = 0 \/ Reached(T, j.req.name, j.req.id, v)
       PROVE  Reached(R, j.req.name, j.req.id, v + 1)
  <2>1. CASE v = 0
    <3>1. mine.version >= v + 1 BY <1>2, <1>3, <2>1
    <3> QED BY <1>4, <3>1, SMTT(60) DEF Reached
  <2>2. CASE Reached(T, j.req.name, j.req.id, v)
    <3>1. PICK o \in rows : o.version >= v BY <2>2 DEF Reached, rows
    <3>2. mine.version >= v + 1 BY <1>2, <1>5, <3>1
    <3> QED BY <1>4, <3>2 DEF Reached
  <2> QED BY <1>11, <2>1, <2>2, SMTT(60)
<1>12. Grows(T, R) BY <1>8, <1>9 DEF Grows
<1> QED BY <1>10, <1>11, <1>12 DEF R

(* Nothing the brain does, and no end of the process, loses a ballot. *)
LEMMA StoreGrows ==
  ASSUME BrainInv, [Next]_ballotVars
  PROVE  Grows(store, store')
<1>1. SameBallots(store') => Grows(store, store')
  BY DEF SameBallots, Grows, Reached, Holds, OwnerRows, Matching
<1>2. job.at = "commit" /\ store' = txn => Grows(store, store')
  BY RecordedGrows DEF BrainInv, TxnFollows
<1>3. store' = store => Grows(store, store') BY DEF Grows
<1>4. CASE Call BY <1>1, <1>2, <1>4, WhoWrites, SMTT(60)
<1>5. CASE Between BY <1>2, <1>3, <1>5, ZenonT(60) DEF Between
<1> QED BY <1>4, <1>5, DaemonSteps, SMTT(60)
-----------------------------------------------------------------------------
(* What a call answers. *)

(* Only a ballot is recorded in a transaction. *)
Voting ==
  job.at \in {"gates", "append", "mark", "owner", "nonce", "commit"} => job.req.op \in Votes

(* The answer to the request r is true of the tables T. *)
Truthful(T, r, a) ==
  a.status = "OK" =>
    /\ r.op \in Votes => Holds(T, r.name, r.id, a.hash, r.option, a.version)
    /\ r.op = "JOIN" => Told(T, r.name, r.id, a)

(* A recorded ballot takes its voter one version on. *)
MovesOn(r, a) ==
  a.status = "OK" /\ r.op \in Votes =>
    \A v \in Nat : v = 0 \/ Reached(store, r.name, r.id, v) => Reached(store', r.name, r.id, v + 1)

(* A refusal says nothing of the tables. *)
LEMMA Refusals ==
  ASSUME NEW s, s # "OK", NEW T, NEW r
  PROVE  Truthful(T, r, Status(s)) /\ MovesOn(r, Status(s))
<1>1. Status(s).status = s BY DEF Status, NoAnswer
<1> QED BY <1>1 DEF Truthful, MovesOn

MayVote(id, has, version) == [Status("OK") EXCEPT !.id = id, !.has = has, !.version = version]

(* bb_join looks the voter's ballot up where it says that they may vote. *)
LEMMA JoinTruthful ==
  ASSUME Sound(store), NEW e, NEW r, r.op = "JOIN"
  PROVE  Truthful(store, r, bb_join(e, r.id, r.name))
<1> DEFINE prior == OwnerRows(store, r.id, r.name)
           version == IF prior = {} THEN 0 ELSE (CHOOSE o \in prior : TRUE).version
           has == prior # {}
           a == bb_join(e, r.id, r.name)
<1>1. CASE a = Status("NOT_ELIGIBLE") \/ a = Status("NOT_OPEN")
  BY <1>1, Refusals
<1>2. CASE a = MayVote(r.id, has, version)
  <2>1. \A i, h, v : MayVote(i, h, v).has = h /\ MayVote(i, h, v).version = v
    BY DEF MayVote, Status, NoAnswer
  <2>2. prior # {} => version \in Nat /\ Reached(store, r.name, r.id, version)
    <3> SUFFICES ASSUME prior # {} PROVE version \in Nat /\ Reached(store, r.name, r.id, version)
      OBVIOUS
    <3>1. PICK o \in prior : version = o.version
      BY ZenonT(60)
    <3>2. o.version \in Nat BY OwnerVersions DEF OwnerRows
    <3>3. o.version >= version BY <3>1, <3>2
    <3> HIDE DEF version
    <3> QED BY <3>1, <3>2, <3>3 DEF Reached
  <2>3. prior = {} => version = 0
    OBVIOUS
  <2>h. IF prior = {} THEN has = FALSE ELSE has = TRUE
    OBVIOUS
  <2> HIDE DEF version, prior, has, a
  <2>4. a.has = has /\ a.version = version
    BY <1>2, <2>1
  <2>5. CASE prior = {}
    <3>1. a.has = FALSE BY <2>4, <2>5, <2>h
    <3>2. a.version = 0 BY <2>3, <2>4, <2>5
    <3> QED BY <3>1, <3>2 DEF Told, Truthful, Votes, a
  <2>6. CASE prior # {}
    <3>1. a.has = TRUE BY <2>4, <2>6, <2>h
    <3>2. Told(store, r.name, r.id, a) BY <2>2, <2>4, <2>6, <3>1, ZenonT(60) DEF Told
    <3> QED BY <3>2 DEF Truthful, Votes, a
  <2> QED BY <2>5, <2>6
<1> QED BY <1>1, <1>2 DEF bb_join, run_get_prior_ballot, MayVote

(* Every call that is done has answered truthfully. *)
LEMMA CallAnswers ==
  ASSUME BrainInv, Voting, Call
  PROVE  /\ job.at # "done" /\ job'.req = job.req /\ Voting'
         /\ job'.at = "done" =>
              Truthful(store', job.req, job'.answer) /\ MovesOn(job.req, job'.answer)
<1> DEFINE Goal == /\ job.at # "done" /\ job'.req = job.req /\ Voting'
                   /\ job'.at = "done" =>
                        Truthful(store', job.req, job'.answer) /\ MovesOn(job.req, job'.answer)
<1> SUFFICES Goal
  OBVIOUS
<1>0. IsJob(job) /\ Sound(store) BY DEF BrainInv
<1>1. ASSUME NEW a, Finish(a), job.at # "done", Truthful(store', job.req, a), MovesOn(job.req, a)
      PROVE  Goal
  <2>1. job'.at = "done" /\ job'.req = job.req /\ job'.answer = a
    BY <1>0, <1>1, SMTT(60) DEF Finish, IsJob
  <2> QED BY <1>1, <2>1 DEF Voting
<1>2. ASSUME NEW s, s # "OK", Finish(Status(s)), job.at # "done" PROVE Goal
  BY <1>1, <1>2, Refusals
<1>3. ASSUME NEW at, job' = [job EXCEPT !.at = at], at # "done", job.at # "done", job.req.op \in Votes
      PROVE  Goal
  <2>1. job'.at = at /\ job'.req = job.req BY <1>0, <1>3, SMTT(60) DEF IsJob
  <2> QED BY <1>3, <2>1 DEF Voting
<1>4. ASSUME NEW a, Finish(a), job.at # "done", job.req.op \notin Votes \cup {"JOIN"} PROVE Goal
  BY <1>1, <1>4 DEF Truthful, MovesOn
<1>5. ASSUME NEW ops, Dispatched(ops), ops \cap (Votes \cup {"JOIN"}) = {}, \E a : Finish(a)
      PROVE  Goal
  BY <1>4, <1>5 DEF Dispatched
<1>6. CASE Read
  <2>1. job.at # "done" /\ store' = store BY <1>6 DEF Read, Dispatched
  <2>2. CASE job.req.op # "JOIN"
    BY <1>4, <1>6, <2>1, <2>2, SMTT(60) DEF Read, Dispatched, Votes
  <2>3. CASE job.req.op = "JOIN"
    <3>1. CASE Finish(Status("NOT_FOUND")) BY <1>2, <2>1, <3>1, SMTT(60)
    <3>2. ASSUME NEW e, Finish(bb_join(e, job.req.id, job.req.name)) PROVE Goal
      <4>1. Truthful(store', job.req, bb_join(e, job.req.id, job.req.name))
        BY <1>0, <2>1, <2>3, JoinTruthful, SMTT(60)
      <4>2. MovesOn(job.req, bb_join(e, job.req.id, job.req.name)) BY <2>3 DEF MovesOn, Votes
      <4> QED BY <1>1, <2>1, <3>2, <4>1, <4>2, SMTT(60)
    <3> QED BY <1>6, <2>3, <3>1, <3>2, SMTT(60) DEF Read
  <2> QED BY <2>2, <2>3
<1>7. CASE NextId
  BY <1>5, <1>7 DEF NextId, Votes
<1>8. CASE bb_transition_state
  BY <1>5, <1>8, SMTT(60) DEF bb_transition_state, Write, Votes
<1>9. ASSUME NEW names \in SUBSET Accounts, bb_create_election(names) PROVE Goal
  BY <1>5, <1>9, ZenonT(60) DEF bb_create_election, Write, Votes
<1>10. CASE CallFails \/ BeginFails
  BY <1>2, <1>10 DEF CallFails, BeginFails, Dispatched
<1>11. CASE bb_db_begin
  BY <1>3, <1>11 DEF bb_db_begin, Dispatched, Votes
<1>12. CASE AppendBallot \/ MarkSuperseded \/ SetOwner \/ NonceMark
  BY <1>3, <1>12 DEF AppendBallot, MarkSuperseded, SetOwner, NonceMark, Statement, Voting
<1>13. CASE Gates
  <2>0. job.at = "gates" /\ job.req.op \in Votes BY <1>13, ZenonT(60) DEF Gates, Voting
  <2>1. CASE Finish(Status("NOT_FOUND")) BY <1>2, <2>0, <2>1, SMTT(60)
  <2>2. ASSUME NEW e, Finish(Status(Verdict(txn, e, job.req))), Verdict(txn, e, job.req) # "OK" PROVE Goal
    BY <1>2, <2>0, <2>2, SMTT(60)
  <2>3. CASE \E p, q : job' = [job EXCEPT !.at = "append", !.prior = p, !.row = q]
    <3>1. job'.at = "append" /\ job'.req = job.req BY <1>0, <2>3 DEF IsJob
    <3> QED BY <2>0, <3>1, SMTT(60) DEF Voting
  <2> HIDE DEF Goal
  <2> QED BY <1>13, <2>1, <2>2, <2>3, ZenonT(60) DEF Gates
<1>14. ASSUME Redo, job.at # "done" PROVE Goal
  <2>1. CASE job' = [job EXCEPT !.at = "call", !.attempt = @ + 1, !.prior = NoHash, !.row = NoRow]
    <3>1. job'.at = "call" /\ job'.req = job.req BY <1>0, <2>1, SMTT(60) DEF IsJob
    <3> QED BY <1>14, <3>1 DEF Voting
  <2> QED BY <1>2, <1>14, <2>1, SMTT(60) DEF Redo
<1>15. CASE StatementFails
  BY <1>2, <1>14, <1>15, SMTT(60) DEF StatementFails
<1>16. CASE CommitFails
  BY <1>2, <1>14, <1>16, SMTT(60) DEF CommitFails
<1>17. CASE bb_db_commit
  <2> DEFINE a == [Status("OK") EXCEPT !.id = job.req.id, !.hash = job.row.hash, !.version = job.row.version]
  <2>1. job.at = "commit" /\ Finish(a) /\ store' = Recorded(store, job) /\ Passed(store, job)
    BY <1>17 DEF bb_db_commit, BrainInv, TxnFollows
  <2>2. a.hash = job.row.hash /\ a.version = job.row.version BY DEF Status, NoAnswer
  <2> HIDE DEF a
  <2>3. job.req.op \in Votes BY <2>1, ZenonT(60) DEF Voting
  <2>4. Truthful(store', job.req, a) /\ MovesOn(job.req, a)
    BY <1>0, <2>1, <2>2, <2>3, RecordedGrows, ZenonT(60) DEF Truthful, MovesOn, Votes
  <2> QED BY <1>1, <2>1, <2>4
<1> QED
  BY <1>6, <1>7, <1>8, <1>9, <1>10, <1>11, <1>12, <1>13, <1>15, <1>16, <1>17, SMTT(60) DEF Call, Record
-----------------------------------------------------------------------------
(* A client and its worker.  One request is under way at a time: it is     *)
(* with the worker, with the admin thread or answered, so that an answer   *)
(* is never taken for the answer to another request.                       *)

IsWorker(x) ==
  x = [at |-> x.at, client |-> x.client, inherits |-> x.inherits, ours |-> x.ours,
       refused |-> x.refused, asked |-> x.asked, reply |-> x.reply]

IsClient(x) ==
  x = [at |-> x.at, worker |-> x.worker, session |-> x.session, sent |-> x.sent, submits |-> x.submits]

IsSession(s) == s = [joined |-> s.joined, id |-> s.id, has |-> s.has, version |-> s.version]

WorkersWell ==
  /\ worker = [w \in Workers |-> worker[w]]
  /\ \A w \in Workers :
       /\ IsWorker(worker[w])
       /\ worker[w].at \notin {"none", "gone"} => worker[w].client \in Clients
       /\ worker[w].at = "none" => worker[w].asked = NoRequest
  /\ serving \in Workers \cup {NoWorker, Operator}
  /\ serving \in Workers => worker[serving].at # "none"

ClientsWell ==
  /\ cli = [c \in Clients |-> cli[c]]
  /\ \A c \in Clients : IsClient(cli[c]) /\ IsSession(cli[c].session)

(* The request c waits for an answer to, under the name c signed in with. *)
Request(c) ==
  [op |-> cli[c].sent.op, id |-> cli[c].sent.id, name |-> Account[c], option |-> cli[c].sent.option]

IsFrom(r, c) ==
  /\ r.op = Request(c).op /\ r.id = Request(c).id /\ r.name = Request(c).name
  /\ r.option = Request(c).option

Answered(c, a) ==
  /\ Truthful(store, Request(c), a)
  /\ a.status = "OK" /\ cli[c].sent.op \in Votes =>
       Reached(store, Account[c], cli[c].sent.id, cli[c].session.version + 1)

Waiting(c, w) ==
  /\ worker[w].asked # NoRequest =>
       IsFrom(worker[w].asked, c) /\ worker[w].reply = NoAnswer /\ serving # w
  /\ serving = w =>
       /\ IsFrom(job.req, c) /\ worker[w].reply = NoAnswer
       /\ job.at = "done" => Answered(c, job.answer)
  /\ worker[w].reply # NoAnswer => Answered(c, worker[w].reply)

Resting(w) == worker[w].asked = NoRequest /\ worker[w].reply = NoAnswer /\ serving # w

Remembers(c) ==
  LET s == cli[c].session
  IN  /\ s.joined => Told(store, Account[c], s.id, s)
      /\ cli[c].at = "wait" /\ cli[c].sent.op \in Votes => s.joined /\ s.id = cli[c].sent.id

Attached(c) ==
  LET w == cli[c].worker
  IN  /\ cli[c].at \in {"connect", "auth", "menu", "wait"}
      /\ cli[c].at # "connect" => w \in Workers
      /\ w \in Workers =>
           /\ worker[w].at # "none"
           /\ worker[w].at # "gone" =>
                /\ worker[w].client = c
                /\ IF cli[c].at = "wait" THEN Waiting(c, w) ELSE Resting(w)

Linked(c) == Remembers(c) /\ Attached(c)

ShownTrue == \A r \in shown : Holds(store, r.name, r.id, r.hash, r.option, r.version)

PeersInv == WorkersWell /\ ClientsWell /\ ShownTrue /\ \A c \in Clients : Linked(c)

ReceiptInv == BrainInv /\ Voting /\ PeersInv

(* What is true of the tables stays true as they grow. *)
LEMMA StaysTrue ==
  ASSUME NEW T, NEW U, Grows(T, U)
  PROVE  /\ \A name, id, s : Told(T, name, id, s) => Told(U, name, id, s)
         /\ \A r, a : Truthful(T, r, a) => Truthful(U, r, a)
<1>1. \A name, id, s : Told(T, name, id, s) => Told(U, name, id, s) BY DEF Grows, Told
<1> QED BY <1>1 DEF Grows, Truthful

(* A step of somebody else leaves c and its worker as they were: at most   *)
(* the worker is ended, or its request or answer dropped.                  *)
Quiet(c) ==
  LET w == cli[c].worker
  IN  /\ cli'[c] = cli[c]
      /\ w \in Workers =>
           /\ worker[w].at # "none" => worker'[w].at # "none"
           /\ worker'[w].at # "gone" =>
                /\ worker[w].at # "gone" /\ worker'[w].client = worker[w].client
                /\ worker'[w].asked \in {worker[w].asked, NoRequest}
                /\ worker'[w].reply \in {worker[w].reply, NoAnswer}
           /\ serving' = w => serving = w /\ job' = job

(* Then c and its worker still agree. *)
LEMMA QuietKeeps ==
  ASSUME NEW c \in Clients, Linked(c), Quiet(c), Grows(store, store')
  PROVE  Linked(c)'
<1>1. cli'[c] = cli[c] BY SMTT(60) DEF Quiet
<1>2. Remembers(c)' BY <1>1, StaysTrue, ZenonT(60) DEF Remembers, Linked
<1>3. ASSUME NEW w \in Workers, w = cli[c].worker, worker'[w].at # "gone"
      PROVE  /\ worker'[w].client = c
             /\ IF cli[c].at = "wait" THEN Waiting(c, w)' ELSE Resting(w)'
  <2>1. /\ worker[w].at # "gone" /\ worker'[w].client = worker[w].client
        /\ worker'[w].asked \in {worker[w].asked, NoRequest}
        /\ worker'[w].reply \in {worker[w].reply, NoAnswer}
        /\ serving' = w => serving = w /\ job' = job
    BY <1>3, ZenonT(60) DEF Quiet
  <2>2. worker[w].client = c /\ IF cli[c].at = "wait" THEN Waiting(c, w) ELSE Resting(w)
    BY <1>3, <2>1, SMTT(60) DEF Linked, Attached
  <2>3. CASE cli[c].at # "wait"
    BY <2>1, <2>2, <2>3, ZenonT(60) DEF Resting
  <2>4. CASE cli[c].at = "wait"
    <3>1. \A r : IsFrom(r, c) => IsFrom(r, c)' BY <1>1, ZenonT(60) DEF IsFrom, Request
    <3>2. \A a : Answered(c, a) => Answered(c, a)'
      <4> SUFFICES ASSUME NEW a, Answered(c, a) PROVE Answered(c, a)'
        OBVIOUS
      <4>1. Request(c)' = Request(c) BY <1>1, ZenonT(60) DEF Request
      <4>2. Truthful(store', Request(c), a) BY StaysTrue, ZenonT(60) DEF Answered
      <4>3. a.status = "OK" /\ cli[c].sent.op \in Votes =>
              Reached(store', Account[c], cli[c].sent.id, cli[c].session.version + 1)
        <5> SUFFICES ASSUME a.status = "OK", cli[c].sent.op \in Votes
                     PROVE  Reached(store', Account[c], cli[c].sent.id, cli[c].session.version + 1)
          BY SMTT(60)
        <5>1. cli[c].session.version \in Nat BY <2>4, SMTT(60) DEF Linked, Remembers, Told
        <5>2. cli[c].session.version + 1 \in Nat BY <5>1, SMTT(60)
        <5> QED BY <5>2, SMTT(60) DEF Answered, Grows
      <4> QED BY <1>1, <4>1, <4>2, <4>3, SMTT(60) DEF Answered
    <3> QED BY <2>1, <2>2, <2>4, <3>1, <3>2, ZenonT(60) DEF Waiting
  <2> QED BY <2>1, <2>2, <2>3, <2>4, ZenonT(60)
<1>4. Attached(c)'
  <2>1. cli[c].worker \in Workers => worker'[cli[c].worker].at # "none" BY SMTT(60) DEF Quiet, Linked, Attached
  <2>2. /\ cli[c].at \in {"connect", "auth", "menu", "wait"}
        /\ cli[c].at # "connect" => cli[c].worker \in Workers
    BY DEF Linked, Attached
  <2> QED BY <1>1, <1>3, <2>1, <2>2, ZenonT(60) DEF Attached
<1> QED BY <1>2, <1>4, ZenonT(60) DEF Linked

(* No worker is given a request or an answer, and the admin thread starts  *)
(* none.                                                                   *)
Tame ==
  /\ worker' = [w \in Workers |-> worker'[w]]
  /\ \A w \in Workers :
       /\ IsWorker(worker'[w])
       /\ worker'[w].at = "none" => worker[w].at = "none"
       /\ worker'[w].at # "gone" =>
            /\ worker[w].at # "gone" /\ worker'[w].client = worker[w].client
            /\ worker[w].at = "none" => worker'[w].at = "none"
       /\ worker'[w].asked \in {worker[w].asked, NoRequest}
       /\ worker'[w].reply \in {worker[w].reply, NoAnswer}
  /\ (serving' = serving /\ job' = job) \/ serving' \in {NoWorker, Operator}

(* Neither the operator nor nobody is a worker. *)
LEMMA NotWorkers == NoWorker \notin Workers /\ Operator \notin Workers
BY BallotdAssumption DEF NoWorker, Operator

(* A worker that has ended asks nothing. *)
LEMMA GoneWell ==
  IsWorker(Gone) /\ Gone.at = "gone" /\ Gone.asked = NoRequest /\ Gone.reply = NoAnswer
<1>1. \A o, f :
        LET x == [[at |-> "none", client |-> NoClient, inherits |-> {}, ours |-> o, refused |-> f,
                   asked |-> NoRequest, reply |-> NoAnswer] EXCEPT !.at = "gone"]
        IN  IsWorker(x) /\ x.at = "gone" /\ x.asked = NoRequest /\ x.reply = NoAnswer
  BY DEF IsWorker
<1> QED BY <1>1, ZenonT(60) DEF Gone, FreshWorker

(* Such a step leaves the clients it does not move linked. *)
LEMMA TameKeeps ==
  ASSUME PeersInv, Tame, Grows(store, store')
  PROVE  /\ WorkersWell'
         /\ \A c \in Clients : cli'[c] = cli[c] => Linked(c)'
<1>1. WorkersWell' BY NotWorkers DEF PeersInv, WorkersWell, Tame
<1>2. ASSUME NEW c \in Clients, cli'[c] = cli[c] PROVE Linked(c)'
  <2>1. Quiet(c) BY <1>2, NotWorkers, SMTT(60) DEF Tame, Quiet
  <2> QED BY <2>1, QuietKeeps, ZenonT(60) DEF PeersInv
<1> QED BY <1>1, <1>2, SMTT(60)

(* What was shown stays true. *)
LEMMA ShownStays == ASSUME PeersInv, Grows(store, store'), shown' = shown PROVE ShownTrue'
BY SMTT(60) DEF PeersInv, ShownTrue, Grows

(* So is everything if no client moves either. *)
LEMMA IdleKeeps ==
  ASSUME PeersInv, Tame, Grows(store, store'), cli' = cli, shown' = shown
  PROVE  PeersInv'
BY TameKeeps, ShownStays, SMTT(60) DEF PeersInv, ClientsWell

(* The steps of the daemon that touch no request: threads that stop,       *)
(* signals, a restart, workers registered, refused or ended.               *)
LEMMA DaemonKeeps ==
  ASSUME PeersInv, Grows(store, store'),
         \/ UNCHANGED ballotVars \/ ListenerQuits \/ AcceptFails \/ BindFails \/ Ctl
         \/ on_terminate \/ JoinAccepting \/ Return \/ Kill \/ Start
         \/ Register \/ TakeCtl \/ AdminQuits \/ \E w \in Workers : drop_worker(w)
  PROVE  PeersInv'
<1>0. /\ worker = [w \in Workers |-> worker[w]]
      /\ \A w \in Workers : IsWorker(worker[w])
  BY DEF PeersInv, WorkersWell
<1>1. ASSUME UNCHANGED <<worker, cli, shown>>,
             (serving' = serving /\ job' = job) \/ serving' \in {NoWorker, Operator}
      PROVE  PeersInv'
  <2>1. Tame BY <1>0, <1>1, SMTT(60) DEF Tame
  <2> QED BY <1>1, <2>1, IdleKeeps, SMTT(60)
<1>2. CASE UNCHANGED ballotVars
  BY <1>1, <1>2, ZenonT(60) DEF ballotVars, brainVars, procVars
<1>3. CASE ListenerQuits \/ AcceptFails \/ BindFails
  BY <1>1, <1>3, ZenonT(60) DEF ListenerQuits, AcceptFails, BindFails, StopListener
<1>4. CASE Ctl
  BY <1>1, <1>4, ZenonT(60) DEF Ctl, handle_conn, CtlQuits, CtlFails, EndCtl, CtlDone, brainVars
<1>5. CASE on_terminate \/ JoinAccepting \/ Return \/ Kill
  BY <1>1, <1>5, SMTT(60) DEF on_terminate, JoinAccepting, Return, Kill, brainVars
<1>6. CASE TakeCtl \/ \E w \in Workers : drop_worker(w)
  BY <1>1, <1>6, SMTT(60) DEF TakeCtl, Begin, drop_worker, brainVars
<1>7. CASE Start
  <2>1. worker' = [w \in Workers |-> [worker[w] EXCEPT !.ours = ~Alive(w)]]
    BY <1>7 DEF Start
  <2>2. UNCHANGED <<cli, shown, serving, job>> BY <1>7 DEF Start, brainVars
  <2>3. \A z : \A w \in Workers :
          LET x == [worker[w] EXCEPT !.ours = z]
          IN  /\ IsWorker(x) /\ x.at = worker[w].at /\ x.client = worker[w].client
              /\ x.asked = worker[w].asked /\ x.reply = worker[w].reply
    BY <1>0 DEF IsWorker
  <2>4. Tame BY <2>1, <2>2, <2>3, ZenonT(60) DEF Tame
  <2> QED BY <2>2, <2>4, IdleKeeps, SMTT(60)
<1>8. CASE Register
  <2>1. /\ UNCHANGED <<cli, shown, serving, job>>
        /\ worker' = [w \in Workers |-> worker'[w]]
    BY <1>8 DEF Register, brainVars
  <2>2. ASSUME NEW w \in Workers
        PROVE  /\ IsWorker(worker'[w]) /\ worker'[w].at = worker[w].at
               /\ worker'[w].client = worker[w].client
               /\ worker'[w].asked = worker[w].asked /\ worker'[w].reply = worker[w].reply
    <3>1. PICK z : worker'[w] = [worker[w] EXCEPT !.refused = z] BY <1>8, ZenonT(60) DEF Register
    <3> QED BY <1>0, <3>1 DEF IsWorker
  <2>3. Tame BY <2>1, <2>2 DEF Tame
  <2> QED BY <2>1, <2>3, IdleKeeps
<1>9. CASE AdminQuits
  <2>1. worker' = Killed(Queued \cup table) /\ UNCHANGED <<cli, shown, serving, job>>
    BY <1>9, SMTT(60) DEF AdminQuits, admin_teardown, brainVars
  <2>2. Tame BY <1>0, <2>1, GoneWell, ZenonT(60) DEF Tame, Killed
  <2> QED BY <2>1, <2>2, IdleKeeps, SMTT(60)
<1> QED BY <1>2, <1>3, <1>4, <1>5, <1>6, <1>7, <1>8, <1>9, ZenonT(60)

(* A client that has a worker of its own and is where the admin thread is  *)
(* at work waits for that answer.                                          *)
LEMMA ServedWaits ==
  ASSUME NEW c \in Clients, Linked(c), NEW w \in Workers, w = cli[c].worker, serving = w,
         worker[w].at # "gone"
  PROVE  cli[c].at = "wait" /\ worker[w].client = c /\ Waiting(c, w) /\ worker[w].asked = NoRequest
<1>1. worker[w].client = c /\ IF cli[c].at = "wait" THEN Waiting(c, w) ELSE Resting(w)
  BY DEF Linked, Attached
<1> QED BY <1>1, ZenonT(60) DEF Resting, Waiting

(* A step of a call: if it is the last, its answer is the client's. *)
LEMMA WorkKeeps ==
  ASSUME ReceiptInv, Grows(store, store'), Work
  PROVE  PeersInv'
<1>0. /\ UNCHANGED <<worker, cli, shown, serving>> /\ Call
  BY SMTT(60) DEF Work, procVars
<1>1. WorkersWell' /\ ClientsWell' BY <1>0 DEF ReceiptInv, PeersInv, WorkersWell, ClientsWell
<1>2. ShownTrue' BY <1>0, ShownStays, SMTT(60) DEF ReceiptInv
<1>3. ASSUME NEW c \in Clients, serving # cli[c].worker PROVE Linked(c)'
  <2>1. Quiet(c) BY <1>0, <1>3, SMTT(60) DEF Quiet
  <2> QED BY <2>1, QuietKeeps, SMTT(60) DEF ReceiptInv, PeersInv
<1>4. ASSUME NEW c \in Clients, serving = cli[c].worker PROVE Linked(c)'
  <2>0. Linked(c) BY ZenonT(60) DEF ReceiptInv, PeersInv
  <2>1. Remembers(c)' BY <1>0, <2>0, StaysTrue, SMTT(60) DEF Linked, Remembers
  <2>2. ASSUME NEW w \in Workers, w = cli[c].worker, worker[w].at # "gone"
        PROVE  cli[c].at = "wait" /\ worker[w].client = c /\ Waiting(c, w)'
    <3>1. /\ cli[c].at = "wait" /\ worker[w].client = c /\ worker[w].asked = NoRequest
          /\ IsFrom(job.req, c) /\ worker[w].reply = NoAnswer
      BY <1>4, <2>0, <2>2, ServedWaits, SMTT(60) DEF Waiting
    <3>2. /\ job'.req = job.req
          /\ job'.at = "done" => Truthful(store', job.req, job'.answer) /\ MovesOn(job.req, job'.answer)
      BY <1>0, CallAnswers, ZenonT(60) DEF ReceiptInv
    <3>3. IsFrom(job.req, c)' BY <1>0, <3>1, <3>2, ZenonT(60) DEF IsFrom, Request
    <3>4. ASSUME job'.at = "done" PROVE Answered(c, job.answer)'
      <4>1. Truthful(store', Request(c), job'.answer)
        BY <3>1, <3>2, <3>4, SMTT(60) DEF IsFrom, Truthful
      <4>2. Request(c)' = Request(c) BY <1>0, SMTT(60) DEF Request
      <4>3. ASSUME job'.answer.status = "OK", cli[c].sent.op \in Votes
            PROVE  Reached(store', Account[c], cli[c].sent.id, cli[c].session.version + 1)
        <5> DEFINE v == cli[c].session.version
        <5>1. job.req.op \in Votes /\ job.req.name = Account[c] /\ job.req.id = cli[c].sent.id
          BY <3>1, <4>3, SMTT(60) DEF IsFrom, Request
        <5>2. v \in Nat /\ (v = 0 \/ Reached(store, Account[c], cli[c].sent.id, v))
          BY <2>0, <3>1, <4>3, ZenonT(60) DEF Linked, Remembers, Told
        <5> HIDE DEF v
        <5>3. Reached(store', job.req.name, job.req.id, v + 1)
          BY <3>2, <3>4, <4>3, <5>1, <5>2, ZenonT(60) DEF MovesOn
        <5> QED BY <5>1, <5>3, ZenonT(60) DEF v
      <4> QED BY <1>0, <4>1, <4>2, <4>3, ZenonT(60) DEF Answered
    <3> QED BY <1>0, <3>1, <3>3, <3>4, ZenonT(60) DEF Waiting
  <2>3. Attached(c)'
    BY <1>0, <2>0, <2>2, SMTT(60) DEF Linked, Attached
  <2> QED BY <2>1, <2>3, SMTT(60) DEF Linked
<1> QED BY <1>1, <1>2, <1>3, <1>4, SMTT(60) DEF PeersInv

(* The admin thread takes the request of a worker. *)
LEMMA TakeKeeps ==
  ASSUME PeersInv, Grows(store, store'), NEW x \in Workers, TakeRequest(x)
  PROVE  PeersInv'
<1>0. /\ UNCHANGED <<store, cli, shown>> /\ serving = NoWorker /\ serving' = x
      /\ worker[x].asked # NoRequest /\ worker' = [worker EXCEPT ![x].asked = NoRequest]
      /\ job' = [NoJob EXCEPT !.req = worker[x].asked, !.at = "call"]
  BY DEF TakeRequest, Begin
<1>1. job'.req = worker[x].asked /\ job'.at = "call" BY <1>0, SMTT(60) DEF NoJob
<1>2. /\ worker' = [w \in Workers |-> worker'[w]]
      /\ \A w \in Workers \ {x} : worker'[w] = worker[w]
      /\ IsWorker(worker'[x]) /\ worker'[x].at = worker[x].at /\ worker'[x].client = worker[x].client
      /\ worker'[x].asked = NoRequest /\ worker'[x].reply = worker[x].reply
  BY <1>0 DEF PeersInv, WorkersWell, IsWorker
<1>3. worker[x].at # "none" BY <1>0, SMTT(60) DEF PeersInv, WorkersWell
<1>4. WorkersWell' BY <1>0, <1>2, <1>3, SMTT(60) DEF PeersInv, WorkersWell
<1>5. ClientsWell' /\ ShownTrue' BY <1>0, ShownStays, SMTT(60) DEF PeersInv, ClientsWell
<1>6. ASSUME NEW c \in Clients, cli[c].worker # x PROVE Linked(c)'
  <2>1. Quiet(c) BY <1>0, <1>2, <1>6, SMTT(60) DEF Quiet
  <2> QED BY <2>1, QuietKeeps, SMTT(60) DEF PeersInv
<1>7. ASSUME NEW c \in Clients, cli[c].worker = x PROVE Linked(c)'
  <2>0. Linked(c) BY SMTT(60) DEF PeersInv
  <2>1. Remembers(c)' BY <1>0, <2>0, SMTT(60) DEF Linked, Remembers
  <2>2. ASSUME worker[x].at # "gone"
        PROVE  cli[c].at = "wait" /\ worker[x].client = c /\ Waiting(c, x)'
    <3>1. worker[x].client = c /\ IF cli[c].at = "wait" THEN Waiting(c, x) ELSE Resting(x)
      BY <1>7, <2>0, <2>2, SMTT(60) DEF Linked, Attached
    <3>2. cli[c].at = "wait" /\ IsFrom(worker[x].asked, c) /\ worker[x].reply = NoAnswer
      BY <1>0, <3>1, SMTT(60) DEF Resting, Waiting
    <3>3. IsFrom(job.req, c)' BY <1>0, <1>1, <3>2, SMTT(60) DEF IsFrom, Request
    <3> QED BY <1>1, <1>2, <3>1, <3>2, <3>3, ZenonT(60) DEF Waiting
  <2>3. Attached(c)' BY <1>0, <1>2, <1>7, <2>0, <2>2, SMTT(60) DEF Linked, Attached
  <2> QED BY <2>1, <2>3, SMTT(60) DEF Linked
<1> QED BY <1>4, <1>5, <1>6, <1>7, SMTT(60) DEF PeersInv

(* The answer goes to the worker whose request it was, or the operator. *)
LEMMA ReplyKeeps ==
  ASSUME PeersInv, Grows(store, store'), Reply
  PROVE  PeersInv'
<1>0. /\ UNCHANGED <<store, cli, shown>> /\ serving' = NoWorker /\ job.at = "done"
  BY SMTT(60) DEF Reply
<1>w. /\ worker = [w \in Workers |-> worker[w]] /\ \A w \in Workers : IsWorker(worker[w])
      /\ serving \in Workers \cup {NoWorker, Operator}
  BY DEF PeersInv, WorkersWell
<1>1. CASE serving \notin Workers
  <2>1. worker' = worker
    <3>1. CASE serving = Operator BY <3>1 DEF Reply
    <3>2. CASE serving # Operator
      BY <1>w, <1>1, <3>2, SMTT(60) DEF Reply
    <3> QED BY <3>1, <3>2
  <2>2. Tame BY <1>0, <1>w, <2>1, SMTT(60) DEF Tame
  <2> QED BY <1>0, <2>2, IdleKeeps, SMTT(60)
<1>2. ASSUME NEW x \in Workers, serving = x PROVE PeersInv'
  <2>1. worker' = [worker EXCEPT ![x].reply = job.answer] BY <1>2, NotWorkers, SMTT(60) DEF Reply
  <2>2. /\ worker' = [w \in Workers |-> worker'[w]]
        /\ \A w \in Workers \ {x} : worker'[w] = worker[w]
        /\ IsWorker(worker'[x]) /\ worker'[x].at = worker[x].at /\ worker'[x].client = worker[x].client
        /\ worker'[x].asked = worker[x].asked /\ worker'[x].reply = job.answer
    BY <1>w, <2>1, SMTT(60) DEF IsWorker
  <2>3. WorkersWell' BY <1>0, <2>2, NotWorkers, SMTT(60) DEF PeersInv, WorkersWell
  <2>4. ClientsWell' /\ ShownTrue' BY <1>0, ShownStays, SMTT(60) DEF PeersInv, ClientsWell
  <2>5. ASSUME NEW c \in Clients, cli[c].worker # x PROVE Linked(c)'
    <3>1. Quiet(c) BY <1>0, <2>2, <2>5, NotWorkers, SMTT(60) DEF Quiet
    <3> QED BY <3>1, QuietKeeps, ZenonT(60) DEF PeersInv
  <2>6. ASSUME NEW c \in Clients, cli[c].worker = x PROVE Linked(c)'
    <3>0. Linked(c) BY ZenonT(60) DEF PeersInv
    <3>1. Remembers(c)' BY <1>0, <3>0, SMTT(60) DEF Linked, Remembers
    <3>2. ASSUME worker[x].at # "gone"
          PROVE  cli[c].at = "wait" /\ worker[x].client = c /\ Waiting(c, x)'
      <4>1. /\ cli[c].at = "wait" /\ worker[x].client = c /\ worker[x].asked = NoRequest
            /\ Answered(c, job.answer)
        BY <1>0, <1>2, <2>6, <3>0, <3>2, ServedWaits, ZenonT(60) DEF Waiting
      <4>2. Answered(c, job.answer) => Answered(c, worker[x].reply)'
        BY <1>0, <2>2, ZenonT(60) DEF Answered, Request
      <4> QED BY <1>0, <2>2, <4>1, <4>2, NotWorkers, ZenonT(60) DEF Waiting
    <3>3. Attached(c)' BY <1>0, <2>2, <2>6, <3>0, <3>2, SMTT(60) DEF Linked, Attached
    <3> QED BY <3>1, <3>3, SMTT(60) DEF Linked
  <2> QED BY <2>3, <2>4, <2>5, <2>6, SMTT(60) DEF PeersInv
<1> QED BY <1>1, <1>2, SMTT(60)

(* What a client becomes: connected (Accept), *)
LEMMA ClientAccepted ==
  ASSUME NEW x, IsClient(x), NEW a, NEW b
  PROVE  [x EXCEPT !.at = a, !.worker = b] =
           [at |-> a, worker |-> b, session |-> x.session, sent |-> x.sent, submits |-> x.submits]
<1>1. DOMAIN x = {"at", "worker", "session", "sent", "submits"} BY DEF IsClient
<1>2. [x EXCEPT !.at = a, !.worker = b] =
        [f \in DOMAIN x |-> IF f = "at" THEN a ELSE IF f = "worker" THEN b ELSE x[f]]
  BY <1>1, ZenonT(60)
<1> QED BY <1>1, <1>2, SMTT(60)

(* signed in (SignIn), *)
LEMMA ClientSignsIn ==
  ASSUME NEW x, IsClient(x), NEW a, NEW b
  PROVE  [x EXCEPT !.at = a, !.session = b] =
           [at |-> a, worker |-> x.worker, session |-> b, sent |-> x.sent, submits |-> x.submits]
<1>1. DOMAIN x = {"at", "worker", "session", "sent", "submits"} BY SMTT(60) DEF IsClient
<1>2. [x EXCEPT !.at = a, !.session = b] =
        [f \in DOMAIN x |-> IF f = "at" THEN a ELSE IF f = "session" THEN b ELSE x[f]]
  BY <1>1, ZenonT(60)
<1> QED BY <1>1, <1>2, SMTT(60)

Sending(x, a, b, e) == [x EXCEPT !.at = a, !.sent = b, !.submits = e]

(* waiting (bcl_send), *)
LEMMA ClientSends ==
  ASSUME NEW x, IsClient(x), NEW a, NEW b, NEW e
  PROVE  Sending(x, a, b, e) =
           [at |-> a, worker |-> x.worker, session |-> x.session, sent |-> b, submits |-> e]
<1>1. DOMAIN x = {"at", "worker", "session", "sent", "submits"} BY SMTT(60) DEF IsClient
<1>2. Sending(x, a, b, e) =
        [f \in DOMAIN x |-> IF f = "at" THEN a ELSE IF f = "sent" THEN b ELSE IF f = "submits" THEN e ELSE x[f]]
  BY <1>1, ZenonT(60) DEF Sending
<1> QED BY <1>1, <1>2, SMTT(60)

Receiving(x, a, b, e) == [x EXCEPT !.at = a, !.sent = b, !.session = e]

(* or answered (Receive). *)
LEMMA ClientReceives ==
  ASSUME NEW x, IsClient(x), NEW a, NEW b, NEW e
  PROVE  Receiving(x, a, b, e) =
           [at |-> a, worker |-> x.worker, session |-> e, sent |-> b, submits |-> x.submits]
<1>1. DOMAIN x = {"at", "worker", "session", "sent", "submits"} BY SMTT(60) DEF IsClient
<1>2. Receiving(x, a, b, e) =
        [f \in DOMAIN x |-> IF f = "at" THEN a ELSE IF f = "sent" THEN b ELSE IF f = "session" THEN e ELSE x[f]]
  BY <1>1, ZenonT(60) DEF Receiving
<1> QED BY <1>1, <1>2, SMTT(60)

Asking(x, a, b) == [x EXCEPT !.at = a, !.asked = b]

(* What a worker becomes: one with another request (bcl_send, Orphaned), *)
LEMMA WorkerAsked ==
  ASSUME NEW x, IsWorker(x), NEW a, NEW b
  PROVE  Asking(x, a, b) =
           [at |-> a, client |-> x.client, inherits |-> x.inherits, ours |-> x.ours, refused |-> x.refused, asked |-> b, reply |-> x.reply]
<1>1. DOMAIN x = {"at", "client", "inherits", "ours", "refused", "asked", "reply"} BY DEF IsWorker
<1>2. Asking(x, a, b) =
        [f \in DOMAIN x |-> IF f = "at" THEN a ELSE IF f = "asked" THEN b ELSE x[f]]
  BY <1>1, ZenonT(60) DEF Asking
<1> QED BY <1>1, <1>2, SMTT(60)

Replying(x, a, b) == [x EXCEPT !.at = a, !.reply = b]

(* with another answer (handle_request), *)
LEMMA WorkerReplied ==
  ASSUME NEW x, IsWorker(x), NEW a, NEW b
  PROVE  Replying(x, a, b) =
           [at |-> a, client |-> x.client, inherits |-> x.inherits, ours |-> x.ours, refused |-> x.refused, asked |-> x.asked, reply |-> b]
<1>1. DOMAIN x = {"at", "client", "inherits", "ours", "refused", "asked", "reply"} BY SMTT(60) DEF IsWorker
<1>2. Replying(x, a, b) =
        [f \in DOMAIN x |-> IF f = "at" THEN a ELSE IF f = "reply" THEN b ELSE x[f]]
  BY <1>1, ZenonT(60) DEF Replying
<1> QED BY <1>1, <1>2, SMTT(60)

(* or a new one (Accept). *)
LEMMA WorkerBorn ==
  ASSUME NEW x, IsWorker(x), NEW a, NEW b, NEW e
  PROVE  [x EXCEPT !.at = a, !.client = b, !.inherits = e] =
           [at |-> a, client |-> b, inherits |-> e, ours |-> x.ours, refused |-> x.refused, asked |-> x.asked, reply |-> x.reply]
<1>1. DOMAIN x = {"at", "client", "inherits", "ours", "refused", "asked", "reply"} BY SMTT(60) DEF IsWorker
<1>2. [x EXCEPT !.at = a, !.client = b, !.inherits = e] =
        [f \in DOMAIN x |-> IF f = "at" THEN a ELSE IF f = "client" THEN b ELSE IF f = "inherits" THEN e ELSE x[f]]
  BY <1>1, ZenonT(60)
<1> QED BY <1>1, <1>2, SMTT(60)

(* A new connection has a worker nobody had before. *)
LEMMA AcceptKeeps ==
  ASSUME PeersInv, Grows(store, store'), NEW d \in Clients, NEW x \in Workers, Accept(d, x)
  PROVE  PeersInv'
<1> DEFINE born == [FreshWorker EXCEPT !.at = "auth", !.client = d, !.inherits = Queued \cup table]
<1>0. /\ UNCHANGED <<store, shown, serving, job>> /\ cli[d].at = "connect" /\ worker[x].at = "none"
      /\ worker' = [worker EXCEPT ![x] = born]
      /\ cli' = [cli EXCEPT ![d].at = "auth", ![d].worker = x]
  BY SMTT(60) DEF Accept, brainVars
<1>1. IsWorker(born) /\ born.at = "auth" /\ born.client = d /\ born.asked = NoRequest /\ born.reply = NoAnswer
  <2>1. IsWorker(FreshWorker) /\ FreshWorker.asked = NoRequest /\ FreshWorker.reply = NoAnswer
    <3>1. \A o, f :
            LET x0 == [at |-> "none", client |-> NoClient, inherits |-> {}, ours |-> o, refused |-> f,
                       asked |-> NoRequest, reply |-> NoAnswer]
            IN  IsWorker(x0) /\ x0.asked = NoRequest /\ x0.reply = NoAnswer
      BY ZenonT(60) DEF IsWorker
    <3> QED BY <3>1, ZenonT(60) DEF FreshWorker
  <2>2. born = [at |-> "auth", client |-> d, inherits |-> Queued \cup table, ours |-> FreshWorker.ours,
                refused |-> FreshWorker.refused, asked |-> NoRequest, reply |-> NoAnswer]
    <3>1. born = [at |-> "auth", client |-> d, inherits |-> Queued \cup table, ours |-> FreshWorker.ours,
                  refused |-> FreshWorker.refused, asked |-> FreshWorker.asked, reply |-> FreshWorker.reply]
      BY <2>1, WorkerBorn, ZenonT(60)
    <3> HIDE DEF born
    <3> QED BY <2>1, <3>1, SMTT(60)
  <2> HIDE DEF born
  <2> QED BY <2>2 DEF IsWorker
<1> HIDE DEF born
<1>2. /\ worker' = [w \in Workers |-> worker'[w]] /\ worker'[x] = born
      /\ \A w \in Workers \ {x} : worker'[w] = worker[w]
  BY <1>0, SMTT(60) DEF PeersInv, WorkersWell
<1>3. /\ cli' = [c \in Clients |-> cli'[c]] /\ \A c \in Clients \ {d} : cli'[c] = cli[c]
      /\ IsClient(cli'[d]) /\ cli'[d].at = "auth" /\ cli'[d].worker = x /\ cli'[d].session = cli[d].session
      /\ cli'[d].sent = cli[d].sent
  <2>0. cli = [c \in Clients |-> cli[c]] /\ IsClient(cli[d]) BY DEF PeersInv, ClientsWell
  <2>1. cli'[d] = [cli[d] EXCEPT !.at = "auth", !.worker = x] BY <1>0, <2>0, SMTT(60)
  <2>2. cli'[d] = [at |-> "auth", worker |-> x, session |-> cli[d].session, sent |-> cli[d].sent,
                   submits |-> cli[d].submits]
    <3>1. IsClient(cli[d]) BY <2>0
    <3> QED BY <2>1, <3>1, ClientAccepted, ZenonT(60)
  <2>3. cli' = [c \in Clients |-> cli'[c]] /\ \A c \in Clients \ {d} : cli'[c] = cli[c]
    BY <1>0, <2>0, SMTT(60)
  <2> QED BY <2>2, <2>3, SMTT(60) DEF IsClient
<1>4. serving # x BY <1>0, SMTT(60) DEF PeersInv, WorkersWell
<1>5. WorkersWell' BY <1>0, <1>1, <1>2, <1>4, ZenonT(60) DEF PeersInv, WorkersWell
<1>6. ClientsWell' BY <1>3 DEF PeersInv, ClientsWell
<1>7. ShownTrue' BY <1>0, ShownStays, SMTT(60)
<1>8. ASSUME NEW c \in Clients \ {d} PROVE Linked(c)'
  <2>1. Linked(c) BY SMTT(60) DEF PeersInv
  <2>2. cli[c].worker # x BY <1>0, <2>1, SMTT(60) DEF Linked, Attached
  <2>3. Quiet(c) BY <1>0, <1>2, <1>3, <2>2, ZenonT(60) DEF Quiet
  <2> QED BY <2>1, <2>3, QuietKeeps, SMTT(60)
<1>9. Linked(d)'
  <2>1. Remembers(d)'
    BY <1>0, <1>3, ZenonT(60) DEF PeersInv, Linked, Remembers
  <2>2. Attached(d)' BY <1>0, <1>1, <1>2, <1>3, <1>4, SMTT(60) DEF Attached, Resting
  <2> QED BY <2>1, <2>2, SMTT(60) DEF Linked
<1> QED BY <1>5, <1>6, <1>7, <1>8, <1>9, SMTT(60) DEF PeersInv

(* Signing in starts a session that has joined nothing. *)
LEMMA SignInKeeps ==
  ASSUME PeersInv, Grows(store, store'), NEW d \in Clients, SignIn(d)
  PROVE  PeersInv'
<1>0. /\ UNCHANGED <<store, shown, serving, job>>
      /\ cli[d].at = "auth" /\ worker[cli[d].worker].at = "auth"
      /\ worker' = [worker EXCEPT ![cli[d].worker].at = "loop"]
      /\ cli' = [cli EXCEPT ![d].at = "menu", ![d].session = FreshSession]
  BY SMTT(60) DEF SignIn, PeersOnly, brainVars
<1>1. PICK x \in Workers : x = cli[d].worker /\ worker[x].client = d /\ Resting(x)
  BY <1>0, SMTT(60) DEF PeersInv, Linked, Attached
<1>2. /\ worker' = [w \in Workers |-> worker'[w]]
      /\ \A w \in Workers \ {x} : worker'[w] = worker[w]
      /\ IsWorker(worker'[x]) /\ worker'[x].at = "loop" /\ worker'[x].client = worker[x].client
      /\ worker'[x].asked = worker[x].asked /\ worker'[x].reply = worker[x].reply
  <2>1. worker' = [worker EXCEPT ![x].at = "loop"] BY <1>0, <1>1, SMTT(60)
  <2> QED BY <2>1, SMTT(60) DEF PeersInv, WorkersWell, IsWorker
<1>3. Tame BY <1>0, <1>1, <1>2, ZenonT(60) DEF Tame, PeersInv, WorkersWell
<1>4. FreshSession.joined = FALSE /\ IsSession(FreshSession)
  BY ZenonT(60) DEF FreshSession, IsSession
<1>5. /\ cli' = [c \in Clients |-> cli'[c]] /\ \A c \in Clients \ {d} : cli'[c] = cli[c]
      /\ IsClient(cli'[d]) /\ cli'[d].at = "menu" /\ cli'[d].worker = x /\ cli'[d].session = FreshSession
  <2>0. cli = [c \in Clients |-> cli[c]] /\ IsClient(cli[d]) BY DEF PeersInv, ClientsWell
  <2>1. cli'[d] = [cli[d] EXCEPT !.at = "menu", !.session = FreshSession] BY <1>0, <2>0, SMTT(60)
  <2>2. cli'[d] = [at |-> "menu", worker |-> cli[d].worker, session |-> FreshSession, sent |-> cli[d].sent,
                   submits |-> cli[d].submits]
    <3>1. IsClient(cli[d]) BY <2>0, SMTT(60)
    <3> QED BY <2>1, <3>1, ClientSignsIn, ZenonT(60)
  <2>3. cli' = [c \in Clients |-> cli'[c]] /\ \A c \in Clients \ {d} : cli'[c] = cli[c]
    BY <1>0, <2>0, SMTT(60)
  <2> QED BY <1>1, <2>2, <2>3, SMTT(60) DEF IsClient
<1>6. ClientsWell' BY <1>4, <1>5, SMTT(60) DEF PeersInv, ClientsWell
<1>7. Linked(d)'
  <2>1. Remembers(d)' BY <1>4, <1>5, ZenonT(60) DEF Remembers
  <2>2. Attached(d)' BY <1>0, <1>1, <1>2, <1>5, SMTT(60) DEF Attached, Resting
  <2> QED BY <2>1, <2>2, SMTT(60) DEF Linked
<1> QED BY <1>0, <1>3, <1>5, <1>6, <1>7, TameKeeps, ShownStays, ZenonT(60) DEF PeersInv

(* A client that is gone, for whatever reason, forgets its session. *)
LEMMA LeaveKeeps ==
  ASSUME PeersInv, Grows(store, store'), NEW d \in Clients, Leave(d) \/ Disconnected(d)
  PROVE  PeersInv'
<1>0. /\ UNCHANGED <<store, shown, serving, job, worker>>
      /\ cli' = [cli EXCEPT ![d] = [FreshClient EXCEPT !.submits = cli[d].submits]]
  BY DEF Leave, Disconnected, PeersOnly, brainVars
<1>1. Tame BY <1>0 DEF Tame, PeersInv, WorkersWell
<1>2. FreshSession.joined = FALSE /\ IsSession(FreshSession)
  BY ZenonT(60) DEF FreshSession, IsSession
<1>3. /\ cli' = [c \in Clients |-> cli'[c]] /\ \A c \in Clients \ {d} : cli'[c] = cli[c]
      /\ IsClient(cli'[d]) /\ cli'[d].at = "connect" /\ cli'[d].worker = NoWorker
      /\ cli'[d].session = FreshSession
  BY <1>0, SMTT(60) DEF PeersInv, ClientsWell, IsClient, FreshClient
<1>4. ClientsWell' BY <1>2, <1>3, SMTT(60) DEF PeersInv, ClientsWell
<1>5. Linked(d)'
  <2>1. Remembers(d)' BY <1>2, <1>3, SMTT(60) DEF Remembers
  <2>2. Attached(d)' BY <1>3, NotWorkers, SMTT(60) DEF Attached
  <2> QED BY <2>1, <2>2, SMTT(60) DEF Linked
<1> QED BY <1>0, <1>1, <1>3, <1>4, <1>5, TameKeeps, ShownStays, SMTT(60) DEF PeersInv

(* A worker that gives up on a request, or ends. *)
LEMMA WorkerAloneKeeps ==
  ASSUME PeersInv, Grows(store, store'), NEW x \in Workers, Orphaned(x) \/ WorkerExits(x)
  PROVE  PeersInv'
<1>0. UNCHANGED <<store, shown, serving, job, cli>>
  BY SMTT(60) DEF Orphaned, WorkerExits, PeersOnly, brainVars
<1>w. /\ worker = [w \in Workers |-> worker[w]] /\ \A w \in Workers : IsWorker(worker[w])
  BY DEF PeersInv, WorkersWell
<1>1. CASE Orphaned(x)
  <2>1. worker[x].at = "asked" /\ worker' = [worker EXCEPT ![x].at = "loop", ![x].asked = NoRequest]
    BY <1>1, ZenonT(60) DEF Orphaned
  <2>2. /\ worker' = [w \in Workers |-> worker'[w]]
        /\ \A w \in Workers \ {x} : worker'[w] = worker[w]
        /\ IsWorker(worker'[x]) /\ worker'[x].at = "loop" /\ worker'[x].client = worker[x].client
        /\ worker'[x].asked = NoRequest /\ worker'[x].reply = worker[x].reply
    <3>1. worker'[x] = Asking(worker[x], "loop", NoRequest) BY <1>w, <2>1, ZenonT(60) DEF Asking
    <3>2. worker'[x] = [at |-> "loop", client |-> worker[x].client, inherits |-> worker[x].inherits,
                        ours |-> worker[x].ours, refused |-> worker[x].refused, asked |-> NoRequest,
                        reply |-> worker[x].reply]
      <4>1. IsWorker(worker[x]) BY <1>w
      <4> QED BY <3>1, <4>1, WorkerAsked, SMTT(60)
    <3>3. worker' = [w \in Workers |-> worker'[w]] /\ \A w \in Workers \ {x} : worker'[w] = worker[w]
      BY <1>w, <2>1, SMTT(60)
    <3> QED BY <3>2, <3>3, SMTT(60) DEF IsWorker
  <2>3. Tame BY <1>0, <1>w, <2>1, <2>2, ZenonT(60) DEF Tame
  <2> QED BY <1>0, <2>3, IdleKeeps, SMTT(60)
<1>2. CASE WorkerExits(x)
  <2>1. Tame BY <1>0, <1>w, <1>2, GoneWell, SMTT(60) DEF Tame, WorkerExits, Killed
  <2> QED BY <1>0, <2>1, IdleKeeps, SMTT(60)
<1> QED BY <1>1, <1>2, SMTT(60)

IsRequest(r) ==
  r = [op |-> r.op, id |-> r.id, name |-> r.name, option |-> r.option, nonce |-> r.nonce, hash |-> r.hash]

(* A request is sent where the last one has been answered or given up; a   *)
(* ballot is for the election the session has joined.                      *)
LEMMA SendKeeps ==
  ASSUME PeersInv, Grows(store, store'), NEW d \in Clients, NEW req, IsRequest(req), bcl_send(d, req),
         req.op \in Votes => cli[d].session.joined /\ cli[d].session.id = req.id
  PROVE  PeersInv'
<1>n. PICK n : n = IF req.op \in {"CAST", "UPDATE"} THEN cli[d].submits - 1 ELSE cli[d].submits
  OBVIOUS
<1>m. PICK named : named = [req EXCEPT !.name = Account[d]]
  BY ZenonT(60)
<1>0. /\ UNCHANGED <<store, shown, serving, job>> /\ cli[d].at = "menu"
      /\ cli' = [cli EXCEPT ![d].at = "wait", ![d].sent = req, ![d].submits = n]
  BY <1>n DEF bcl_send, PeersOnly, brainVars
<1>1. named.op = req.op /\ named.id = req.id /\ named.name = Account[d] /\ named.option = req.option
  BY <1>m DEF IsRequest
<1>2. Linked(d) BY DEF PeersInv
<1>3. PICK x \in Workers : x = cli[d].worker
  BY <1>0, <1>2 DEF Linked, Attached
<1>4. worker[x].at # "none" /\ (worker[x].at # "gone" => worker[x].client = d /\ Resting(x))
  BY <1>0, <1>2, <1>3 DEF Linked, Attached
<1>5. \/ worker' = worker
      \/ Alive(x) /\ worker' = [worker EXCEPT ![x].at = "asked", ![x].asked = named]
  BY <1>m, <1>3, SMTT(60) DEF bcl_send
<1>w. worker = [w \in Workers |-> worker[w]] /\ IsWorker(worker[x])
  BY SMTT(60) DEF PeersInv, WorkersWell
<1>6. /\ cli' = [c \in Clients |-> cli'[c]] /\ \A c \in Clients \ {d} : cli'[c] = cli[c]
      /\ IsClient(cli'[d]) /\ cli'[d].at = "wait" /\ cli'[d].worker = x /\ cli'[d].session = cli[d].session
      /\ cli'[d].sent = req
  <2>0. cli = [c \in Clients |-> cli[c]] /\ IsClient(cli[d]) BY DEF PeersInv, ClientsWell
  <2>1. cli'[d] = Sending(cli[d], "wait", req, n) BY <1>0, <2>0, ZenonT(60) DEF Sending
  <2>2. cli'[d] = [at |-> "wait", worker |-> cli[d].worker, session |-> cli[d].session, sent |-> req,
                   submits |-> n]
    <3>1. IsClient(cli[d]) BY <2>0
    <3> QED BY <2>1, <3>1, ClientSends, SMTT(60)
  <2>3. cli' = [c \in Clients |-> cli'[c]] /\ \A c \in Clients \ {d} : cli'[c] = cli[c]
    BY <1>0, <2>0, ZenonT(60)
  <2> QED BY <1>3, <2>2, <2>3, SMTT(60) DEF IsClient
<1>7. ClientsWell' BY <1>6, SMTT(60) DEF PeersInv, ClientsWell
<1>8. Remembers(d)'
  BY <1>0, <1>2, <1>6, SMTT(60) DEF Linked, Remembers
<1>9. CASE worker' = worker
  <2>1. Tame BY <1>0, <1>9, ZenonT(60) DEF Tame, PeersInv, WorkersWell
  <2>2. Attached(d)' BY <1>0, <1>4, <1>6, <1>9, SMTT(60) DEF Attached, Waiting, Resting
  <2> QED BY <1>0, <1>6, <1>7, <1>8, <2>1, <2>2, TameKeeps, ShownStays, ZenonT(60) DEF PeersInv, Linked
<1>10. CASE Alive(x) /\ worker' = [worker EXCEPT ![x].at = "asked", ![x].asked = named]
  <2>1. worker[x].at \notin {"none", "gone"} /\ worker[x].client = d /\ Resting(x) BY <1>4, <1>10, ZenonT(60) DEF Alive
  <2>2. /\ worker' = [w \in Workers |-> worker'[w]]
        /\ \A w \in Workers \ {x} : worker'[w] = worker[w]
        /\ IsWorker(worker'[x]) /\ worker'[x].at = "asked" /\ worker'[x].client = d
        /\ worker'[x].asked = named /\ worker'[x].reply = NoAnswer
    <3>1. worker'[x] = Asking(worker[x], "asked", named) BY <1>w, <1>10, SMTT(60) DEF Asking
    <3>2. worker'[x] = [at |-> "asked", client |-> worker[x].client, inherits |-> worker[x].inherits,
                        ours |-> worker[x].ours, refused |-> worker[x].refused, asked |-> named,
                        reply |-> worker[x].reply]
      <4>1. IsWorker(worker[x]) BY <1>w
      <4> QED BY <3>1, <4>1, WorkerAsked, ZenonT(60)
    <3>3. worker' = [w \in Workers |-> worker'[w]] /\ \A w \in Workers \ {x} : worker'[w] = worker[w]
      BY <1>w, <1>10
    <3> QED BY <2>1, <3>2, <3>3, SMTT(60) DEF IsWorker, Resting
  <2>3. WorkersWell' BY <1>0, <2>2 DEF PeersInv, WorkersWell
  <2>4. ASSUME NEW c \in Clients \ {d} PROVE Linked(c)'
    <3>1. Linked(c) BY DEF PeersInv
    <3>2. cli[c].worker # x BY <2>1, <3>1, ZenonT(60) DEF Linked, Attached
    <3>3. cli'[c] = cli[c] /\ \A w \in Workers \ {x} : worker'[w] = worker[w] BY <1>6, <2>2, ZenonT(60)
    <3>4. Quiet(c) BY <1>0, <3>2, <3>3, ZenonT(60) DEF Quiet
    <3> QED BY <3>1, <3>4, QuietKeeps
  <2>5. Attached(d)'
    <3>1. IsFrom(worker[x].asked, d)' BY <1>1, <1>6, <2>2, SMTT(60) DEF IsFrom, Request
    <3>2. Waiting(d, x)' BY <1>0, <2>1, <2>2, <3>1, SMTT(60) DEF Waiting, Resting
    <3> QED BY <1>6, <2>2, <3>2, ZenonT(60) DEF Attached
  <2> QED BY <1>0, <1>7, <1>8, <2>3, <2>4, <2>5, ShownStays, SMTT(60) DEF PeersInv, Linked
<1> QED BY <1>5, <1>9, <1>10, SMTT(60)

(* What a client asks: about an election (Join, ViewResults), *)
LEMMA AsksAbout ==
  ASSUME NEW x, IsRequest(x), NEW a, NEW b
  PROVE  [x EXCEPT !.op = a, !.id = b] =
           [op |-> a, id |-> b, name |-> x.name, option |-> x.option, nonce |-> x.nonce, hash |-> x.hash]
<1>1. DOMAIN x = {"op", "id", "name", "option", "nonce", "hash"} BY DEF IsRequest
<1>2. [x EXCEPT !.op = a, !.id = b] =
        [f \in DOMAIN x |->
           IF f = "op" THEN a ELSE IF f = "id" THEN b ELSE x[f]]
  BY <1>1, ZenonT(60)
<1> QED BY <1>1, <1>2, SMTT(60)

Checking(x, a, b, e) == [x EXCEPT !.op = a, !.id = b, !.hash = e]

(* about a ballot (CheckVote), *)
LEMMA AsksBallot ==
  ASSUME NEW x, IsRequest(x), NEW a, NEW b, NEW e
  PROVE  Checking(x, a, b, e) =
           [op |-> a, id |-> b, name |-> x.name, option |-> x.option, nonce |-> x.nonce, hash |-> e]
<1>1. DOMAIN x = {"op", "id", "name", "option", "nonce", "hash"} BY SMTT(60) DEF IsRequest
<1>2. Checking(x, a, b, e) =
        [f \in DOMAIN x |->
           IF f = "op" THEN a ELSE IF f = "id" THEN b ELSE IF f = "hash" THEN e ELSE x[f]]
  BY <1>1, ZenonT(60) DEF Checking
<1> QED BY <1>1, <1>2, SMTT(60)

ToVote(x, a, b, e, g) == [x EXCEPT !.op = a, !.id = b, !.option = e, !.nonce = g]

(* or that its ballot be recorded (Vote). *)
LEMMA AsksToVote ==
  ASSUME NEW x, IsRequest(x), NEW a, NEW b, NEW e, NEW g
  PROVE  ToVote(x, a, b, e, g) =
           [op |-> a, id |-> b, name |-> x.name, option |-> e, nonce |-> g, hash |-> x.hash]
<1>1. DOMAIN x = {"op", "id", "name", "option", "nonce", "hash"} BY SMTT(60) DEF IsRequest
<1>2. ToVote(x, a, b, e, g) =
        [f \in DOMAIN x |->
           IF f = "op" THEN a ELSE IF f = "id" THEN b ELSE IF f = "option" THEN e ELSE IF f = "nonce" THEN g ELSE x[f]]
  BY <1>1, ZenonT(60) DEF ToVote
<1> QED BY <1>1, <1>2, SMTT(60)

(* The client's steps. *)
LEMMA ClientKeeps ==
  ASSUME PeersInv, Grows(store, store'), NEW c \in Clients, ClientStep(c)
  PROVE  PeersInv'
<1>0. IsRequest(NoRequest) BY SMTT(60) DEF IsRequest, NoRequest
<1>1. ASSUME NEW id, Join(c, id) PROVE PeersInv'
  <2> DEFINE req == [NoRequest EXCEPT !.op = "JOIN", !.id = id]
  <2>0. req = [op |-> "JOIN", id |-> id, name |-> NoRequest.name, option |-> NoRequest.option,
               nonce |-> NoRequest.nonce, hash |-> NoRequest.hash]
    BY <1>0, AsksAbout, ZenonT(60)
  <2>2. bcl_send(c, req) BY <1>1, SMTT(60) DEF Join
  <2> HIDE DEF req
  <2>1. IsRequest(req) /\ req.op = "JOIN" BY <2>0, SMTT(60) DEF IsRequest
  <2> QED BY <2>1, <2>2, SendKeeps, SMTT(60) DEF Votes
<1>2. ASSUME NEW id, ViewResults(c, id) PROVE PeersInv'
  <2> DEFINE req == [NoRequest EXCEPT !.op = "RESULTS", !.id = id]
  <2>0. req = [op |-> "RESULTS", id |-> id, name |-> NoRequest.name, option |-> NoRequest.option,
               nonce |-> NoRequest.nonce, hash |-> NoRequest.hash]
    BY <1>0, AsksAbout, ZenonT(60)
  <2>2. bcl_send(c, req) BY <1>2, SMTT(60) DEF ViewResults
  <2> HIDE DEF req
  <2>1. IsRequest(req) /\ req.op = "RESULTS" BY <2>0, SMTT(60) DEF IsRequest
  <2> QED BY <2>1, <2>2, SendKeeps, SMTT(60) DEF Votes
<1>3. ASSUME NEW r, CheckVote(c, r) PROVE PeersInv'
  <2> DEFINE req == [NoRequest EXCEPT !.op = "CHECK", !.id = r.id, !.hash = r.hash]
  <2>0. req = [op |-> "CHECK", id |-> r.id, name |-> NoRequest.name, option |-> NoRequest.option,
               nonce |-> NoRequest.nonce, hash |-> r.hash]
    <3>1. req = Checking(NoRequest, "CHECK", r.id, r.hash) BY DEF Checking
    <3> HIDE DEF req
    <3> QED BY <1>0, <3>1, AsksBallot, SMTT(60)
  <2>2. bcl_send(c, req) BY <1>3, SMTT(60) DEF CheckVote
  <2> HIDE DEF req
  <2>1. IsRequest(req) /\ req.op = "CHECK" BY <2>0, ZenonT(60) DEF IsRequest
  <2> QED BY <2>1, <2>2, SendKeeps, SMTT(60) DEF Votes
<1>4. ASSUME NEW option, NEW nonce, Vote(c, option, nonce) PROVE PeersInv'
  <2> DEFINE s == cli[c].session
             op == bu_route_vote(s)
             req == [NoRequest EXCEPT !.op = op, !.id = s.id, !.option = option, !.nonce = nonce]
  <2>1. op \in Votes => s.joined BY DEF bu_route_vote, Votes
  <2>2. bcl_send(c, req) BY <1>4, SMTT(60) DEF Vote
  <2> HIDE DEF op
  <2>3. req = [op |-> op, id |-> s.id, name |-> NoRequest.name, option |-> option, nonce |-> nonce,
               hash |-> NoRequest.hash]
    <3>1. req = ToVote(NoRequest, op, s.id, option, nonce) BY SMTT(60) DEF ToVote
    <3> HIDE DEF req
    <3> QED BY <1>0, <3>1, AsksToVote, SMTT(60)
  <2> HIDE DEF req
  <2>4. IsRequest(req) /\ req.op = op /\ req.id = s.id BY <2>3, SMTT(60) DEF IsRequest
  <2> QED BY <2>1, <2>2, <2>4, SendKeeps, SMTT(60)
<1> QED BY <1>1, <1>2, <1>3, <1>4, SignInKeeps, LeaveKeeps, ZenonT(60) DEF ClientStep

Session(j, id, h, v) == [joined |-> j, id |-> id, has |-> h, version |-> v]

Unjoined(s, b, id) == [s EXCEPT !.joined = b, !.id = id]

Voted(s, b, v) == [s EXCEPT !.has = b, !.version = v]

(* What a session becomes. *)
LEMMA Sessions ==
  ASSUME NEW s, IsSession(s), NEW b, NEW id, NEW v
  PROVE  /\ Unjoined(s, b, id) = Session(b, id, s.has, s.version)
         /\ Voted(s, b, v) = Session(s.joined, s.id, b, v)
<1>1. DOMAIN s = {"joined", "id", "has", "version"} BY DEF IsSession
<1>2. Unjoined(s, b, id) = [f \in DOMAIN s |-> IF f = "joined" THEN b ELSE IF f = "id" THEN id ELSE s[f]]
  BY <1>1, ZenonT(60) DEF Unjoined
<1>3. Voted(s, b, v) = [f \in DOMAIN s |-> IF f = "has" THEN b ELSE IF f = "version" THEN v ELSE s[f]]
  BY <1>1, ZenonT(60) DEF Voted
<1>4. Unjoined(s, b, id) = Session(b, id, s.has, s.version)
  BY <1>1, <1>2, ZenonT(60) DEF Session
<1>5. Voted(s, b, v) = Session(s.joined, s.id, b, v)
  BY <1>1, <1>3, SMTT(60) DEF Session
<1> QED BY <1>4, <1>5, SMTT(60)

AsSession(S, j, id, h, v) == S = Session(j, id, h, v)

AsJoined(S, id, h, v) == AsSession(S, TRUE, id, h, v)

AsRefused(S, id, h, v) == AsSession(S, FALSE, id, h, v)

AsVoted(S, j, id, v) == AsSession(S, j, id, TRUE, v)

(* A session has these fields. *)
LEMMA SessionFields ==
  ASSUME NEW S, NEW j, NEW id, NEW h, NEW v, AsSession(S, j, id, h, v)
  PROVE  IsSession(S) /\ S.joined = j /\ S.id = id /\ S.has = h /\ S.version = v
BY DEF AsSession, Session, IsSession

(* The session of a client that has joined (bu_join, OK). *)
LEMMA JoinedFields ==
  ASSUME NEW S, NEW id, NEW h, NEW v, AsJoined(S, id, h, v)
  PROVE  IsSession(S) /\ S.id = id /\ S.has = h /\ S.version = v
BY SessionFields, ZenonT(60) DEF AsJoined

(* The session of a client that was not let in (bu_join, NOT_OPEN). *)
LEMMA RefusedFields ==
  ASSUME NEW S, NEW id, NEW h, NEW v, AsRefused(S, id, h, v)
  PROVE  IsSession(S) /\ ~S.joined
<1>1. S.joined = FALSE /\ IsSession(S) BY SessionFields, ZenonT(60) DEF AsRefused
<1> QED BY <1>1, ZenonT(60)

(* The session of a client that has voted (bu_submit_vote, OK). *)
LEMMA VotedFields ==
  ASSUME NEW S, NEW j, NEW id, NEW v, AsVoted(S, j, id, v)
  PROVE  IsSession(S) /\ S.id = id /\ S.has /\ S.version = v
<1>1. S.has = TRUE /\ IsSession(S) /\ S.id = id /\ S.version = v BY SessionFields, ZenonT(60) DEF AsVoted
<1> QED BY <1>1, ZenonT(60)

(* What bu_join makes of an answer.                                        *)
LEMMA JoinSession ==
  ASSUME NEW s, IsSession(s), NEW id, NEW a
  PROVE  LET S == bu_join(s, id, a)
         IN  /\ a.status = "OK" =>
                  IsSession(S) /\ S.id = id /\ S.has = a.has /\ S.version = a.version
             /\ a.status = "NOT_OPEN" => IsSession(S) /\ ~S.joined
             /\ a.status \notin {"OK", "NOT_OPEN"} => S = s
<1> DEFINE S == bu_join(s, id, a)
<1>1. CASE a.status = "OK"
  <2>1. AsJoined(S, id, a.has, a.version) BY <1>1 DEF bu_join, Session, AsSession, AsJoined
  <2> HIDE DEF S
  <2>2. IsSession(S) /\ S.id = id /\ S.has = a.has /\ S.version = a.version BY <2>1, JoinedFields, ZenonT(60)
  <2> QED BY <1>1, <2>2, SMTT(60) DEF S
<1>2. CASE a.status = "NOT_OPEN"
  <2>1. S = Unjoined(s, FALSE, id) BY <1>2 DEF bu_join, Unjoined
  <2> HIDE DEF S
  <2>2. S = Session(FALSE, id, s.has, s.version) BY <2>1, Sessions, ZenonT(60)
  <2>3. AsRefused(S, id, s.has, s.version) BY <2>2, ZenonT(60) DEF AsSession, AsRefused
  <2>4. IsSession(S) /\ ~S.joined BY <2>3, RefusedFields, ZenonT(60)
  <2> QED BY <1>2, <2>4, SMTT(60) DEF S
<1>3. CASE a.status \notin {"OK", "NOT_OPEN"}
  BY <1>3, SMTT(60) DEF bu_join
<1> QED BY <1>1, <1>2, <1>3, ZenonT(60)

(* What bu_submit_vote makes of an answer.                                 *)
LEMMA VoteSession ==
  ASSUME NEW s, IsSession(s), NEW a
  PROVE  LET S == bu_submit_vote(s, a)
         IN  /\ a.status = "OK" => IsSession(S) /\ S.id = s.id /\ S.has /\ S.version = s.version + 1
             /\ a.status # "OK" => S = s
<1> DEFINE S == bu_submit_vote(s, a)
<1>1. CASE a.status = "OK"
  <2>1. S = Voted(s, TRUE, s.version + 1) BY <1>1 DEF bu_submit_vote, Voted
  <2> HIDE DEF S
  <2>2. S = Session(s.joined, s.id, TRUE, s.version + 1) BY <2>1, Sessions, ZenonT(60)
  <2>3. AsVoted(S, s.joined, s.id, s.version + 1) BY <2>2, ZenonT(60) DEF AsSession, AsVoted
  <2>4. IsSession(S) /\ S.id = s.id /\ S.has /\ S.version = s.version + 1 BY <2>3, VotedFields, ZenonT(60)
  <2> QED BY <1>1, <2>4, SMTT(60) DEF S
<1>2. CASE a.status # "OK"
  BY <1>2 DEF bu_submit_vote
<1> QED BY <1>1, <1>2, SMTT(60)

(* What a client remembers after a true answer to JOIN is true.            *)
LEMMA AfterJoin ==
  ASSUME NEW c \in Clients, IsSession(cli[c].session), Remembers(c), NEW a, Answered(c, a),
         cli[c].sent.op = "JOIN", NEW s, s = cli[c].session, NEW id, id = cli[c].sent.id,
         NEW S, S = bu_join(s, id, a)
  PROVE  IsSession(S) /\ (S.joined => Told(store, Account[c], S.id, S))
<1>1. CASE a.status = "OK"
  <2>1. IsSession(S) /\ S.id = id /\ S.has = a.has /\ S.version = a.version BY <1>1, JoinSession, SMTT(60)
  <2>2. Told(store, Account[c], id, a) BY <1>1, ZenonT(60) DEF Answered, Truthful, Request
  <2> QED BY <2>1, <2>2, ZenonT(60) DEF Told
<1>2. CASE a.status = "NOT_OPEN" BY <1>2, JoinSession, ZenonT(60)
<1>3. CASE a.status \notin {"OK", "NOT_OPEN"}
  <2>1. S = s BY <1>3, JoinSession, SMTT(60)
  <2> QED BY <2>1, ZenonT(60) DEF Remembers
<1> QED BY <1>1, <1>2, <1>3, ZenonT(60)

(* What a client remembers after a true answer to a ballot is true.        *)
LEMMA AfterVote ==
  ASSUME NEW c \in Clients, IsSession(cli[c].session), Remembers(c), cli[c].at = "wait", NEW a, Answered(c, a),
         cli[c].sent.op \in Votes, NEW s, s = cli[c].session, NEW S, S = bu_submit_vote(s, a)
  PROVE  IsSession(S) /\ (S.joined => Told(store, Account[c], S.id, S))
<1>1. CASE a.status = "OK"
  <2>1. IsSession(S) /\ S.id = s.id /\ S.has /\ S.version = s.version + 1 BY <1>1, VoteSession, ZenonT(60)
  <2>2. s.id = cli[c].sent.id /\ s.version \in Nat BY ZenonT(60) DEF Remembers, Told
  <2>3. Reached(store, Account[c], s.id, s.version + 1) BY <1>1, <2>2, ZenonT(60) DEF Answered
  <2> QED BY <2>1, <2>2, <2>3, SMTT(60) DEF Told
<1>2. CASE a.status # "OK"
  <2>1. S = s BY <1>2, VoteSession, SMTT(60)
  <2> QED BY <2>1, ZenonT(60) DEF Remembers
<1> QED BY <1>1, <1>2, ZenonT(60)

(* The session after an answer that is true remembers what is true         *)
(* (bu_join, bu_submit_vote).                                              *)
LEMMA SessionKeeps ==
  ASSUME NEW c \in Clients, IsSession(cli[c].session), Remembers(c), cli[c].at = "wait", NEW a, Answered(c, a),
         NEW S, S = IF cli[c].sent.op = "JOIN" THEN bu_join(cli[c].session, cli[c].sent.id, a)
                    ELSE IF cli[c].sent.op \in Votes THEN bu_submit_vote(cli[c].session, a)
                    ELSE cli[c].session
  PROVE  IsSession(S) /\ (S.joined => Told(store, Account[c], S.id, S))
<1>1. CASE cli[c].sent.op = "JOIN"
  BY <1>1, AfterJoin, ZenonT(60)
<1>2. CASE cli[c].sent.op # "JOIN" /\ cli[c].sent.op \in Votes
  BY <1>2, AfterVote, ZenonT(60)
<1>3. CASE cli[c].sent.op # "JOIN" /\ cli[c].sent.op \notin Votes
  BY <1>3, SMTT(60) DEF Remembers
<1> QED BY <1>1, <1>2, <1>3, ZenonT(60)

(* The worker passes an answer on, and the client reads it. *)
LEMMA HandleKeeps ==
  ASSUME PeersInv, Grows(store, store'), NEW x \in Workers, handle_request(x)
  PROVE  PeersInv'
<1>0. /\ UNCHANGED <<store, serving, job>> /\ worker[x].at = "asked" /\ worker[x].reply # NoAnswer
      /\ worker' = [worker EXCEPT ![x].at = "loop", ![x].reply = NoAnswer]
  BY DEF handle_request, PeersOnly, brainVars
<1>1. PICK d \in Clients : d = worker[x].client
  BY <1>0, SMTT(60) DEF PeersInv, WorkersWell
<1>w. /\ worker = [w \in Workers |-> worker[w]] /\ \A w \in Workers : IsWorker(worker[w])
  BY ZenonT(60) DEF PeersInv, WorkersWell
<1>2. /\ worker' = [w \in Workers |-> worker'[w]]
      /\ \A w \in Workers \ {x} : worker'[w] = worker[w]
      /\ IsWorker(worker'[x]) /\ worker'[x].at = "loop" /\ worker'[x].client = worker[x].client
      /\ worker'[x].asked = worker[x].asked /\ worker'[x].reply = NoAnswer
  <2>1. worker'[x] = Replying(worker[x], "loop", NoAnswer) BY <1>0, <1>w, ZenonT(60) DEF Replying
  <2>2. worker'[x] = [at |-> "loop", client |-> worker[x].client, inherits |-> worker[x].inherits,
                      ours |-> worker[x].ours, refused |-> worker[x].refused, asked |-> worker[x].asked,
                      reply |-> NoAnswer]
    <3>1. IsWorker(worker[x]) BY <1>w
    <3> QED BY <2>1, <3>1, WorkerReplied, SMTT(60)
  <2>3. worker' = [w \in Workers |-> worker'[w]] /\ \A w \in Workers \ {x} : worker'[w] = worker[w]
    BY <1>0, <1>w, SMTT(60)
  <2> QED BY <2>2, <2>3, SMTT(60) DEF IsWorker
<1>3. Tame BY <1>0, <1>w, <1>2, SMTT(60) DEF Tame
<1>4. CASE UNCHANGED <<cli, shown>> BY <1>3, <1>4, IdleKeeps, SMTT(60)
<1>5. CASE cli[d].worker = x /\ Receive(d, worker[x].reply)
  <2> DEFINE a == worker[x].reply
             r == cli[d].sent
  <2>0. Linked(d) /\ cli = [c \in Clients |-> cli[c]] /\ IsClient(cli[d]) /\ IsSession(cli[d].session)
    BY DEF PeersInv, ClientsWell
  <2>1. worker[x].client = d /\ IF cli[d].at = "wait" THEN Waiting(d, x) ELSE Resting(x)
    BY <1>0, <1>5, <2>0, SMTT(60) DEF Linked, Attached
  <2>2. cli[d].at = "wait" /\ worker[x].asked = NoRequest /\ serving # x /\ Answered(d, a)
    BY <1>0, <2>1, ZenonT(60) DEF Waiting, Resting
  <2>3. PICK S : S = IF r.op = "JOIN" THEN bu_join(cli[d].session, r.id, a)
                     ELSE IF r.op \in Votes THEN bu_submit_vote(cli[d].session, a) ELSE cli[d].session
    BY ZenonT(60)
  <2>4. IsSession(S) /\ (S.joined => Told(store, Account[d], S.id, S))
    BY <2>0, <2>2, <2>3, SessionKeeps, ZenonT(60) DEF Linked
  <2>5. cli' = [cli EXCEPT ![d].at = "menu", ![d].sent = NoRequest, ![d].session = S]
    BY <1>5, <2>3, ZenonT(60) DEF Receive, Votes
  <2>6. /\ cli' = [c \in Clients |-> cli'[c]] /\ \A c \in Clients \ {d} : cli'[c] = cli[c]
        /\ IsClient(cli'[d]) /\ cli'[d].at = "menu" /\ cli'[d].worker = x /\ cli'[d].session = S
    <3>1. cli'[d] = Receiving(cli[d], "menu", NoRequest, S) BY <2>0, <2>5, ZenonT(60) DEF Receiving
    <3>2. cli'[d] = [at |-> "menu", worker |-> cli[d].worker, session |-> S, sent |-> NoRequest,
                     submits |-> cli[d].submits]
      <4>1. IsClient(cli[d]) BY <2>0, SMTT(60)
      <4> QED BY <3>1, <4>1, ClientReceives, SMTT(60)
    <3>3. cli' = [c \in Clients |-> cli'[c]] /\ \A c \in Clients \ {d} : cli'[c] = cli[c]
      BY <2>0, <2>5, ZenonT(60)
    <3> QED BY <1>5, <3>2, <3>3, SMTT(60) DEF IsClient
  <2>7. ClientsWell' BY <2>4, <2>6, ZenonT(60) DEF PeersInv, ClientsWell
  <2>8. Linked(d)'
    <3>1. Remembers(d)' BY <1>0, <2>4, <2>6, SMTT(60) DEF Remembers
    <3>2. Attached(d)' BY <1>0, <1>2, <2>1, <2>2, <2>6, ZenonT(60) DEF Attached, Resting
    <3> QED BY <3>1, <3>2, SMTT(60) DEF Linked
  <2>9. ShownTrue'
    <3> DEFINE told == [name |-> Account[d], id |-> r.id, hash |-> a.hash, option |-> r.option,
                        version |-> a.version]
    <3>1. CASE shown' = shown BY <3>1, ShownStays, SMTT(60)
    <3>2. CASE shown' = shown \cup {told} /\ r.op \in Votes /\ a.status = "OK"
      <4>1. Holds(store, Account[d], r.id, a.hash, r.option, a.version)
        BY <2>2, <3>2, ZenonT(60) DEF Answered, Truthful, Request
      <4>2. Holds(store, told.name, told.id, told.hash, told.option, told.version)
        BY <4>1, ZenonT(60)
      <4> HIDE DEF told
      <4> QED BY <1>0, <3>2, <4>2, SMTT(60) DEF PeersInv, ShownTrue
    <3> QED BY <1>5, <3>1, <3>2, SMTT(60) DEF Receive, Votes
  <2> QED BY <1>3, <2>6, <2>7, <2>8, <2>9, TameKeeps, ZenonT(60) DEF PeersInv
<1> QED BY <1>1, <1>4, <1>5, SMTT(60) DEF handle_request

-----------------------------------------------------------------------------

(* At the start nobody has a worker, a session or a receipt. *)
LEMMA InitReceipts == Init => ReceiptInv
<1> SUFFICES ASSUME Init PROVE ReceiptInv
  OBVIOUS
<1>1. BrainInv BY InitSound, SMTT(60)
<1>2. Voting BY DEF Init, BrainInit, NoJob, Voting
<1>3. /\ worker = [w \in Workers |-> FreshWorker] /\ shown = {} /\ serving = NoWorker
  BY DEF Init
<1>4. IsWorker(FreshWorker) /\ FreshWorker.at = "none" /\ FreshWorker.asked = NoRequest
  <2>1. \A o, f :
          LET y == [at |-> "none", client |-> NoClient, inherits |-> {}, ours |-> o, refused |-> f,
                    asked |-> NoRequest, reply |-> NoAnswer]
          IN  IsWorker(y) /\ y.at = "none" /\ y.asked = NoRequest
    BY ZenonT(60) DEF IsWorker
  <2> QED BY <2>1, ZenonT(60) DEF FreshWorker
<1>5. WorkersWell BY <1>3, <1>4, NotWorkers, SMTT(60) DEF WorkersWell
<1>6. FreshSession.joined = FALSE /\ IsSession(FreshSession)
  BY ZenonT(60) DEF FreshSession, IsSession
<1>7. PICK n : cli = [c \in Clients |-> [FreshClient EXCEPT !.submits = n]]
  BY ZenonT(60) DEF Init
<1>8. LET k == [FreshClient EXCEPT !.submits = n]
      IN  IsClient(k) /\ k.at = "connect" /\ k.worker = NoWorker /\ k.session = FreshSession
  BY DEF FreshClient, IsClient
<1>9. ClientsWell BY <1>6, <1>7, <1>8, ZenonT(60) DEF ClientsWell
<1>10. \A c \in Clients : Linked(c)
  BY <1>6, <1>7, <1>8, NotWorkers, ZenonT(60) DEF Linked, Remembers, Attached
<1> QED BY <1>1, <1>2, <1>3, <1>5, <1>9, <1>10, SMTT(60) DEF ReceiptInv, PeersInv, ShownTrue

(* Every step keeps the invariant. *)
LEMMA StepReceipts == ReceiptInv /\ [Next]_ballotVars => ReceiptInv'
<1> SUFFICES ASSUME ReceiptInv, [Next]_ballotVars PROVE ReceiptInv'
  OBVIOUS
<1>0. BrainInv /\ PeersInv /\ Voting BY DEF ReceiptInv
<1>1. BrainInv' BY <1>0, StepKeeps, SMTT(60)
<1>2. Grows(store, store') BY <1>0, StoreGrows, SMTT(60)
<1>3. Voting'
  <2>1. CASE Call BY <1>0, <2>1, CallAnswers, SMTT(60)
  <2>2. CASE Between
    <3>1. CASE job' = job BY <1>0, <3>1, SMTT(60) DEF Voting
    <3>2. CASE \E r : job' = [NoJob EXCEPT !.req = r, !.at = "call"]
      <4>1. job'.at = "call" BY <3>2, ZenonT(60) DEF NoJob
      <4> QED BY <4>1 DEF Voting
    <3>3. CASE job' = NoJob BY <3>3, SMTT(60) DEF NoJob, Voting
    <3> QED BY <2>2, <3>1, <3>2, <3>3, ZenonT(60) DEF Between
  <2> QED BY <2>1, <2>2, DaemonSteps, ZenonT(60)
<1>4. PeersInv'
  <2>1. CASE \E w \in Workers : WorkerStep(w)
    BY <1>0, <1>2, <2>1, HandleKeeps, WorkerAloneKeeps, ZenonT(60) DEF WorkerStep
  <2>2. CASE \E c \in Clients : ClientStep(c)
    BY <1>0, <1>2, <2>2, ClientKeeps, SMTT(60)
  <2>3. CASE Listener
    BY <1>0, <1>2, <2>3, AcceptKeeps, DaemonKeeps, ZenonT(60) DEF Listener
  <2>4. CASE Admin
    BY <1>0, <1>2, <2>4, DaemonKeeps, TakeKeeps, WorkKeeps, ReplyKeeps, SMTT(60) DEF Admin
  <2> QED BY <1>0, <1>2, <2>1, <2>2, <2>3, <2>4, DaemonKeeps, ZenonT(60) DEF Next
<1> QED BY <1>1, <1>3, <1>4, SMTT(60) DEF ReceiptInv

(* What a voter was told holds in every run of the daemon: a receipt's     *)
(* ballot is stored with the option chosen and is counted unless that      *)
(* voter has a later one, and a session offers an update only where there  *)
(* is a ballot to update (bb_record_ballot, bu_submit_vote, bu_join), for  *)
(* any number of voters, workers, elections, attempts and faults.          *)
THEOREM ReceiptsAlwaysHold == Spec => []ReceiptsHold
<1>1. ReceiptInv => ReceiptsHold
  <2> SUFFICES ASSUME ReceiptInv PROVE ReceiptsHold
    OBVIOUS
  <2>0. Sound(store) BY ZenonT(60) DEF ReceiptInv, BrainInv
  <2>1. ASSUME NEW r \in shown
        PROVE  \E b \in Matching(store, r.id, r.hash) :
                 /\ b.option = r.option
                 /\ b.live \/ \E o \in run_get_prior_ballot(store, r.id, r.name) : o.version > r.version
    <3>1. Holds(store, r.name, r.id, r.hash, r.option, r.version)
      BY ZenonT(60) DEF ReceiptInv, PeersInv, ShownTrue
    <3>2. PICK b \in Matching(store, r.id, r.hash) : b.option = r.option BY <3>1, ZenonT(60) DEF Holds
    <3>3. PICK o \in OwnerRows(store, r.id, r.name) :
            (o.hash = r.hash /\ o.version = r.version) \/ o.version > r.version
      BY <3>1, ZenonT(60) DEF Holds
    <3>4. CASE o.version > r.version BY <3>2, <3>4, ZenonT(60) DEF run_get_prior_ballot
    <3>5. CASE o.hash = r.hash
      <4>1. o \in store.owner /\ o.id = r.id BY ZenonT(60) DEF OwnerRows
      <4>2. PICK e \in store.ballot : e.live /\ e.id = o.id /\ e.hash = o.hash
        BY <2>0, <4>1, ZenonT(60) DEF Sound, BallotsSound
      <4>3. b \in store.ballot /\ b.id = r.id /\ b.hash = r.hash BY ZenonT(60) DEF Matching
      <4>4. b = e BY <2>0, <3>5, <4>1, <4>2, <4>3, SMTT(60) DEF Sound, BallotsSound
      <4> QED BY <3>2, <4>2, <4>4, SMTT(60)
    <3> QED BY <3>3, <3>4, <3>5, SMTT(60)
  <2>2. ASSUME NEW c \in Clients, bu_route_vote(cli[c].session) = "UPDATE"
        PROVE  \E o \in run_get_prior_ballot(store, cli[c].session.id, Account[c]) :
                 cli[c].session.version <= o.version
    <3> DEFINE s == cli[c].session
    <3>1. s.joined /\ s.has BY <2>2, ZenonT(60) DEF bu_route_vote
    <3>2. s.version \in Nat /\ Reached(store, Account[c], s.id, s.version)
      BY <3>1, ZenonT(60) DEF ReceiptInv, PeersInv, Linked, Remembers, Told
    <3>3. PICK o \in OwnerRows(store, s.id, Account[c]) : o.version >= s.version
      BY <3>2, SMTT(60) DEF Reached
    <3>4. o.version \in Nat BY <2>0, OwnerVersions, ZenonT(60) DEF OwnerRows
    <3>5. s.version <= o.version BY <3>2, <3>3, <3>4, SMTT(60)
    <3> QED BY <3>5, SMTT(60) DEF run_get_prior_ballot
  <2> QED BY <2>1, <2>2, SMTT(60) DEF ReceiptsHold
<1> QED BY <1>1, InitReceipts, StepReceipts, PTL, SMTT(60) DEF Spec

-----------------------------------------------------------------------------
(* What main leaves behind. *)

(* A worker that main has started and not refused is in main's hands, and  *)
(* an operator's request that waits is in the pipe or being worked on.     *)
InHand == main # "killed" =>
  \A w \in Workers : Alive(w) /\ worker[w].ours /\ ~worker[w].refused => w \in Queued \cup table

OneRequest ==
  /\ DOMAIN ctl = {"at", "heirs"}
  /\ ctlq = <<>> \/ \E r : ctlq = <<r>>
  /\ ctl.at = "wait" => ctlq # <<>> \/ serving = Operator
  /\ ctl.at # "wait" => ctlq = <<>> /\ serving # Operator
  /\ ctlq # <<>> => serving # Operator

(* The threads end in the order main joins them. *)
Joined ==
  /\ DOMAIN thread = {"listener", "ctl", "admin"}
  /\ DOMAIN quit = {"all", "admin"}
  /\ quit.admin => thread["listener"] = "done" /\ thread["ctl"] = "done"
  /\ thread["admin"] = "done" =>
       quit.admin /\ table = {} /\ notify = <<>> /\ ctlq = <<>> /\ serving = NoWorker
  /\ main = "returned" => thread["admin"] = "done"
  /\ main # "killed" /\ thread["ctl"] = "done" => ~sockFile

ExitInv == notify \in Seq(Workers) /\ InHand /\ OneRequest /\ Joined

(* No worker is started, and none changes hands. *)
Spares ==
  \A w \in Workers : Alive(w)' => /\ Alive(w) /\ worker'[w].ours = worker[w].ours
                                  /\ worker'[w].refused = worker[w].refused

(* What the workers and the clients do is nothing to main. *)
LEMMA SparesKeeps ==
  ASSUME ExitInv, Spares,
         UNCHANGED <<main, thread, quit, notify, ctlq, table, ctl, sockFile, serving>>
  PROVE  ExitInv'
<1>1. InHand' BY ZenonT(60) DEF ExitInv, InHand, Spares, Queued
<1>2. OneRequest' BY DEF ExitInv, OneRequest
<1>3. Joined' BY ZenonT(60) DEF ExitInv, Joined
<1> QED BY <1>1, <1>2, <1>3, ZenonT(60) DEF ExitInv

(* A change to one worker that starts none. *)
LEMMA OneSpared ==
  ASSUME NEW w, \A v \in Workers \ {w} : worker'[v] = worker[v],
         w \in Workers => /\ worker'[w].ours = worker[w].ours /\ worker'[w].refused = worker[w].refused
                          /\ Alive(w)
  PROVE  Spares
BY ZenonT(60) DEF Spares, Alive

(* Workers that are ended. *)
LEMMA KilledSpared ==
  ASSUME NEW ws, worker' = Killed(ws)
  PROVE  Spares /\ \A w \in Workers \cap ws : ~Alive(w)'
<1>1. Gone.at = "gone" BY DEF Gone, FreshWorker
<1>2. ASSUME NEW v \in Workers PROVE worker'[v] = IF v \in ws THEN Gone ELSE worker[v]
  BY <1>2, ZenonT(60) DEF Killed
<1> QED BY <1>1, <1>2, ZenonT(60) DEF Spares, Alive

(* The steps of the workers, *)
LEMMA WorkerSpares ==
  ASSUME WorkersWell, NEW w \in Workers, WorkerStep(w)
  PROVE  Spares /\ PeersOnly
<1>0. worker = [v \in Workers |-> worker[v]] /\ IsWorker(worker[w]) BY DEF WorkersWell
<1>1. CASE handle_request(w)
  <2>1. /\ worker' = [worker EXCEPT ![w].at = "loop", ![w].reply = NoAnswer]
        /\ PeersOnly /\ worker[w].at = "asked"
    BY <1>1, ZenonT(60) DEF handle_request
  <2>2. \A v \in Workers \ {w} : worker'[v] = worker[v] BY <1>0, <2>1
  <2>3. worker'[w].ours = worker[w].ours /\ worker'[w].refused = worker[w].refused
    BY <1>0, <2>1 DEF IsWorker
  <2> QED BY <2>1, <2>2, <2>3, OneSpared, ZenonT(60) DEF Alive
<1>2. CASE Orphaned(w)
  <2>1. /\ worker' = [worker EXCEPT ![w].at = "loop", ![w].asked = NoRequest]
        /\ PeersOnly /\ worker[w].at = "asked"
    BY <1>2, ZenonT(60) DEF Orphaned
  <2>2. \A v \in Workers \ {w} : worker'[v] = worker[v] BY <1>0, <2>1
  <2>3. worker'[w].ours = worker[w].ours /\ worker'[w].refused = worker[w].refused
    BY <1>0, <2>1 DEF IsWorker
  <2> QED BY <2>1, <2>2, <2>3, OneSpared, ZenonT(60) DEF Alive
<1>3. CASE WorkerExits(w)
  BY <1>3, KilledSpared, ZenonT(60) DEF WorkerExits
<1> QED BY <1>1, <1>2, <1>3, ZenonT(60) DEF WorkerStep

(* and of the clients. *)
LEMMA ClientSpares ==
  ASSUME WorkersWell, NEW c \in Clients, ClientStep(c)
  PROVE  Spares /\ PeersOnly
<1>0. worker = [v \in Workers |-> worker[v]] /\ \A v \in Workers : IsWorker(worker[v])
  BY DEF WorkersWell
<1>a. worker' = worker => Spares BY ZenonT(60) DEF Spares, Alive
<1>w. PICK w : w = cli[c].worker BY ZenonT(60)
<1>1. CASE SignIn(c)
  <2>1. worker' = [worker EXCEPT ![w].at = "loop"] /\ PeersOnly /\ worker[w].at = "auth"
    BY <1>1, <1>w, ZenonT(60) DEF SignIn
  <2>2. \A v \in Workers \ {w} : worker'[v] = worker[v] BY <1>0, <2>1
  <2>3. w \in Workers => worker'[w].ours = worker[w].ours /\ worker'[w].refused = worker[w].refused
    BY <1>0, <2>1 DEF IsWorker
  <2> QED BY <2>1, <2>2, <2>3, OneSpared, ZenonT(60) DEF Alive
<1>2. CASE Leave(c) \/ Disconnected(c)
  BY <1>2, <1>a, ZenonT(60) DEF Leave, Disconnected
<1>3. ASSUME NEW req, bcl_send(c, req) PROVE Spares /\ PeersOnly
  <2>0. PICK r : r = [req EXCEPT !.name = Account[c]] BY ZenonT(60)
  <2>1. PeersOnly /\ (worker' = worker \/ (worker' = [worker EXCEPT ![w].at = "asked", ![w].asked = r] /\ Alive(w)))
    BY <1>3, <1>w, <2>0, ZenonT(60) DEF bcl_send
  <2>2. CASE worker' = [worker EXCEPT ![w].at = "asked", ![w].asked = r] /\ Alive(w)
    <3>1. \A v \in Workers \ {w} : worker'[v] = worker[v] BY <1>0, <2>2
    <3>2. w \in Workers => worker'[w].ours = worker[w].ours /\ worker'[w].refused = worker[w].refused
      BY <1>0, <2>2 DEF IsWorker
    <3> QED BY <2>1, <2>2, <3>1, <3>2, OneSpared, ZenonT(60)
  <2> QED BY <1>a, <2>1, <2>2, ZenonT(60)
<1>4. \A id \in Ids : Join(c, id) \/ ViewResults(c, id) => Spares /\ PeersOnly
  BY <1>3 DEF Join, ViewResults
<1>5. \A option \in OptionIndexes, nonce \in Nonces : Vote(c, option, nonce) => Spares /\ PeersOnly
  BY <1>3 DEF Vote
<1>6. \A r \in shown : CheckVote(c, r) => Spares /\ PeersOnly
  BY <1>3 DEF CheckVote
<1> QED BY <1>1, <1>2, <1>4, <1>5, <1>6, ZenonT(60) DEF ClientStep

(* A step of somebody else. *)
LEMMA PeersExit ==
  ASSUME ExitInv, Spares, PeersOnly
  PROVE  ExitInv'
<1>1. UNCHANGED <<main, thread, quit, notify, ctlq, table, ctl, sockFile, serving>>
  BY ZenonT(60) DEF PeersOnly
<1> QED BY <1>1, SparesKeeps, ZenonT(60)

(* Sequences of at most one element. *)
LEMMA OneLong ==
  /\ \A r : <<r>> # <<>> /\ Tail(<<r>>) = <<>> /\ Append(<<>>, r) = <<r>>
  /\ DOMAIN <<>> = {}
OBVIOUS

(* A new worker is handed over at once. *)
LEMMA AcceptExit ==
  ASSUME WorkersWell, ExitInv, NEW c \in Clients, NEW w \in Workers, Accept(c, w)
  PROVE  ExitInv'
<1>1. /\ main = "up" /\ thread["listener"] = "run" /\ notify' = Append(notify, w)
      /\ worker' = [worker EXCEPT ![w] = [FreshWorker EXCEPT !.at = "auth", !.client = c,
                                            !.inherits = Queued \cup table]]
      /\ UNCHANGED <<main, thread, quit, ctlq, table, sockFile, serving>>
      /\ ctl' = ctl \/ (ctl.at = "wait" /\ ctl' = [ctl EXCEPT !.heirs = @ \cup {w}])
  BY ZenonT(60) DEF Accept, Runs
<1>2. notify' \in Seq(Workers) /\ Queued' = Queued \cup {w} BY <1>1 DEF ExitInv, Queued
<1>3. \A v \in Workers \ {w} : worker'[v] = worker[v] BY <1>1 DEF WorkersWell
<1>4. InHand' BY <1>1, <1>2, <1>3, ZenonT(60) DEF ExitInv, InHand, Alive
<1>5. ctl'.at = ctl.at /\ DOMAIN ctl' = DOMAIN ctl BY <1>1 DEF ExitInv, OneRequest
<1>6. OneRequest' BY <1>1, <1>5 DEF ExitInv, OneRequest
<1>7. thread["admin"] # "done" BY <1>1, ZenonT(60) DEF ExitInv, Joined
<1>8. Joined' BY <1>1, <1>7, ZenonT(60) DEF ExitInv, Joined
<1> QED BY <1>2, <1>4, <1>6, <1>8, ZenonT(60) DEF ExitInv

(* The accepting threads end. *)
LEMMA ThreadsExit ==
  ASSUME ExitInv, NEW all \in BOOLEAN, StopListener(all) \/ EndCtl(all)
  PROVE  ExitInv'
<1>1. /\ quit' = [quit EXCEPT !.all = @ \/ all]
      /\ UNCHANGED <<main, notify, ctlq, table, worker, ctl, serving>>
      /\ \/ thread' = [thread EXCEPT !["listener"] = "done"] /\ sockFile' = sockFile
         \/ thread' = [thread EXCEPT !["ctl"] = "done"] /\ sockFile' = FALSE
  BY ZenonT(60) DEF StopListener, EndCtl
<1>2. InHand' BY <1>1, ZenonT(60) DEF ExitInv, InHand, Alive, Queued
<1>3. OneRequest' BY <1>1 DEF ExitInv, OneRequest
<1>4. quit'.admin = quit.admin /\ DOMAIN quit' = {"all", "admin"} BY <1>1 DEF ExitInv, Joined
<1>5. /\ DOMAIN thread' = {"listener", "ctl", "admin"} /\ thread'["admin"] = thread["admin"]
      /\ thread["listener"] = "done" => thread'["listener"] = "done"
      /\ thread["ctl"] = "done" => thread'["ctl"] = "done"
      /\ (thread'["ctl"] = thread["ctl"] /\ sockFile' = sockFile) \/ ~sockFile'
  BY <1>1 DEF ExitInv, Joined
<1>6. Joined' BY <1>1, <1>4, <1>5 DEF ExitInv, Joined
<1> QED BY <1>1, <1>2, <1>3, <1>6, ZenonT(60) DEF ExitInv

(* The operator's connection. *)
LEMMA CtlExit ==
  ASSUME ExitInv, handle_conn \/ CtlDone
  PROVE  ExitInv'
<1>1. UNCHANGED <<main, thread, quit, notify, table, worker, sockFile, serving>>
  BY ZenonT(60) DEF handle_conn, CtlDone
<1>2. InHand' BY <1>1, ZenonT(60) DEF ExitInv, InHand, Alive, Queued
<1>3. CASE handle_conn
  <2>1. ctl.at = "idle" /\ ctl' = [ctl EXCEPT !.at = "wait"] /\ ctlq' = Append(ctlq, Head(plan)) /\ thread["ctl"] = "run"
    BY <1>3, ZenonT(60) DEF handle_conn, send_via_ctl, Runs
  <2>2. ctlq = <<>> /\ serving # Operator BY <2>1, ZenonT(60) DEF ExitInv, OneRequest
  <2>3. PICK r : r = Head(plan) BY ZenonT(60)
  <2>4. ctlq' = <<r>> BY <2>1, <2>2, <2>3, OneLong, ZenonT(60)
  <2>5. ctl'.at = "wait" /\ DOMAIN ctl' = {"at", "heirs"} BY <2>1 DEF ExitInv, OneRequest
  <2>6. OneRequest' BY <1>1, <2>2, <2>4, <2>5, OneLong, ZenonT(60) DEF OneRequest
  <2>7. thread["admin"] # "done" BY <2>1, ZenonT(60) DEF ExitInv, Joined
  <2>8. Joined' BY <1>1, <2>7, ZenonT(60) DEF ExitInv, Joined
  <2> QED BY <1>1, <1>2, <2>6, <2>8, ZenonT(60) DEF ExitInv
<1>4. CASE CtlDone
  <2>1. ctl.at # "wait" /\ ctlq' = ctlq /\ ctl' = NoCtl BY <1>4 DEF CtlDone
  <2>2. ctl'.at = "idle" /\ DOMAIN ctl' = {"at", "heirs"} BY <2>1 DEF NoCtl
  <2>3. OneRequest' BY <1>1, <2>1, <2>2, ZenonT(60) DEF ExitInv, OneRequest
  <2>4. Joined' BY <1>1, <2>1, ZenonT(60) DEF ExitInv, Joined
  <2> QED BY <1>1, <1>2, <2>3, <2>4, ZenonT(60) DEF ExitInv
<1> QED BY <1>3, <1>4, ZenonT(60)

(* A worker is registered or refused. *)
LEMMA RegisterExit ==
  ASSUME WorkersWell, ExitInv, Register
  PROVE  ExitInv'
<1>1. /\ thread["admin"] = "run" /\ notify' = <<>>
      /\ UNCHANGED <<main, thread, quit, ctlq, ctl, sockFile, serving>>
      /\ worker' = [w \in Workers |-> [worker[w] EXCEPT !.refused = @ \/ w \in Queued \ table']]
      /\ \A w \in table : w \in table'
  BY DEF Register, Runs
<1>2. ASSUME NEW w \in Workers
      PROVE  /\ worker'[w].at = worker[w].at /\ worker'[w].ours = worker[w].ours
             /\ ~worker'[w].refused => ~worker[w].refused /\ w \notin Queued \ table'
  <2>1. worker'[w] = [worker[w] EXCEPT !.refused = @ \/ w \in Queued \ table'] BY <1>1, ZenonT(60)
  <2>2. IsWorker(worker[w]) BY ZenonT(60) DEF WorkersWell
  <2>3. PICK b : b = (worker[w].refused \/ w \in Queued \ table') BY ZenonT(60)
  <2>4. worker'[w] = [worker[w] EXCEPT !.refused = b] BY <2>1, <2>3, ZenonT(60)
  <2>5. worker'[w].at = worker[w].at /\ worker'[w].ours = worker[w].ours /\ worker'[w].refused = b
    BY <2>2, <2>4 DEF IsWorker
  <2> QED BY <2>3, <2>5, ZenonT(60)
<1>3. InHand' BY <1>1, <1>2, ZenonT(60) DEF ExitInv, InHand, Alive
<1>4. OneRequest' BY <1>1 DEF ExitInv, OneRequest
<1>5. Joined' BY <1>1, ZenonT(60) DEF ExitInv, Joined
<1>6. notify' \in Seq(Workers) BY <1>1
<1> QED BY <1>3, <1>4, <1>5, <1>6, ZenonT(60) DEF ExitInv

(* A request is taken, *)
LEMMA TakeExit ==
  ASSUME WorkersWell, ExitInv, TakeCtl \/ \E w \in Workers : TakeRequest(w)
  PROVE  ExitInv'
<1>1. /\ UNCHANGED <<main, thread, quit, notify, table, ctl, sockFile>>
      /\ thread["admin"] = "run" /\ serving = NoWorker
  BY ZenonT(60) DEF TakeCtl, TakeRequest, Begin, Runs
<1>2. Joined' BY <1>1, ZenonT(60) DEF ExitInv, Joined
<1>3. CASE TakeCtl
  <2>1. ctlq # <<>> /\ ctlq' = Tail(ctlq) /\ serving' = Operator /\ worker' = worker
    BY <1>3, ZenonT(60) DEF TakeCtl, Begin
  <2>2. ctlq' = <<>> /\ ctl.at = "wait" BY <2>1, OneLong, ZenonT(60) DEF ExitInv, OneRequest
  <2>3. OneRequest' BY <1>1, <2>1, <2>2, ZenonT(60) DEF ExitInv, OneRequest
  <2>4. InHand' BY <1>1, <2>1, ZenonT(60) DEF ExitInv, InHand, Alive, Queued
  <2> QED BY <1>1, <1>2, <2>3, <2>4, ZenonT(60) DEF ExitInv
<1>4. CASE \E w \in Workers : TakeRequest(w)
  <2>1. PICK w \in Workers : TakeRequest(w) BY <1>4, ZenonT(60)
  <2>2. ctlq' = ctlq /\ serving' = w /\ worker' = [worker EXCEPT ![w].asked = NoRequest]
    BY <2>1, ZenonT(60) DEF TakeRequest, Begin
  <2>3. w # Operator /\ serving # Operator BY <1>1, BallotdAssumption DEF NoWorker, Operator
  <2>4. OneRequest' BY <1>1, <2>2, <2>3 DEF ExitInv, OneRequest
  <2>5. IsWorker(worker[w]) /\ worker = [v \in Workers |-> worker[v]] BY DEF WorkersWell
  <2>6. /\ \A v \in Workers \ {w} : worker'[v] = worker[v]
        /\ worker'[w].at = worker[w].at /\ worker'[w].ours = worker[w].ours
        /\ worker'[w].refused = worker[w].refused
    BY <2>2, <2>5 DEF IsWorker
  <2>7. InHand' BY <1>1, <2>6, ZenonT(60) DEF ExitInv, InHand, Alive, Queued
  <2> QED BY <1>1, <1>2, <2>4, <2>7, ZenonT(60) DEF ExitInv
<1> QED BY <1>3, <1>4, ZenonT(60)

(* and answered. *)
LEMMA ReplyExit ==
  ASSUME WorkersWell, ExitInv, Reply
  PROVE  ExitInv'
<1>1. UNCHANGED <<main, thread, quit, notify, ctlq, table, sockFile>> /\ serving' = NoWorker
  BY ZenonT(60) DEF Reply
<1>2. Joined' BY <1>1, ZenonT(60) DEF ExitInv, Joined
<1>o. NoWorker # Operator BY DEF NoWorker, Operator
<1>3. CASE serving = Operator
  <2>1. worker' = worker /\ (ctl' = NoCtl \/ ctl' = [ctl EXCEPT !.at = "closed"])
    BY <1>3, ZenonT(60) DEF Reply
  <2>2. ctl'.at # "wait" /\ DOMAIN ctl' = {"at", "heirs"} BY <2>1 DEF ExitInv, OneRequest, NoCtl
  <2>3. ctlq = <<>> BY <1>3, ZenonT(60) DEF ExitInv, OneRequest
  <2>4. OneRequest' BY <1>1, <1>o, <2>2, <2>3, ZenonT(60) DEF OneRequest
  <2>5. InHand' BY <1>1, <2>1, ZenonT(60) DEF ExitInv, InHand, Alive, Queued
  <2> QED BY <1>1, <1>2, <2>4, <2>5, ZenonT(60) DEF ExitInv
<1>4. CASE serving # Operator
  <2>1. worker' = [worker EXCEPT ![serving].reply = job.answer] /\ ctl' = ctl
    BY <1>4, ZenonT(60) DEF Reply
  <2>2. OneRequest' BY <1>1, <1>4, <1>o, <2>1 DEF ExitInv, OneRequest
  <2>3. worker = [v \in Workers |-> worker[v]] /\ \A v \in Workers : IsWorker(worker[v])
    BY DEF WorkersWell
  <2>4. \A v \in Workers : /\ worker'[v].at = worker[v].at /\ worker'[v].ours = worker[v].ours
                           /\ worker'[v].refused = worker[v].refused
    BY <2>1, <2>3 DEF IsWorker
  <2>5. InHand' BY <1>1, <2>4, ZenonT(60) DEF ExitInv, InHand, Alive, Queued
  <2> QED BY <1>1, <1>2, <2>2, <2>5, ZenonT(60) DEF ExitInv
<1> QED BY <1>3, <1>4, ZenonT(60)

(* main's part, and signals. *)
LEMMA MainExit ==
  ASSUME WorkersWell, ExitInv,
         on_terminate \/ JoinAccepting \/ Return \/ \E w \in Workers : drop_worker(w)
  PROVE  ExitInv'
<1>1. UNCHANGED <<thread, notify, ctlq, worker, ctl, sockFile, serving>> /\ main = "up"
  BY ZenonT(60) DEF on_terminate, JoinAccepting, Return, drop_worker, Runs
<1>2. OneRequest' BY <1>1 DEF ExitInv, OneRequest
<1>3. CASE on_terminate \/ JoinAccepting
  <2>1. /\ UNCHANGED <<main, table>>
        /\ \/ quit' = [quit EXCEPT !.all = TRUE]
           \/ /\ quit' = [quit EXCEPT !.admin = TRUE]
              /\ thread["listener"] = "done" /\ thread["ctl"] = "done"
    BY <1>3, ZenonT(60) DEF on_terminate, JoinAccepting
  <2>2. InHand' BY <1>1, <2>1, ZenonT(60) DEF ExitInv, InHand, Alive, Queued
  <2>3. /\ DOMAIN quit' = {"all", "admin"}
        /\ quit'.admin = quit.admin
           \/ (quit'.admin /\ thread["listener"] = "done" /\ thread["ctl"] = "done")
    BY <2>1 DEF ExitInv, Joined
  <2>4. Joined' BY <1>1, <2>1, <2>3 DEF ExitInv, Joined
  <2> QED BY <1>1, <1>2, <2>2, <2>4, ZenonT(60) DEF ExitInv
<1>4. CASE Return
  <2>1. UNCHANGED <<quit, table>> /\ main' = "returned" /\ thread["admin"] = "done"
    BY <1>4, ZenonT(60) DEF Return
  <2>2. InHand' BY <1>1, <2>1, ZenonT(60) DEF ExitInv, InHand, Alive, Queued
  <2>3. Joined' BY <1>1, <2>1 DEF ExitInv, Joined
  <2> QED BY <1>1, <1>2, <2>2, <2>3, ZenonT(60) DEF ExitInv
<1>5. CASE \E w \in Workers : drop_worker(w)
  <2>1. PICK w \in Workers : drop_worker(w) BY <1>5, ZenonT(60)
  <2>2. UNCHANGED <<main, quit>> /\ table' = table \ {w} /\ ~Alive(w)
    BY <2>1, ZenonT(60) DEF drop_worker
  <2>3. InHand' BY <1>1, <2>2, ZenonT(60) DEF ExitInv, InHand, Alive, Queued
  <2>4. Joined' BY <1>1, <2>2 DEF ExitInv, Joined
  <2> QED BY <1>1, <1>2, <2>3, <2>4, ZenonT(60) DEF ExitInv
<1> QED BY <1>3, <1>4, <1>5, ZenonT(60)

(* The admin thread ends, and with it everything it has in hand. *)
LEMMA AdminExit ==
  ASSUME ExitInv, AdminQuits
  PROVE  ExitInv'
<1>1. /\ UNCHANGED <<main, quit, sockFile, serving>> /\ main = "up" /\ serving = NoWorker /\ quit.admin
      /\ worker' = Killed(Queued \cup table) /\ notify' = <<>> /\ ctlq' = <<>> /\ table' = {}
      /\ thread' = [thread EXCEPT !["admin"] = "done"]
      /\ (ctlq = <<>> /\ ctl' = ctl) \/ (ctlq # <<>> /\ ctl' = [ctl EXCEPT !.at = "closed"])
  BY ZenonT(60) DEF AdminQuits, admin_teardown, Runs
<1>2. Spares /\ \A w \in Workers \cap (Queued \cup table) : ~Alive(w)' BY <1>1, KilledSpared, ZenonT(60)
<1>3. InHand' BY <1>1, <1>2, ZenonT(60) DEF ExitInv, InHand, Spares
<1>4. NoWorker # Operator BY DEF NoWorker, Operator
<1>5. ctl'.at # "wait" /\ DOMAIN ctl' = {"at", "heirs"} BY <1>1, <1>4 DEF ExitInv, OneRequest
<1>6. OneRequest' BY <1>1, <1>4, <1>5, ZenonT(60) DEF OneRequest
<1>7. /\ DOMAIN thread' = {"listener", "ctl", "admin"} /\ thread'["admin"] = "done"
      /\ thread'["listener"] = thread["listener"] /\ thread'["ctl"] = thread["ctl"]
  BY <1>1 DEF ExitInv, Joined
<1>8. Joined' BY <1>1, <1>7 DEF ExitInv, Joined
<1>9. notify' \in Seq(Workers) BY <1>1
<1> QED BY <1>3, <1>6, <1>8, <1>9, ZenonT(60) DEF ExitInv

(* A daemon that is killed, and the next one. *)
LEMMA KillExit ==
  ASSUME WorkersWell, ExitInv, Kill \/ Start
  PROVE  ExitInv'
<1>o. NoWorker # Operator BY DEF NoWorker, Operator
<1>1. CASE Kill
  <2>1. /\ main' = "killed" /\ serving' = NoWorker /\ notify' = <<>> /\ ctlq' = <<>> /\ table' = {}
        /\ UNCHANGED <<thread, quit>>
        /\ (ctl.at # "wait" /\ ctl' = ctl) \/ (ctl.at = "wait" /\ ctl' = [ctl EXCEPT !.at = "closed"])
    BY <1>1, ZenonT(60) DEF Kill
  <2>2. ctl'.at # "wait" /\ DOMAIN ctl' = {"at", "heirs"} BY <2>1 DEF ExitInv, OneRequest
  <2>3. OneRequest' BY <1>o, <2>1, <2>2, ZenonT(60) DEF OneRequest
  <2>4. Joined' BY <2>1 DEF ExitInv, Joined
  <2>5. InHand' BY <2>1 DEF InHand
  <2>6. notify' \in Seq(Workers) BY <2>1
  <2> QED BY <2>3, <2>4, <2>5, <2>6, ZenonT(60) DEF ExitInv
<1>2. CASE Start
  <2>1. /\ main' = "up" /\ thread' = [t \in DOMAIN thread |-> "run"]
        /\ quit' = [all |-> FALSE, admin |-> FALSE]
        /\ worker' = [w \in Workers |-> [worker[w] EXCEPT !.ours = ~Alive(w)]]
        /\ UNCHANGED <<notify, ctlq, table, ctl, serving>>
    BY <1>2, ZenonT(60) DEF Start
  <2>2. ASSUME NEW w \in Workers, Alive(w)' PROVE ~worker'[w].ours
    <3>1. PICK b : b = ~Alive(w) BY ZenonT(60)
    <3>2. worker'[w] = [worker[w] EXCEPT !.ours = b] BY <2>1, <3>1, ZenonT(60)
    <3>3. IsWorker(worker[w]) BY DEF WorkersWell
    <3>4. worker'[w].at = worker[w].at /\ worker'[w].ours = b BY <3>2, <3>3 DEF IsWorker
    <3> QED BY <2>2, <3>1, <3>4, ZenonT(60) DEF Alive
  <2>3. InHand' BY <2>2, ZenonT(60) DEF InHand
  <2>4. OneRequest' BY <2>1 DEF ExitInv, OneRequest
  <2>5. /\ DOMAIN thread' = {"listener", "ctl", "admin"} /\ thread'["admin"] = "run"
        /\ thread'["ctl"] = "run" /\ DOMAIN quit' = {"all", "admin"} /\ ~quit'.admin
    BY <2>1 DEF ExitInv, Joined
  <2>6. Joined' BY <2>1, <2>5, ZenonT(60) DEF Joined
  <2> QED BY <2>1, <2>3, <2>4, <2>6, ZenonT(60) DEF ExitInv
<1> QED BY <1>1, <1>2, ZenonT(60)

(* Every step keeps the daemon's end clean. *)
LEMMA ExitStep == ReceiptInv /\ ExitInv /\ [Next]_ballotVars => ExitInv'
<1> SUFFICES ASSUME ReceiptInv, ExitInv, [Next]_ballotVars PROVE ExitInv'
  OBVIOUS
<1>0. WorkersWell BY DEF ReceiptInv, PeersInv
<1>1. CASE UNCHANGED procVars
  <2>1. /\ UNCHANGED <<main, thread, quit, notify, ctlq, table, ctl, sockFile, serving>>
        /\ worker' = worker
    BY <1>1, ZenonT(60) DEF procVars
  <2>2. Spares BY <2>1, ZenonT(60) DEF Spares, Alive
  <2> QED BY <2>1, <2>2, SparesKeeps, ZenonT(60)
<1>2. CASE UNCHANGED ballotVars BY <1>1, <1>2, ZenonT(60) DEF ballotVars
<1>3. CASE Listener
  <2>1. ASSUME NEW c \in Clients, NEW w \in Workers, Accept(c, w) PROVE ExitInv'
    BY <1>0, <2>1, AcceptExit, ZenonT(60)
  <2>2. CASE StopListener(TRUE) \/ StopListener(FALSE) BY <2>2, ThreadsExit, ZenonT(60)
  <2> QED BY <1>3, <2>1, <2>2, ZenonT(60) DEF Listener, ListenerQuits, AcceptFails, BindFails
<1>4. CASE Ctl
  <2>1. CASE EndCtl(TRUE) \/ EndCtl(FALSE) BY <2>1, ThreadsExit, ZenonT(60)
  <2> QED BY <1>4, <2>1, CtlExit, ZenonT(60) DEF Ctl, CtlQuits, CtlFails
<1>5. CASE Admin
  <2>1. CASE Work BY <1>1, <2>1, ZenonT(60) DEF Work
  <2> QED BY <1>0, <1>5, <2>1, RegisterExit, TakeExit, ReplyExit, MainExit, AdminExit, ZenonT(60) DEF Admin
<1>6. CASE on_terminate \/ JoinAccepting \/ Return \/ Kill \/ Start
  BY <1>0, <1>6, MainExit, KillExit, ZenonT(60)
<1>7. ASSUME NEW w \in Workers, WorkerStep(w) PROVE ExitInv'
  BY <1>0, <1>7, WorkerSpares, PeersExit, ZenonT(60)
<1>8. ASSUME NEW c \in Clients, ClientStep(c) PROVE ExitInv'
  BY <1>0, <1>8, ClientSpares, PeersExit, ZenonT(60)
<1> QED BY <1>2, <1>3, <1>4, <1>5, <1>6, <1>7, <1>8, ZenonT(60) DEF Next

(* At the start nothing is in hand. *)
LEMMA InitExit == Init => ExitInv
<1> SUFFICES ASSUME Init PROVE ExitInv
  OBVIOUS
<1>1. /\ main = "up" /\ thread = [t \in {"listener", "ctl", "admin"} |-> "run"]
      /\ quit = [all |-> FALSE, admin |-> FALSE] /\ notify = <<>> /\ ctlq = <<>> /\ table = {}
      /\ worker = [w \in Workers |-> FreshWorker] /\ ctl = NoCtl /\ serving = NoWorker
  BY ZenonT(60) DEF Init
<1>2. InHand BY <1>1 DEF InHand, Alive, FreshWorker
<1>3. OneRequest BY <1>1 DEF OneRequest, NoCtl, NoWorker, Operator
<1>4. Joined BY <1>1 DEF Joined
<1>5. notify \in Seq(Workers) BY <1>1
<1> QED BY <1>2, <1>3, <1>4, <1>5, ZenonT(60) DEF ExitInv

(* However many clients, workers, operators' requests, signals and kills   *)
(* there were: when ballotd's main has returned, every worker it had not   *)
(* refused is gone, no operator waits for an answer and the control        *)
(* socket's file is removed.                                               *)
THEOREM ExitsAlwaysClean == Spec => []CleanExit
<1>1. ExitInv => CleanExit
  <2> SUFFICES ASSUME ExitInv, main = "returned"
               PROVE  /\ ctl.at # "wait" /\ ~sockFile
                      /\ \A w \in Workers : Alive(w) /\ worker[w].ours => worker[w].refused
    BY ZenonT(60) DEF CleanExit
  <2>1. /\ table = {} /\ notify = <<>> /\ ctlq = <<>> /\ serving = NoWorker /\ ~sockFile
    BY ZenonT(60) DEF ExitInv, Joined
  <2>2. NoWorker # Operator BY DEF NoWorker, Operator
  <2>3. Queued = {} BY <2>1, OneLong, ZenonT(60) DEF Queued
  <2> QED BY <2>1, <2>2, <2>3, ZenonT(60) DEF ExitInv, InHand, OneRequest
<1> QED BY <1>1, InitReceipts, StepReceipts, InitExit, ExitStep, PTL DEF Spec

-----------------------------------------------------------------------------
(* The theorems on finite sets are needed from here on only. *)
INSTANCE FiniteSetTheorems

(* Two sets between which a function pairs the elements off are of one     *)
(* size.                                                                   *)
LEMMA PairedOff ==
  ASSUME NEW S, IsFiniteSet(S), NEW U, NEW f \in [S -> U],
         \A x, y \in S : f[x] = f[y] => x = y, \A u \in U : \E x \in S : f[x] = u
  PROVE  Cardinality(S) = Cardinality(U)
<1>1. f \in Bijection(S, U) BY ZenonT(60) DEF Bijection, Injection, Surjection, IsInjective
<1> QED BY <1>1, FS_Bijection, ZenonT(60) DEF ExistsBijection

(* Sound tables have at most one live ballot for a voter. *)
LEMMA SoundIsOneLive == Sound(store) => OneLiveBallot
<1> SUFFICES ASSUME Sound(store), NEW id \in Ids
             PROVE  LET owners == {o \in store.owner : o.id = id}
                    IN  /\ {[hash |-> b.hash, version |-> b.version] : b \in Live(store, id)}
                             = {[hash |-> o.hash, version |-> o.version] : o \in owners}
                        /\ Cardinality(owners) = Cardinality(Live(store, id))
                        /\ Cardinality(owners) = Cardinality({o.name : o \in owners})
                        /\ \A b \in store.ballot : <<b.id, b.hash[1]>> \in store.nonce
  BY ZenonT(60) DEF OneLiveBallot
<1> DEFINE owners == {o \in store.owner : o.id = id}
           live == Live(store, id)
<1>1. \A b \in live : b \in store.ballot /\ b.id = id /\ b.live BY ZenonT(60) DEF Live
<1>2. ASSUME NEW b \in live PROVE \E o \in owners : o.hash = b.hash /\ o.version = b.version
  <2>1. PICK o \in store.owner : o.id = b.id /\ o.hash = b.hash
    BY <1>1, ZenonT(60) DEF Sound, BallotsSound
  <2>2. PICK c \in store.ballot : c.id = o.id /\ c.hash = o.hash /\ c.version = o.version
    BY <2>1, ZenonT(60) DEF Sound, BallotsSound
  <2>3. b \in store.ballot /\ b.id = c.id /\ b.hash = c.hash BY <1>1, <2>1, <2>2, ZenonT(60)
  <2>4. b = c BY <2>2, <2>3, ZenonT(60) DEF Sound, BallotsSound
  <2> QED BY <1>1, <2>1, <2>2, <2>4, ZenonT(60)
<1>3. ASSUME NEW o \in owners PROVE \E b \in live : b.hash = o.hash /\ b.version = o.version
  <2>1. PICK b \in store.ballot : b.live /\ b.id = o.id /\ b.hash = o.hash /\ b.version = o.version
    BY ZenonT(60) DEF Sound, BallotsSound
  <2> QED BY <2>1, ZenonT(60) DEF Live
<1>4. \A b, c \in live : b.hash = c.hash => b = c
  BY <1>1, SMTT(60) DEF Sound, BallotsSound
<1>5. \A o, p \in owners : o.hash = p.hash \/ o.name = p.name => o = p
  BY SMTT(60) DEF Sound, BallotsSound
<1>6. IsFiniteSet(owners) BY FS_Subset, ZenonT(60) DEF Sound, BallotsSound
<1> HIDE DEF owners, live
<1>7. {[hash |-> b.hash, version |-> b.version] : b \in live}
        = {[hash |-> o.hash, version |-> o.version] : o \in owners}
  BY <1>2, <1>3, ZenonT(60)
<1>8. Cardinality(owners) = Cardinality(live)
  <2> DEFINE f == [o \in owners |-> CHOOSE b \in live : b.hash = o.hash]
  <2>1. \A o \in owners : f[o] \in live /\ f[o].hash = o.hash BY <1>3
  <2>2. f \in [owners -> live] BY <2>1, ZenonT(60)
  <2> HIDE DEF f
  <2>3. \A o, p \in owners : f[o] = f[p] => o = p BY <1>5, <2>1, SMTT(60)
  <2>4. \A b \in live : \E o \in owners : f[o] = b BY <1>2, <1>4, <2>1, SMTT(60)
  <2> QED BY <1>6, <2>2, <2>3, <2>4, PairedOff, ZenonT(60)
<1>9. Cardinality(owners) = Cardinality({o.name : o \in owners})
  <2> DEFINE f == [o \in owners |-> o.name]
             names == {o.name : o \in owners}
  <2>1. f \in [owners -> names] /\ \A o \in owners : f[o] = o.name
    OBVIOUS
  <2>2. \A n \in names : \E o \in owners : n = o.name
    BY ZenonT(60)
  <2> HIDE DEF f, names
  <2>3. Cardinality(owners) = Cardinality(names) BY <1>5, <1>6, <2>1, <2>2, PairedOff, SMTT(60)
  <2> QED BY <2>3, ZenonT(60) DEF names
<1>10. \A b \in store.ballot : <<b.id, b.hash[1]>> \in store.nonce BY ZenonT(60) DEF Sound, BallotsSound
<1> QED BY <1>7, <1>8, <1>9, <1>10, ZenonT(60) DEF owners, live

(* Only the latest ballot of a voter is ever counted (bb_record_ballot),   *)
(* for any number of voters, elections, nonces, attempts and faults, and   *)
(* whenever the daemon is killed.                                          *)
THEOREM OneLiveBallotAlways == Spec => []OneLiveBallot
<1>1. BrainInv => OneLiveBallot BY SoundIsOneLive DEF BrainInv
<1> QED BY <1>1, InitSound, StepKeeps, PTL DEF Spec


=============================================================================
