---------------------------- MODULE BallotProofs ----------------------------
(* Ballots are counted right for any number of voters, elections, nonces,  *)
(* attempts and faults.                                                    *)
EXTENDS Ballotd, TLAPS

(* The four statements of bb_record_ballot, one after the other. *)
Appended(T, j) == run_append_ballot(T, j.req.id, j.row)

Superseded(T, j) ==
  IF j.prior = NoHash THEN Appended(T, j)
  ELSE run_mark_superseded(Appended(T, j), j.req.id, j.prior)

Owned(T, j) ==
  run_set_owner(Superseded(T, j), j.req.id, j.req.name, j.row.hash, j.row.version)

Recorded(T, j) == run_nonce_mark(Owned(T, j), j.req.id, j.req.nonce)

(* What the gates have made sure of, on the tables T. *)
Passed(T, j) ==
  LET r == j.req
      prior == OwnerRows(T, r.id, r.name)
  IN  /\ \E e \in T.election : e.id = r.id /\ e.state = "OPEN"
      /\ <<r.id, r.nonce>> \notin T.nonce
      /\ j.row = [id |-> r.id, hash |-> <<r.nonce, j.row.version>>, option |-> r.option,
                  version |-> j.row.version, live |-> TRUE]
      /\ \/ prior = {} /\ j.prior = NoHash /\ j.row.version = 1
         \/ \E o \in prior : j.prior = o.hash /\ j.row.version = o.version + 1

(* What each statement leaves in the tables. *)
LEMMA Appends ==
  ASSUME NEW T, IsTables(T), NEW id, NEW row
  PROVE  run_append_ballot(T, id, row) =
           [election |-> T.election, options |-> T.options, eligible |-> T.eligible,
            ballot |-> T.ballot \cup {row}, owner |-> T.owner, nonce |-> T.nonce]
BY DEF IsTables, run_append_ballot

Off(b) == [b EXCEPT !.live = FALSE]

(* A ballot row once it is superseded. *)
LEMMA OffOf ==
  ASSUME NEW i, NEW h, NEW o, NEW v, NEW l
  PROVE  Off([id |-> i, hash |-> h, option |-> o, version |-> v, live |-> l])
           = [id |-> i, hash |-> h, option |-> o, version |-> v, live |-> FALSE]
<1>1. \A z : [[id |-> i, hash |-> h, option |-> o, version |-> v, live |-> l] EXCEPT !.live = z]
              = [id |-> i, hash |-> h, option |-> o, version |-> v, live |-> z]
  OBVIOUS
<1> QED BY <1>1, ZenonT(60) DEF Off

(* What mark_superseded does to the tables: only ballot rows change. *)
LEMMA Marks ==
  ASSUME NEW T, IsTables(T), NEW id, NEW hash
  PROVE  run_mark_superseded(T, id, hash) =
           [election |-> T.election, options |-> T.options, eligible |-> T.eligible,
            ballot |-> (T.ballot \ Matching(T, id, hash)) \cup {Off(b) : b \in Matching(T, id, hash)},
            owner |-> T.owner, nonce |-> T.nonce]
BY DEF IsTables, run_mark_superseded, Off

(* What set_owner does to the tables: only the voter's owner row changes. *)
LEMMA Owns ==
  ASSUME NEW T, IsTables(T), NEW id, NEW name, NEW hash, NEW version
  PROVE  run_set_owner(T, id, name, hash, version) =
           [election |-> T.election, options |-> T.options, eligible |-> T.eligible,
            ballot |-> T.ballot,
            owner |-> (T.owner \ OwnerRows(T, id, name))
                        \cup {[id |-> id, name |-> name, hash |-> hash, version |-> version]},
            nonce |-> T.nonce]
BY DEF IsTables, run_set_owner

(* What nonce_mark does to the tables: only one nonce is added. *)
LEMMA Burns ==
  ASSUME NEW T, IsTables(T), NEW id, NEW nonce
  PROVE  run_nonce_mark(T, id, nonce) =
           [election |-> T.election, options |-> T.options, eligible |-> T.eligible,
            ballot |-> T.ballot, owner |-> T.owner, nonce |-> T.nonce \cup {<<id, nonce>>}]
BY DEF IsTables, run_nonce_mark

(* The hash of a ballot that passes the gates is new, because its nonce    *)
(* is, and so is not the one of the ballot it replaces.                    *)
LEMMA NewHash ==
  ASSUME NEW T, NEW j, Sound(T), Passed(T, j)
  PROVE  /\ \A b \in T.ballot : b.id = j.req.id => b.hash # j.row.hash
         /\ j.row.version \in Nat \ {0}
         /\ j.row.hash # j.prior
         /\ j.prior = NoHash => Matching(T, j.req.id, j.prior) = {}
         /\ j.row = [id |-> j.req.id, hash |-> <<j.req.nonce, j.row.version>>, option |-> j.req.option,
                     version |-> j.row.version, live |-> TRUE]
<1>1. /\ j.row.id = j.req.id /\ j.row.hash = <<j.req.nonce, j.row.version>> /\ j.row.hash[1] = j.req.nonce
      /\ <<j.req.id, j.req.nonce>> \notin T.nonce
  BY DEF Passed
<1>2. \A b \in T.ballot : b.id = j.req.id => b.hash # j.row.hash
  BY <1>1, SMTT(60) DEF Sound, BallotsSound
<1>3. ASSUME NEW b \in T.ballot PROVE b.hash # NoHash
  <2>1. b.hash = <<b.hash[1], b.version>> /\ b.version # 0
    BY ZenonT(60) DEF Sound, BallotsSound
  <2>2. b.hash[2] # 0 BY <2>1, SMTT(60)
  <2> QED BY <2>2 DEF NoHash
<1>4. CASE j.prior = NoHash /\ j.row.version = 1
  BY <1>1, <1>2, <1>3, <1>4, SMTT(60) DEF Passed, Matching, NoHash
<1>5. CASE \E o \in OwnerRows(T, j.req.id, j.req.name) : j.prior = o.hash /\ j.row.version = o.version + 1
  <2>1. PICK o \in T.owner : o.id = j.req.id /\ j.prior = o.hash /\ j.row.version = o.version + 1
    BY <1>5 DEF OwnerRows
  <2>2. PICK b \in T.ballot : b.id = o.id /\ b.hash = o.hash /\ b.version = o.version
    BY <2>1 DEF Sound, BallotsSound
  <2>3. b.version \in Nat \ {0} BY <2>2, ZenonT(60) DEF Sound, BallotsSound
  <2> QED BY <1>2, <1>3, <2>1, <2>2, <2>3 DEF Passed
<1> QED BY <1>4, <1>5 DEF Passed

(* What the whole transaction leaves. *)
LEMMA Records ==
  ASSUME NEW T, NEW j, Sound(T), Passed(T, j)
  PROVE  LET Old == Matching(T, j.req.id, j.prior)
         IN  Recorded(T, j) =
               [election |-> T.election, options |-> T.options, eligible |-> T.eligible,
                ballot |-> ((T.ballot \ Old) \cup {Off(b) : b \in Old}) \cup {j.row},
                owner |-> (T.owner \ OwnerRows(T, j.req.id, j.req.name))
                            \cup {[id |-> j.req.id, name |-> j.req.name, hash |-> j.row.hash,
                                   version |-> j.row.version]},
                nonce |-> T.nonce \cup {<<j.req.id, j.req.nonce>>}]
<1> DEFINE Old == Matching(T, j.req.id, j.prior)
           A == Appended(T, j)
           S == Superseded(T, j)
           O == Owned(T, j)
<1>0. IsTables(T) BY DEF Sound
<1> HIDE DEF Old
<1>1. A = [election |-> T.election, options |-> T.options, eligible |-> T.eligible,
           ballot |-> T.ballot \cup {j.row}, owner |-> T.owner, nonce |-> T.nonce]
  BY <1>0, Appends, ZenonT(60) DEF Appended
<1> HIDE DEF A
<1>2. IsTables(A) BY <1>1 DEF IsTables
<1>3. Matching(A, j.req.id, j.prior) = Old
  <2>1. A.ballot = T.ballot \cup {j.row} BY <1>1
  <2> QED BY <2>1, NewHash, ZenonT(60) DEF Matching, Old
<1>4. S = [election |-> T.election, options |-> T.options, eligible |-> T.eligible,
           ballot |-> ((T.ballot \ Old) \cup {Off(b) : b \in Old}) \cup {j.row},
           owner |-> T.owner, nonce |-> T.nonce]
  <2>1. CASE j.prior = NoHash
    <3>1. Old = {} BY <2>1, NewHash, ZenonT(60) DEF Old
    <3>2. ((T.ballot \ Old) \cup {Off(b) : b \in Old}) \cup {j.row} = T.ballot \cup {j.row}
      BY <3>1
    <3>3. S = A BY <2>1 DEF Superseded, A
    <3> QED BY <1>1, <3>2, <3>3
  <2>2. CASE j.prior # NoHash
    <3>1. j.row \notin Old BY NewHash, ZenonT(60) DEF Matching, Old
    <3>2. (A.ballot \ Old) \cup {Off(b) : b \in Old}
            = ((T.ballot \ Old) \cup {Off(b) : b \in Old}) \cup {j.row}
      <4>1. A.ballot = T.ballot \cup {j.row} BY <1>1, SMTT(60)
      <4> QED BY <3>1, <4>1
    <3>3. S = run_mark_superseded(A, j.req.id, j.prior) BY <2>2 DEF Superseded, A
    <3>4. S = [election |-> A.election, options |-> A.options, eligible |-> A.eligible,
               ballot |-> (A.ballot \ Old) \cup {Off(b) : b \in Old},
               owner |-> A.owner, nonce |-> A.nonce]
      BY <1>2, <1>3, <3>3, Marks, ZenonT(60)
    <3> QED BY <1>1, <3>2, <3>4
  <2> QED BY <2>1, <2>2
<1> HIDE DEF S
<1>5. IsTables(S) BY <1>4 DEF IsTables
<1>6. OwnerRows(S, j.req.id, j.req.name) = OwnerRows(T, j.req.id, j.req.name)
  <2>1. S.owner = T.owner BY <1>4
  <2> QED BY <2>1 DEF OwnerRows
<1>7. O = [election |-> S.election, options |-> S.options, eligible |-> S.eligible,
           ballot |-> S.ballot,
           owner |-> (S.owner \ OwnerRows(S, j.req.id, j.req.name))
                       \cup {[id |-> j.req.id, name |-> j.req.name, hash |-> j.row.hash,
                              version |-> j.row.version]},
           nonce |-> S.nonce]
  BY <1>5, Owns, SMTT(60) DEF Owned, S
<1> HIDE DEF O
<1>8. IsTables(O) BY <1>7 DEF IsTables
<1>9. Recorded(T, j) =
        [election |-> O.election, options |-> O.options, eligible |-> O.eligible,
         ballot |-> O.ballot, owner |-> O.owner, nonce |-> O.nonce \cup {<<j.req.id, j.req.nonce>>}]
  BY <1>8, Burns, SMTT(60) DEF Recorded, O
<1> QED BY <1>4, <1>6, <1>7, <1>9 DEF Old

(* Finite sets. *)
LEMMA FiniteEmpty == IsFiniteSet({})
<1>1. << >> \in Seq({}) BY SMTT(60)
<1> QED BY <1>1, ZenonT(60) DEF IsFiniteSet

(* One element more. *)
LEMMA FiniteAdd ==
  ASSUME NEW S, IsFiniteSet(S), NEW x
  PROVE  IsFiniteSet(S \cup {x})
<1> DEFINE T == S \cup {x}
<1>1. PICK seq \in Seq(S) : \A s \in S : \E n \in 1..Len(seq) : seq[n] = s
  BY ZenonT(60) DEF IsFiniteSet
<1> DEFINE all == Append(seq, x)
<1>2. /\ all \in Seq(T) /\ Len(all) = Len(seq) + 1 /\ all[Len(seq) + 1] = x
      /\ \A n \in 1..Len(seq) : all[n] = seq[n]
  BY <1>1, SMTT(60)
<1>3. \A s \in T : \E n \in 1..Len(all) : all[n] = s BY <1>1, <1>2, SMTT(60)
<1> HIDE DEF all
<1> QED BY <1>2, <1>3, ZenonT(60) DEF IsFiniteSet

(* The image of a function. *)
LEMMA FiniteImage ==
  ASSUME NEW S, IsFiniteSet(S), NEW T, NEW f \in [S -> T], \A t \in T : \E s \in S : f[s] = t
  PROVE  IsFiniteSet(T)
<1>1. PICK seq \in Seq(S) : \A s \in S : \E n \in 1..Len(seq) : seq[n] = s
  BY ZenonT(60) DEF IsFiniteSet
<1> DEFINE img == [n \in 1..Len(seq) |-> f[seq[n]]]
<1>2. Len(seq) \in Nat /\ \A n \in 1..Len(seq) : seq[n] \in S BY <1>1, SMTT(60)
<1>3. img \in Seq(T) /\ Len(img) = Len(seq) BY <1>1, <1>2, SMTT(60)
<1>4. \A t \in T : \E n \in 1..Len(img) : img[n] = t BY <1>1, <1>2, <1>3, SMTT(60)
<1> HIDE DEF img
<1> QED BY <1>3, <1>4, ZenonT(60) DEF IsFiniteSet

(* A part of a set. *)
LEMMA FiniteSubset ==
  ASSUME NEW S, IsFiniteSet(S), NEW T \in SUBSET S
  PROVE  IsFiniteSet(T)
<1>1. CASE T = {} BY <1>1, FiniteEmpty, ZenonT(60)
<1>2. CASE T # {}
  <2>1. PICK t0 \in T : TRUE BY <1>2, ZenonT(60)
  <2> DEFINE f == [s \in S |-> IF s \in T THEN s ELSE t0]
  <2>2. f \in [S -> T] /\ \A t \in T : \E s \in S : f[s] = t BY <2>1, SMTT(60)
  <2> HIDE DEF f
  <2> QED BY <2>2, FiniteImage, SMTT(60)
<1> QED BY <1>1, <1>2, ZenonT(60)

(* Two sets together. *)
LEMMA FiniteUnion ==
  ASSUME NEW S, IsFiniteSet(S), NEW T, IsFiniteSet(T)
  PROVE  IsFiniteSet(S \cup T)
<1> DEFINE U == S \cup T
<1>1. PICK u \in Seq(S) : \A s \in S : \E n \in 1..Len(u) : u[n] = s BY ZenonT(60) DEF IsFiniteSet
<1>2. PICK v \in Seq(T) : \A s \in T : \E n \in 1..Len(v) : v[n] = s BY ZenonT(60) DEF IsFiniteSet
<1> DEFINE w == [n \in 1..(Len(u) + Len(v)) |-> IF n <= Len(u) THEN u[n] ELSE v[n - Len(u)]]
<1>3. /\ Len(u) \in Nat /\ \A n \in 1..Len(u) : u[n] \in S
      /\ Len(v) \in Nat /\ \A n \in 1..Len(v) : v[n] \in T
  BY <1>1, <1>2, SMTT(60)
<1>4. w \in Seq(U) /\ Len(w) = Len(u) + Len(v)
  <2>1. ASSUME NEW n \in 1..(Len(u) + Len(v)) PROVE w[n] \in U BY <1>3, SMTT(60)
  <2> QED BY <2>1, <1>3, SMTT(60)
<1>5. ASSUME NEW s \in U PROVE \E n \in 1..Len(w) : w[n] = s
  <2>1. CASE s \in S
    <3>1. PICK n \in 1..Len(u) : u[n] = s BY <2>1, <1>1, ZenonT(60)
    <3> QED BY <3>1, <1>3, <1>4, SMTT(60)
  <2>2. CASE s \in T
    <3>1. PICK n \in 1..Len(v) : v[n] = s BY <2>2, <1>2, ZenonT(60)
    <3>2. n + Len(u) \in 1..Len(w) /\ w[n + Len(u)] = v[n] BY <3>1, <1>3, <1>4, SMTT(60)
    <3> QED BY <3>1, <3>2, SMTT(60)
  <2> QED BY <2>1, <2>2, ZenonT(60)
<1> HIDE DEF w
<1> QED BY <1>4, <1>5, ZenonT(60) DEF IsFiniteSet

(* It leaves the tables sound. *)
LEMMA RecordedSound ==
  ASSUME NEW T, NEW j, Sound(T), Passed(T, j)
  PROVE  Sound(Recorded(T, j))
<1> DEFINE id == j.req.id
           row == j.row
           Old == Matching(T, id, j.prior)
           mine == [id |-> id, name |-> j.req.name, hash |-> row.hash, version |-> row.version]
           Rows == OwnerRows(T, id, j.req.name)
           R == Recorded(T, j)
<1>1. /\ R.ballot = ((T.ballot \ Old) \cup {Off(b) : b \in Old}) \cup {row}
      /\ R.owner = (T.owner \ Rows) \cup {mine}
      /\ R.nonce = T.nonce \cup {<<id, j.req.nonce>>}
      /\ R.election = T.election /\ R.options = T.options
      /\ IsTables(R)
  BY Records, SMTT(60) DEF IsTables
<1> HIDE DEF R
<1>2. ElectionsSound(R)
  BY <1>1 DEF Sound, ElectionsSound
<1>3. ASSUME NEW c \in T.ballot
      PROVE  Off(c) = [id |-> c.id, hash |-> c.hash, option |-> c.option, version |-> c.version,
                       live |-> FALSE]
  <2>1. c = [id |-> c.id, hash |-> c.hash, option |-> c.option, version |-> c.version, live |-> c.live]
    BY ZenonT(60) DEF Sound, BallotsSound
  <2>2. \A i, h, o, v, l :
          c = [id |-> i, hash |-> h, option |-> o, version |-> v, live |-> l]
            => Off(c) = [id |-> i, hash |-> h, option |-> o, version |-> v, live |-> FALSE]
    BY OffOf, SMTT(60)
  <2> QED BY <2>1, <2>2, ZenonT(60)
<1>4. ASSUME NEW b \in R.ballot
      PROVE  \/ b = row
             \/ b \in T.ballot \ Old
             \/ \E c \in Old : b = Off(c)
  BY <1>1
<1>5. /\ \A b \in T.ballot : b.id = id => b.hash # row.hash
      /\ row.version \in Nat \ {0}
      /\ row = [id |-> id, hash |-> <<j.req.nonce, row.version>>, option |-> j.req.option,
                version |-> row.version, live |-> TRUE]
  BY NewHash
<1>6. \A c \in Old : c \in T.ballot /\ c.id = id /\ c.hash = j.prior
  BY DEF Matching
<1>7. IsFiniteSet(R.ballot)
  <2>1. IsFiniteSet({Off(b) : b \in Old})
    <3>1. CASE Old = {} BY <3>1, FiniteEmpty
    <3>2. CASE Old # {}
      <4>1. PICK c \in Old : TRUE BY <3>2
      <4>2. Old = {c} BY <1>6, <4>1 DEF Sound, BallotsSound
      <4>3. {Off(b) : b \in Old} = {} \cup {Off(c)} BY <4>2
      <4> QED BY <4>3, FiniteEmpty, FiniteAdd, ZenonT(60)
    <3> QED BY <3>1, <3>2
  <2>2. IsFiniteSet(T.ballot \ Old) BY FiniteSubset DEF Sound, BallotsSound
  <2>3. IsFiniteSet((T.ballot \ Old) \cup {Off(b) : b \in Old}) BY <2>1, <2>2, FiniteUnion, ZenonT(60)
  <2>4. IsFiniteSet(((T.ballot \ Old) \cup {Off(b) : b \in Old}) \cup {row})
    BY <2>3, FiniteAdd, SMTT(60)
  <2> QED BY <1>1, <2>4
<1>8. IsFiniteSet(R.owner)
  <2>1. IsFiniteSet(T.owner \ Rows) BY FiniteSubset DEF Sound, BallotsSound
  <2>2. IsFiniteSet((T.owner \ Rows) \cup {mine}) BY <2>1, FiniteAdd, ZenonT(60)
  <2> QED BY <1>1, <2>2
<1>9. \A o \in T.owner : o \in Rows <=> o.id = id /\ o.name = j.req.name
  BY DEF OwnerRows
<1>10. \A o \in Rows : o.hash = j.prior
  <2>1. CASE Rows = {} BY <2>1
  <2>2. CASE \E o \in Rows : j.prior = o.hash
    BY <1>9, <2>2, SMTT(60) DEF OwnerRows, Sound, BallotsSound
  <2> QED BY <2>1, <2>2 DEF Passed
<1>11. Old # {} => \E o \in Rows : j.prior = o.hash
  BY NewHash, SMTT(60) DEF Passed
<1> HIDE DEF Old, Rows
<1>12. ASSUME NEW b \in R.ballot
       PROVE  /\ b = [id |-> b.id, hash |-> b.hash, option |-> b.option, version |-> b.version,
                      live |-> b.live]
              /\ b.hash = <<b.hash[1], b.version>> /\ b.version \in Nat \ {0}
              /\ b.live \in BOOLEAN /\ <<b.id, b.hash[1]>> \in R.nonce
              /\ b.live => \E o \in R.owner : o.id = b.id /\ o.hash = b.hash
  <2>1. CASE b = row
    <3>1. mine \in R.owner /\ mine.id = id /\ mine.hash = row.hash BY <1>1
    <3>2. row.hash[1] = j.req.nonce /\ row.id = id /\ row.live = TRUE BY <1>5
    <3>3. <<row.id, row.hash[1]>> \in R.nonce BY <1>1, <3>2
    <3>4. row = [id |-> row.id, hash |-> row.hash, option |-> row.option, version |-> row.version,
                 live |-> row.live]
      BY <1>5
    <3>5. row.hash = <<row.hash[1], row.version>> BY <1>5, <3>2
    <3> QED BY <1>5, <2>1, <3>1, <3>2, <3>3, <3>4, <3>5, ZenonT(60)
  <2>2. CASE b \in T.ballot \ Old
    <3>1. ASSUME b.live PROVE \E o \in R.owner : o.id = b.id /\ o.hash = b.hash
      <4>1. PICK o \in T.owner : o.id = b.id /\ o.hash = b.hash
        BY <2>2, <3>1, ZenonT(60) DEF Sound, BallotsSound
      <4>2. o \notin Rows BY <1>9, <1>10, <2>2, <4>1, SMTT(60) DEF Old, Matching
      <4> QED BY <1>1, <4>1, <4>2, SMTT(60)
    <3>2. /\ b = [id |-> b.id, hash |-> b.hash, option |-> b.option, version |-> b.version,
                  live |-> b.live]
          /\ b.hash = <<b.hash[1], b.version>> /\ b.version \in Nat \ {0}
          /\ b.live \in BOOLEAN /\ <<b.id, b.hash[1]>> \in T.nonce
      BY <2>2 DEF Sound, BallotsSound
    <3>3. <<b.id, b.hash[1]>> \in R.nonce BY <1>1, <3>2, SMTT(60)
    <3> QED BY <3>1, <3>2, <3>3, SMTT(60)
  <2>3. CASE \E c \in Old : b = Off(c)
    <3>1. PICK c \in Old : b = Off(c) BY <2>3
    <3>2. b = [id |-> c.id, hash |-> c.hash, option |-> c.option, version |-> c.version, live |-> FALSE]
      BY <1>3, <1>6, <3>1
    <3>3. c \in T.ballot BY <1>6
    <3>4. c.hash = <<c.hash[1], c.version>> /\ c.version \in Nat \ {0} /\ <<c.id, c.hash[1]>> \in T.nonce
      BY <3>3 DEF Sound, BallotsSound
    <3> QED BY <1>1, <3>2, <3>4
  <2> QED BY <1>4, <2>1, <2>2, <2>3, SMTT(60)
<1>13. ASSUME NEW b \in R.ballot, NEW c \in R.ballot, b.id = c.id, b.hash = c.hash PROVE b = c
  <2>1. \A x \in R.ballot : x = row \/ \E y \in T.ballot : /\ x.id = y.id /\ x.hash = y.hash
                                                          /\ x = IF y \in Old THEN Off(y) ELSE y
    BY <1>3, <1>4, <1>6, SMTT(60)
  <2>2. CASE b = row \/ c = row
    BY <1>5, <1>13, <2>1, <2>2, SMTT(60)
  <2>3. CASE b # row /\ c # row
    <3>1. PICK y \in T.ballot : b.id = y.id /\ b.hash = y.hash /\ b = IF y \in Old THEN Off(y) ELSE y
      BY <2>1, <2>3
    <3>2. PICK z \in T.ballot : c.id = z.id /\ c.hash = z.hash /\ c = IF z \in Old THEN Off(z) ELSE z
      BY <2>1, <2>3, SMTT(60)
    <3>3. y.id = z.id /\ y.hash = z.hash BY <1>13, <3>1, <3>2, ZenonT(60)
    <3>4. y = z BY <3>3, SMTT(60) DEF Sound, BallotsSound
    <3> QED BY <3>1, <3>2, <3>4, SMTT(60)
  <2> QED BY <2>2, <2>3
<1>14. ASSUME NEW o \in R.owner
       PROVE  \E b \in R.ballot : b.live /\ b.id = o.id /\ b.hash = o.hash /\ b.version = o.version
  <2>1. CASE o = mine
    BY <1>1, <1>5, <2>1, SMTT(60)
  <2>2. CASE o \in T.owner \ Rows
    <3>1. PICK b \in T.ballot : b.live /\ b.id = o.id /\ b.hash = o.hash /\ b.version = o.version
      BY <2>2 DEF Sound, BallotsSound
    <3>2. b \notin Old
      <4> SUFFICES ASSUME b \in Old PROVE FALSE
        OBVIOUS
      <4>1. PICK q \in Rows : j.prior = q.hash BY <1>11
      <4>2. q \in T.owner /\ q.id = id BY <4>1 DEF Rows, OwnerRows
      <4>3. o.id = id /\ o.hash = q.hash BY <1>6, <3>1, <4>1, SMTT(60)
      <4>4. o = q BY <2>2, <4>2, <4>3, SMTT(60) DEF Sound, BallotsSound
      <4> QED BY <2>2, <4>1, <4>4
    <3> QED BY <1>1, <3>1, <3>2, SMTT(60)
  <2> QED BY <1>1, <2>1, <2>2, SMTT(60)
<1>15. ASSUME NEW o \in R.owner, NEW p \in R.owner, o.id = p.id, o.name = p.name \/ o.hash = p.hash
       PROVE  o = p
  <2>1. ASSUME NEW q \in T.owner \ Rows, q.id = id
        PROVE  q.name # j.req.name /\ q.hash # row.hash
    <3>1. q.name # j.req.name BY <1>9, <2>1, SMTT(60)
    <3>2. PICK b \in T.ballot : b.id = q.id /\ b.hash = q.hash BY <2>1, SMTT(60) DEF Sound, BallotsSound
    <3> QED BY <1>5, <2>1, <3>1, <3>2, SMTT(60)
  <2>2. mine.id = id /\ mine.name = j.req.name /\ mine.hash = row.hash
    OBVIOUS
  <2> HIDE DEF mine
  <2>3. CASE o \in T.owner /\ p \in T.owner
    BY <1>15, <2>3, SMTT(60) DEF Sound, BallotsSound
  <2> QED BY <1>1, <1>15, <2>1, <2>2, <2>3, SMTT(60)
<1>16. BallotsSound(R)
  BY <1>7, <1>8, <1>12, <1>13, <1>14, <1>15, SMTT(60) DEF BallotsSound
<1> QED BY <1>1, <1>2, <1>16, SMTT(60) DEF Sound, R

-----------------------------------------------------------------------------
(* While a call runs nobody else writes, so its transaction's view is the  *)
(* store with the statements made so far.                                  *)

IsJob(j) ==
  j = [req |-> j.req, at |-> j.at, attempt |-> j.attempt, prior |-> j.prior, row |-> j.row,
       answer |-> j.answer]

TxnFollows ==
  /\ job.at = "gates" => txn = store
  /\ job.at \in {"append", "mark", "owner", "nonce", "commit"} => Passed(store, job)
  /\ job.at = "append" => txn = store
  /\ job.at = "mark" => job.prior # NoHash /\ txn = Appended(store, job)
  /\ job.at = "owner" => txn = Superseded(store, job)
  /\ job.at = "nonce" => txn = Owned(store, job)
  /\ job.at = "commit" => txn = Recorded(store, job)

BrainInv == Sound(store) /\ IsJob(job) /\ TxnFollows

(* A worker that is between statements owes the tables nothing. *)
LEMMA Settled ==
  ASSUME Sound(store'), IsJob(job'), job'.at \in {"idle", "call", "done"}
  PROVE  BrainInv'
BY DEF BrainInv, TxnFollows

(* A request that is answered owes the tables nothing. *)
LEMMA FinishSettles ==
  ASSUME Sound(store'), IsJob(job), NEW answer, Finish(answer)
  PROVE  BrainInv'
<1>1. IsJob(job') /\ job'.at = "done" BY ZenonT(60) DEF IsJob, Finish
<1> QED BY <1>1, Settled

(* An election that is created, or moves on, leaves the tables sound. *)
LEMMA Inserts ==
  ASSUME NEW T, IsTables(T), NEW id, NEW names
  PROVE  run_insert_election(T, id, names) =
           [election |-> T.election \cup {[id |-> id, state |-> "DRAFT"]},
            options |-> [T.options EXCEPT ![id] = @ + NumOptions],
            eligible |-> [T.eligible EXCEPT ![id] = @ \cup names],
            ballot |-> T.ballot, owner |-> T.owner, nonce |-> T.nonce]
<1> DEFINE x == T.election \cup {[id |-> id, state |-> "DRAFT"]}
           y == [T.options EXCEPT ![id] = @ + NumOptions]
           z == [T.eligible EXCEPT ![id] = @ \cup names]
<1>1. \A p, q, r : [T EXCEPT !.election = p, !.options = q, !.eligible = r] =
                    [election |-> p, options |-> q, eligible |-> r,
                     ballot |-> T.ballot, owner |-> T.owner, nonce |-> T.nonce]
  <2> TAKE p, q, r
  <2> DEFINE P == [T EXCEPT !.election = p, !.options = q, !.eligible = r]
  <2>1. DOMAIN T = {"election", "options", "eligible", "ballot", "owner", "nonce"}
    BY DEF IsTables
  <2>2. P = [f \in DOMAIN T |-> IF f = "election" THEN p ELSE IF f = "options" THEN q
                               ELSE IF f = "eligible" THEN r ELSE T[f]]
    BY <2>1, ZenonT(60)
  <2> QED BY <2>1, <2>2, SMTT(60)
<1>2. run_insert_election(T, id, names) = [T EXCEPT !.election = x, !.options = y, !.eligible = z]
  BY DEF run_insert_election
<1> HIDE DEF x, y, z
<1>3. run_insert_election(T, id, names) =
        [election |-> x, options |-> y, eligible |-> z,
         ballot |-> T.ballot, owner |-> T.owner, nonce |-> T.nonce]
  BY <1>1, <1>2, ZenonT(60)
<1> QED BY <1>3 DEF x, y, z

(* create adds an election without ballots. *)
LEMMA InsertSound ==
  ASSUME NEW T, Sound(T), NEW id \in Ids, NEW names
  PROVE  Sound(run_insert_election(T, id, names))
<1> DEFINE R == run_insert_election(T, id, names)
<1>1. /\ R.election = T.election \cup {[id |-> id, state |-> "DRAFT"]}
      /\ R.options = [T.options EXCEPT ![id] = @ + NumOptions]
      /\ R.ballot = T.ballot /\ R.owner = T.owner /\ R.nonce = T.nonce
      /\ IsTables(R)
  <2>1. IsTables(T) BY SMTT(60) DEF Sound
  <2> QED BY <2>1, Inserts DEF IsTables
<1> HIDE DEF R
<1>2. ElectionsSound(R)
  BY <1>1, BallotAssumption, SMTT(60) DEF Sound, ElectionsSound
<1>3. BallotsSound(R) BY <1>1, SMTT(60) DEF Sound, BallotsSound
<1> QED BY <1>1, <1>2, <1>3, SMTT(60) DEF Sound, R

(* open and close change only the state of an election. *)
LEMMA UpdateSound ==
  ASSUME NEW T, Sound(T), NEW id, NEW to, Elections(T, id) # {}
  PROVE  Sound(run_update_state(T, id, to))
<1> DEFINE R == run_update_state(T, id, to)
<1>1. /\ R.election = (T.election \ Elections(T, id)) \cup {[id |-> id, state |-> to]}
      /\ R.options = T.options
      /\ R.ballot = T.ballot /\ R.owner = T.owner /\ R.nonce = T.nonce
      /\ IsTables(R)
  BY DEF Sound, IsTables, run_update_state
<1> HIDE DEF R
<1>2. ElectionsSound(R)
  BY <1>1, SMTT(60) DEF Sound, ElectionsSound, Elections
<1>3. BallotsSound(R) BY <1>1 DEF Sound, BallotsSound
<1> QED BY <1>1, <1>2, <1>3 DEF Sound, R

(* A statement that writes election rows keeps BrainInv. *)
LEMMA WriteKeeps ==
  ASSUME BrainInv, NEW T, Sound(T), NEW id, Write(T, id)
  PROVE  BrainInv'
<1>1. Sound(store') BY DEF Write, BrainInv
<1>2. \E answer : Finish(answer) BY DEF Write
<1> QED BY <1>1, <1>2, FinishSettles DEF BrainInv

(* A job that only goes on to its next statement keeps what it has chosen. *)
LEMMA GoesOn ==
  ASSUME NEW j, IsJob(j), NEW at, NEW T
  PROVE  LET k == [j EXCEPT !.at = at]
         IN  /\ IsJob(k) /\ k.at = at /\ k.prior = j.prior /\ k.req = j.req /\ k.row = j.row
             /\ Passed(T, k) <=> Passed(T, j)
             /\ Appended(T, k) = Appended(T, j) /\ Superseded(T, k) = Superseded(T, j)
             /\ Owned(T, k) = Owned(T, j) /\ Recorded(T, k) = Recorded(T, j)
<1> DEFINE k == [j EXCEPT !.at = at]
<1>1. IsJob(k) /\ k.at = at /\ k.prior = j.prior /\ k.req = j.req /\ k.row = j.row
  BY SMTT(60) DEF IsJob
<1> HIDE DEF k
<1>2. Passed(T, k) <=> Passed(T, j) BY <1>1 DEF Passed
<1>3. Appended(T, k) = Appended(T, j) BY <1>1 DEF Appended
<1>4. Superseded(T, k) = Superseded(T, j) BY <1>1, <1>3 DEF Superseded
<1>5. Owned(T, k) = Owned(T, j) BY <1>1, <1>4 DEF Owned
<1>6. Recorded(T, k) = Recorded(T, j) BY <1>1, <1>5 DEF Recorded
<1> QED BY <1>1, <1>2, <1>3, <1>4, <1>5, <1>6, SMTT(60) DEF k

(* Every step of a call keeps the invariant. *)
LEMMA CallKeeps ==
  ASSUME BrainInv, Call
  PROVE  BrainInv'
<1>0. Sound(store) /\ IsJob(job) BY DEF BrainInv
<1>f. ASSUME store' = store, \E answer : Finish(answer) PROVE BrainInv'
  BY <1>0, <1>f, FinishSettles
<1>1. CASE Read
  BY <1>1, <1>f DEF Read
<1>2. CASE NextId
  BY <1>2, <1>f, SMTT(60) DEF NextId
<1>3. CASE bb_transition_state
  <2>1. CASE \E answer : Finish(answer) /\ UNCHANGED <<store, txn, faults>>
    BY <1>f, <2>1, SMTT(60)
  <2>2. CASE Elections(store, job.req.id) # {} /\ Write(run_update_state(store, job.req.id, Target(job.req.op)), job.req.id)
    BY <1>0, <2>2, UpdateSound, WriteKeeps, SMTT(60)
  <2> QED BY <1>3, <2>1, <2>2, SMTT(60) DEF bb_transition_state, run_get_election
<1>4. CASE CallFails \/ BeginFails
  BY <1>4, <1>f DEF CallFails, BeginFails
<1>5. ASSUME NEW names \in SUBSET Accounts, bb_create_election(names) PROVE BrainInv'
  <2>1. \A id \in Ids : Sound(run_insert_election(store, id, names))
    BY <1>0, InsertSound
  <2>2. bb_alloc_id(FALSE) = 1 /\ 1 \in Ids
    BY BallotAssumption DEF bb_alloc_id
  <2>3. CASE \E id \in Ids : Write(run_insert_election(store, id, names), id)
    BY <2>1, <2>3, WriteKeeps
  <2>4. CASE /\ store' = run_insert_election(store, bb_alloc_id(FALSE), names)
             /\ \E answer : Finish(answer)
    BY <1>0, <2>1, <2>2, <2>4, FinishSettles, ZenonT(60)
  <2>5. CASE store' = store /\ \E answer : Finish(answer)
    BY <1>f, <2>5
  <2> QED BY <1>5, <2>3, <2>4, <2>5, ZenonT(60) DEF bb_create_election
<1>6. CASE bb_db_begin
  <2>1. job' = [job EXCEPT !.at = "gates"] /\ store' = store /\ txn' = store
    BY <1>6 DEF bb_db_begin
  <2>2. IsJob(job') /\ job'.at = "gates" BY <1>0, <2>1 DEF IsJob
  <2> QED BY <1>0, <2>1, <2>2 DEF BrainInv, TxnFollows
<1>7. CASE Gates
  <2>1. CASE \E answer : Finish(answer)
    BY <1>7, <1>f, <2>1, ZenonT(60) DEF Gates
  <2>2. CASE ~\E answer : Finish(answer)
    <3> DEFINE r == job.req
               prior == OwnerRows(store, r.id, r.name)
               version == IF prior = {} THEN 1 ELSE (CHOOSE o \in prior : TRUE).version + 1
               hash == IF prior = {} THEN NoHash ELSE (CHOOSE o \in prior : TRUE).hash
               row == [id |-> r.id, hash |-> <<r.nonce, version>>, option |-> r.option,
                       version |-> version, live |-> TRUE]
    <3>1. txn = store BY <1>7, ZenonT(60) DEF Gates, BrainInv, TxnFollows
    <3>2. PICK e \in run_get_election(store, r.id) :
            /\ Verdict(store, e, r) = "OK"
            /\ job' = [job EXCEPT !.at = "append", !.prior = hash, !.row = row]
            /\ txn' = txn /\ store' = store
      BY <1>7, <2>2, <3>1, ZenonT(60) DEF Gates, run_get_prior_ballot, bb_issue_receipt
    <3>3. e.state = "OPEN" /\ <<r.id, r.nonce>> \notin store.nonce
      BY <3>2 DEF Verdict, run_nonce_seen
    <3>4. \E f \in store.election : f.id = r.id /\ f.state = "OPEN"
      BY <3>2, <3>3 DEF run_get_election, Elections
    <3>5. \/ prior = {} /\ hash = NoHash /\ version = 1
          \/ \E o \in prior : hash = o.hash /\ version = o.version + 1
      BY ZenonT(60)
    <3>6. row.version = version /\ row.option = r.option
      OBVIOUS
    <3> HIDE DEF prior, version, hash
    <3>7. /\ IsJob(job') /\ job'.at = "append" /\ job'.req = r /\ job'.prior = hash /\ job'.row = row
      BY <1>0, <3>2, ZenonT(60) DEF IsJob
    <3>8. Passed(store, job')
      BY <3>3, <3>4, <3>5, <3>6, <3>7, SMTT(60) DEF Passed, prior
    <3> QED BY <1>0, <3>1, <3>2, <3>7, <3>8, SMTT(60) DEF BrainInv, TxnFollows
  <2> QED BY <2>1, <2>2, SMTT(60)
<1>8. CASE AppendBallot \/ MarkSuperseded \/ SetOwner \/ NonceMark
  <2>1. store' = store /\ \E at : job' = [job EXCEPT !.at = at]
    BY <1>8 DEF AppendBallot, MarkSuperseded, SetOwner, NonceMark, Statement
  <2>2. Passed(store, job)
    BY <1>8 DEF AppendBallot, MarkSuperseded, SetOwner, NonceMark, Statement, BrainInv, TxnFollows
  <2>3. /\ IsJob(job') /\ job'.prior = job.prior
        /\ Passed(store', job')
        /\ Appended(store', job') = Appended(store, job)
        /\ Superseded(store', job') = Superseded(store, job)
        /\ Owned(store', job') = Owned(store, job) /\ Recorded(store', job') = Recorded(store, job)
    BY <1>0, <2>1, <2>2, GoesOn, SMTT(60)
  <2>4. CASE AppendBallot
    <3>1. txn' = Appended(store, job)
      BY <2>4 DEF AppendBallot, Statement, BrainInv, TxnFollows, Appended
    <3>2. job'.at = IF job.prior = NoHash THEN "owner" ELSE "mark"
      BY <1>0, <2>4 DEF AppendBallot, Statement, IsJob
    <3>3. job.prior = NoHash => Appended(store, job) = Superseded(store, job)
      BY DEF Superseded
    <3> QED BY <1>0, <2>1, <2>3, <3>1, <3>2, <3>3, SMTT(60) DEF BrainInv, TxnFollows
  <2>5. CASE MarkSuperseded
    <3>1. txn' = Superseded(store, job)
      BY <2>5 DEF MarkSuperseded, Statement, BrainInv, TxnFollows, Superseded
    <3>2. job'.at = "owner" BY <1>0, <2>5, SMTT(60) DEF MarkSuperseded, Statement, IsJob
    <3> QED BY <1>0, <2>1, <2>3, <3>1, <3>2, SMTT(60) DEF BrainInv, TxnFollows
  <2>6. CASE SetOwner
    <3>1. txn' = Owned(store, job)
      BY <2>6 DEF SetOwner, Statement, BrainInv, TxnFollows, Owned
    <3>2. job'.at = "nonce" BY <1>0, <2>6, SMTT(60) DEF SetOwner, Statement, IsJob
    <3> QED BY <1>0, <2>1, <2>3, <3>1, <3>2, SMTT(60) DEF BrainInv, TxnFollows
  <2>7. CASE NonceMark
    <3>1. txn' = Recorded(store, job)
      BY <2>7 DEF NonceMark, Statement, BrainInv, TxnFollows, Recorded
    <3>2. job'.at = "commit" BY <1>0, <2>7 DEF NonceMark, Statement, IsJob
    <3> QED BY <1>0, <2>1, <2>3, <3>1, <3>2, SMTT(60) DEF BrainInv, TxnFollows
  <2> QED BY <1>8, <2>4, <2>5, <2>6, <2>7, SMTT(60)
<1>r. ASSUME store' = store, Redo PROVE BrainInv'
  <2>1. CASE job' = [job EXCEPT !.at = "call", !.attempt = @ + 1, !.prior = NoHash, !.row = NoRow]
    <3>1. IsJob(job') /\ job'.at = "call" BY <1>0, <2>1, ZenonT(60) DEF IsJob
    <3> QED BY <1>0, <1>r, <3>1, Settled, SMTT(60)
  <2> QED BY <1>f, <1>r, <2>1 DEF Redo
<1>9. CASE StatementFails
  BY <1>9, <1>f, <1>r DEF StatementFails
<1>10. CASE bb_db_commit \/ CommitFails
  <2>1. Sound(txn)
    BY <1>0, <1>10, RecordedSound, SMTT(60) DEF bb_db_commit, CommitFails, BrainInv, TxnFollows
  <2> QED BY <1>0, <1>10, <1>f, <1>r, <2>1, FinishSettles, SMTT(60) DEF bb_db_commit, CommitFails
<1> QED
  BY <1>1, <1>2, <1>3, <1>4, <1>5, <1>6, <1>7, <1>8, <1>9, <1>10, SMTT(60) DEF Call, Record

-----------------------------------------------------------------------------

(* The daemon around the calls: it starts one, ends one, is killed in the  *)
(* middle of one, or leaves the brain alone.                               *)
Between ==
  \/ store' = store /\ txn' = txn /\ job' = job
  \/ store' = store /\ \E r : job' = [NoJob EXCEPT !.req = r, !.at = "call"]
  \/ store' \in {store} \cup (IF job.at = "commit" THEN {txn} ELSE {}) /\ job' = NoJob

(* Every step of ballotd calls the brain or lies between two calls. *)
LEMMA DaemonSteps ==
  ASSUME [Next]_ballotVars
  PROVE  Call \/ Between
<1>1. CASE Listener
  BY <1>1, ZenonT(60) DEF Listener, Accept, ListenerQuits, AcceptFails, BindFails, StopListener, Between, brainVars
<1>2. CASE Ctl
  BY <1>2, ZenonT(60) DEF Ctl, handle_conn, CtlQuits, CtlFails, EndCtl, CtlDone, Between, brainVars
<1>3. CASE Register \/ AdminQuits \/ \E w \in Workers : drop_worker(w)
  BY <1>3, ZenonT(60) DEF Register, AdminQuits, drop_worker, Between, brainVars
<1>4. CASE TakeCtl \/ \E w \in Workers : TakeRequest(w)
  BY <1>4, ZenonT(60) DEF TakeCtl, TakeRequest, Begin, Between
<1>5. CASE Work BY <1>5 DEF Work
<1>6. CASE Reply BY <1>6, SMTT(60) DEF Reply, Between
<1>7. CASE on_terminate \/ JoinAccepting \/ Return \/ Start
  BY <1>7, ZenonT(60) DEF on_terminate, JoinAccepting, Return, Start, Between, brainVars
<1>8. CASE Kill BY <1>8, ZenonT(60) DEF Kill, Between
<1>9. ASSUME NEW w \in Workers, WorkerStep(w) PROVE Between
  BY <1>9, ZenonT(60) DEF WorkerStep, handle_request, Orphaned, WorkerExits, PeersOnly, Between, brainVars
<1>10. ASSUME NEW c \in Clients, ClientStep(c) PROVE Between
  BY <1>10, ZenonT(60)
  DEF ClientStep, SignIn, Leave, Join, ViewResults, Vote, CheckVote, Disconnected, bcl_send, PeersOnly,
      Between, brainVars
<1>11. CASE UNCHANGED ballotVars BY <1>11 DEF ballotVars, brainVars, Between
<1> QED
  BY <1>1, <1>2, <1>3, <1>4, <1>5, <1>6, <1>7, <1>8, <1>9, <1>10, <1>11, SMTT(60) DEF Next, Admin

(* The tables are empty when ballotd starts. *)
LEMMA InitSound == Init => BrainInv
<1> SUFFICES ASSUME Init PROVE BrainInv
  OBVIOUS
<1>1. Sound(store) /\ job = NoJob
  BY StartsAssumption, SMTT(60) DEF Init, BrainInit
<1>2. IsJob(job) /\ job.at = "idle" BY <1>1, SMTT(60) DEF IsJob, NoJob
<1> QED BY <1>1, <1>2 DEF BrainInv, TxnFollows

(* Every step of ballotd keeps BrainInv. *)
LEMMA StepKeeps == BrainInv /\ [Next]_ballotVars => BrainInv'
<1> SUFFICES ASSUME BrainInv, [Next]_ballotVars PROVE BrainInv'
  OBVIOUS
<1>1. CASE store' = store /\ txn' = txn /\ job' = job
  BY <1>1 DEF BrainInv, TxnFollows
<1>2. CASE store' = store /\ \E r : job' = [NoJob EXCEPT !.req = r, !.at = "call"]
  <2>1. IsJob(job') /\ job'.at = "call" BY <1>2, ZenonT(60) DEF IsJob, NoJob
  <2> QED BY <1>2, <2>1, Settled, SMTT(60) DEF BrainInv
<1>3. CASE store' \in {store} \cup (IF job.at = "commit" THEN {txn} ELSE {}) /\ job' = NoJob
  <2>1. IsJob(job') /\ job'.at = "idle" BY <1>3 DEF IsJob, NoJob
  <2>2. job.at = "commit" => Sound(txn) BY RecordedSound DEF BrainInv, TxnFollows
  <2>3. Sound(store') BY <1>3, <2>2, SMTT(60) DEF BrainInv
  <2> QED BY <2>1, <2>3, Settled, SMTT(60)
<1> QED BY <1>1, <1>2, <1>3, CallKeeps, DaemonSteps, ZenonT(60) DEF Between

-----------------------------------------------------------------------------

SameBallots(T) == T.ballot = store.ballot /\ T.owner = store.owner

(* A call writes ballots and owners only where it commits. *)
LEMMA WhoWrites ==
  ASSUME BrainInv, Call
  PROVE  SameBallots(store') \/ (job.at = "commit" /\ store' = txn)
<1>0. IsTables(store) BY SMTT(60) DEF BrainInv, Sound
<1>1. ASSUME NEW id, NEW names PROVE SameBallots(run_insert_election(store, id, names))
  BY <1>0, Inserts DEF SameBallots
<1>2. ASSUME NEW id, NEW to PROVE SameBallots(run_update_state(store, id, to))
  BY <1>0 DEF IsTables, run_update_state, SameBallots
<1>s. SameBallots(store) BY DEF SameBallots
<1>3. ASSUME NEW T, NEW id, SameBallots(T), Write(T, id) PROVE SameBallots(store')
  BY <1>3, <1>s DEF Write
<1>4. CASE Read \/ NextId \/ CallFails
  BY <1>4, <1>s, SMTT(60) DEF Read, NextId, CallFails
<1>5. CASE bb_transition_state
  BY <1>2, <1>3, <1>5, <1>s, SMTT(60) DEF bb_transition_state
<1>6. ASSUME NEW names \in SUBSET Accounts, bb_create_election(names) PROVE SameBallots(store')
  <2>1. CASE \E id : Write(run_insert_election(store, id, names), id)
    BY <1>1, <1>3, <2>1, SMTT(60)
  <2>2. CASE \E id : store' = run_insert_election(store, id, names)
    BY <1>1, <2>2
  <2>3. CASE store' = store BY <1>s, <2>3
  <2> QED BY <1>6, <2>1, <2>2, <2>3, ZenonT(60) DEF bb_create_election
<1>7. CASE Record
  BY <1>7, <1>s, ZenonT(60)
  DEF Record, bb_db_begin, BeginFails, Gates, AppendBallot, MarkSuperseded, SetOwner, NonceMark, Statement,
      StatementFails, bb_db_commit, CommitFails
<1> QED BY <1>4, <1>5, <1>6, <1>7, SMTT(60) DEF Call

(* A commit writes ballots of an id with an open election only. *)
LEMMA CommitLeavesClosed ==
  ASSUME BrainInv, job.at = "commit", store' = txn
  PROVE  LeavesClosed
<1> SUFFICES ASSUME NEW id \in Ids, ~Polling(id)
             PROVE  {b \in store'.ballot : b.id = id} = {b \in store.ballot : b.id = id}
  BY DEF LeavesClosed
<1> DEFINE Old == Matching(store, job.req.id, job.prior)
<1>1. Sound(store) /\ Passed(store, job) BY SMTT(60) DEF BrainInv, TxnFollows
<1>2. store'.ballot = ((store.ballot \ Old) \cup {Off(b) : b \in Old}) \cup {job.row}
  <2>1. store' = Recorded(store, job) BY ZenonT(60) DEF BrainInv, TxnFollows
  <2> QED BY <1>1, <2>1, Records, SMTT(60)
<1>3. PICK e \in store.election : e.id = job.req.id /\ e.state = "OPEN" BY <1>1 DEF Passed
<1>6. id # job.req.id BY <1>3, SMTT(60) DEF Polling, Elections
<1>7. job.row.id # id
  <2>1. job.row.id = job.req.id BY <1>1, SMTT(60) DEF Passed
  <2> QED BY <1>6, <2>1, ZenonT(60)
<1>8. \A b \in Old : b \in store.ballot /\ b.id # id BY <1>6, SMTT(60) DEF Matching
<1>9. ASSUME NEW b \in Old PROVE Off(b).id # id
  <2>1. b \in store.ballot BY <1>8, SMTT(60)
  <2>2. b = [id |-> b.id, hash |-> b.hash, option |-> b.option, version |-> b.version, live |-> b.live]
    BY <1>1, <2>1, ZenonT(60) DEF Sound, BallotsSound
  <2>3. Off(b).id = b.id BY <2>2 DEF Off
  <2> QED BY <1>8, <2>3, SMTT(60)
<1> HIDE DEF Old
<1> QED BY <1>2, <1>7, <1>8, <1>9, SMTT(60)

(* While an id has no open election no ballot of it is added, changed or   *)
(* lost (the gates of bb_record_ballot, inside its transaction), whatever  *)
(* overlaps, fails or is killed, and however many elections bb_alloc_id    *)
(* has put under the id.                                                   *)
THEOREM BallotsAlwaysFrozen == Spec => BallotsFrozen
<1>1. BrainInv /\ [Next]_ballotVars => [LeavesClosed]_store
  <2> SUFFICES ASSUME BrainInv, [Next]_ballotVars PROVE [LeavesClosed]_store
    OBVIOUS
  <2>1. store'.ballot = store.ballot => LeavesClosed BY DEF LeavesClosed
  <2>0. SameBallots(store') => store'.ballot = store.ballot BY DEF SameBallots
  <2>2. job.at = "commit" /\ store' = txn => LeavesClosed BY CommitLeavesClosed
  <2>3. CASE Call BY <2>0, <2>1, <2>2, <2>3, WhoWrites, SMTT(60)
  <2>4. CASE Between BY <2>1, <2>2, <2>4, ZenonT(60) DEF Between
  <2> QED BY <2>3, <2>4, DaemonSteps, SMTT(60)
<1> QED BY <1>1, InitSound, StepKeeps, PTL DEF Spec, BallotsFrozen

=============================================================================
