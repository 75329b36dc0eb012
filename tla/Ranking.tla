------------------------------ MODULE Ranking ------------------------------
(***************************************************************************)
(* How room.c ranks a room.  room_push_standings walks the members in      *)
(* members[] order (which swap-removal leaves arbitrary), inserting each   *)
(* one's row into an array that never holds more than MAX_STANDINGS rows;  *)
(* room_check_round_end walks them again and keeps a running winner.  Both *)
(* walks are one step per member here; what they compute is compared with  *)
(* the ranking itself.                                                     *)
(***************************************************************************)
EXTENDS Integers, Sequences, FiniteSets, SequencesExt

CONSTANTS
  MAX_STANDINGS,  \* rows a scoreboard holds
  Players,        \* player ids a room may have handed out
  MaxScore        \* bound: scores are 0..MaxScore

ASSUME RankingAssumption ==
  MAX_STANDINGS \in Nat \ {0} /\ Players \subseteq Nat /\ MaxScore \in Nat

VARIABLES
  seen,       \* the rows of the members walked so far
  standings,  \* m.standings[0 .. standing_count-1]
  best,       \* room_check_round_end: best score so far, and whose it is
  winner

rankVars == <<seen, standings, best, winner>>

Rows == [player_id : Players, score : 0..MaxScore]

standing_ranks_before(a, b) ==
  IF a.score # b.score THEN a.score > b.score ELSE a.player_id < b.player_id

(* The first position whose row does not rank before st. *)
InsertPos(s, st) ==
  CHOOSE pos \in 1..(Len(s) + 1) :
    /\ \A k \in 1..(pos - 1) : standing_ranks_before(s[k], st)
    /\ pos <= Len(s) => ~standing_ranks_before(s[pos], st)

(* As if a full board turned every later member away. *)
BoundedInsert_full(s, st) ==
  IF Len(s) >= MAX_STANDINGS THEN s ELSE InsertAt(s, InsertPos(s, st), st)

(* Shift the tail down one, dropping the last row of a full board. *)
BoundedInsert(s, st) ==
  LET pos == InsertPos(s, st)
      n == IF Len(s) < MAX_STANDINGS THEN Len(s) + 1 ELSE MAX_STANDINGS
  IN  IF pos > MAX_STANDINGS THEN s
      ELSE [k \in 1..n |-> IF k < pos THEN s[k] ELSE IF k = pos THEN st ELSE s[k - 1]]

(* The winner as `>` alone would leave it: the first one walked. *)
Leads_firstSeen(st) == st.score > best

Leads(st) == st.score > best \/ (st.score = best /\ st.player_id < winner)

RankInit == seen = {} /\ standings = <<>> /\ best = -1 /\ winner = -1

(* The walk reaches one more member; player ids are unique in a room. *)
Walk(st) ==
  /\ \A r \in seen : r.player_id # st.player_id
  /\ seen' = seen \cup {st}
  /\ standings' = BoundedInsert(standings, st)
  /\ best' = IF Leads(st) THEN st.score ELSE best
  /\ winner' = IF Leads(st) THEN st.player_id ELSE winner

RankNext == \E st \in Rows : Walk(st)

-----------------------------------------------------------------------------
(* How many of the rows seen rank strictly above r. *)
Above(r) == Cardinality({q \in seen : standing_ranks_before(q, r)})

(* Whatever order the members are walked in, the board is the genuine top  *)
(* MAX_STANDINGS of them, best first: row k is the one with k-1 above it   *)
(* (the comment on room_push_standings: "the genuine top eight rather than *)
(* whoever happened to join first").                                       *)
GenuineTop ==
  /\ Len(standings) = IF Cardinality(seen) < MAX_STANDINGS THEN Cardinality(seen)
                      ELSE MAX_STANDINGS
  /\ \A k \in DOMAIN standings : standings[k] \in seen /\ Above(standings[k]) = k - 1

(* The winner announced is the player the scoreboard shows on top, ties    *)
(* included: room_check_round_end's scan and the ranking cannot disagree.  *)
WinnerTopsStandings ==
  seen # {} => winner = standings[1].player_id /\ best = standings[1].score

=============================================================================
