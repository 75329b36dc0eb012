----------------------------- MODULE MCBallotd -----------------------------
(* Small instances of Ballotd for TLC: one voter, whose next session may   *)
(* meet what is left of an earlier one, and some operators.                *)
EXTENDS Ballotd, TLC

MCAccounts == {"ann"}
MCAccount == [c \in Clients |-> "ann"]

Held(to) == run_update_state(run_insert_election(Empty, 1, MCAccounts), 1, to)
From(tables, asked, ballots) == [store |-> tables, plan |-> asked, submits |-> ballots]
MCStarts ==
  {From(Held("OPEN"), transition("CLOSE", 1), 2),
   From(Held("OPEN"), <<Ask("CREATE", 0)>> \o screen_check_ballot(1, NoHash), 1),
   From(Held("OPEN"), <<Ask("CREATE", 1)>> \o transition("PUBLISH", 1), 0),
   From(Empty, <<Ask("CREATE", 1)>>, 0),
   From(Empty, screen_create_election(0) \o transition("OPEN", 1), 1),
   From(Held("CLOSED"), transition("PUBLISH", 1) \o screen_view_results(1), 0)}
MCShortStarts == {From(Held("OPEN"), transition("CLOSE", 1), 1)}
Symmetric == Permutations(Nonces)
=============================================================================
