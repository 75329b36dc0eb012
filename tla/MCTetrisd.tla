---- MODULE MCTetrisd ----
(* Small instances of Tetrisd: what the operator and the clients will do,  *)
(* and what may go wrong.                                                  *)
EXTENDS Tetrisd

Day(cmds, guests, wrong) == [cmds |-> [o \in Operators |-> cmds], guests |-> guests, faults |-> wrong]

MCPlans == {Day(<<"start", "stop", "start">>, 1, 1),
            Day(<<"start", "kick">>, 2, 1),
            Day(<<"start", "start">>, 2, 2),
            Day(<<"start", "edit", "reload", "edit", "reload">>, 1, 1)}
====
