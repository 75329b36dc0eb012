---------------------------- MODULE MCGameServer ----------------------------
(* Small instances of GameServer for TLC. *)
EXTENDS GameServer, TLC

CONSTANTS s1, s2, s3

(* How many commands (connecting included) each client has.  The first may *)
(* connect, join and start two rounds; the second may come and go.         *)
TwoRounds == {s1 :> 4 @@ s2 :> 3}
OneRound == {s1 :> 3 @@ s2 :> 3}

(* One round, and either a third session that connects when two fill the   *)
(* table and one of the two may block for good, or a second player who may *)
(* also leave.                                                             *)
OneTooMany == {s1 :> 1 @@ s2 :> 2 @@ s3 :> 3, s1 :> 3 @@ s2 :> 3 @@ s3 :> 0}
=============================================================================
