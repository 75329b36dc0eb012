------------------------------ MODULE MCParts ------------------------------
(* Small instances, for TLC, of the parts that are checked on their own: a *)
(* behaviour plays a board, or ranks a room, or runs transactions that     *)
(* lock pages, or starts and stops tetrisd.                                *)
EXTENDS Tetrisbrain, Ranking, LockManager, MCTetrisd

VARIABLE what  \* "board", "ranking", "locks" or "control"

vars == <<what, brainVars, rankVars, lockVars, daemonVars>>

(* What rng_piece deals first for the seeds 35837, 25190 and 6. *)
MCGames ==
  {[seed |-> <<"O", "O", "T", "I", "O", "O">>, player |-> TRUE, garbage |-> <<1>>],
   [seed |-> <<"T", "I", "L", "O", "S">>, player |-> TRUE, garbage |-> <<2>>],
   [seed |-> <<"L", "T", "O", "S", "T", "J", "Z", "I", "L", "T", "O", "Z">>,
    player |-> FALSE, garbage |-> <<1, 2>>]}

Over == CHOOSE x \in Games : TRUE

NoBoard ==
  /\ game = Over /\ locked = EmptyBag /\ raised = 0
  /\ g = [tetrisbrain_init(Over.seed) EXCEPT !.game_over = TRUE]

(* What is not asked about is over before it begins. *)
NoLocks ==
  /\ holders = [p \in Pages |-> {}] /\ exclusive = [p \in Pages |-> FALSE]
  /\ waitingFor = [t \in Tids |-> NoPage] /\ want = [t \in Tids |-> FALSE]
  /\ phase = [t \in Tids |-> "done"] /\ calls = [t \in Tids |-> 0]
  /\ granted = [t \in Tids |-> [p \in Pages |-> "none"]]

NoDaemons ==
  /\ daemon = [p \in Daemons |-> NoDaemon] /\ sess = [s \in Sessions |-> NoSession]
  /\ sock = Unset /\ pidfile = Unset /\ rc = Unset
  /\ op = [o \in Operators |-> Idle]
  /\ plan = Day(<<>>, 0, 0) /\ faults = 0

Init ==
  /\ RankInit
  /\ \/ what = "board" /\ BoardInit /\ NoLocks /\ NoDaemons
     \/ what = "ranking" /\ NoBoard /\ NoLocks /\ NoDaemons
     \/ what = "locks" /\ NoBoard /\ LockInit /\ NoDaemons
     \/ what = "control" /\ NoBoard /\ NoLocks /\ DaemonInit

Next ==
  /\ UNCHANGED what
  /\ \/ what = "board" /\ BoardNext /\ UNCHANGED <<rankVars, lockVars, daemonVars>>
     \/ what = "ranking" /\ RankNext /\ UNCHANGED <<brainVars, lockVars, daemonVars>>
     \/ what = "locks" /\ LockNext /\ UNCHANGED <<brainVars, rankVars, daemonVars>>
     \/ what = "control" /\ DaemonNext /\ UNCHANGED <<brainVars, rankVars, lockVars>>

(* session_main ticks every 50 ms, whatever else it reads: weak fairness of *)
(* Tick, with its enabling condition written out.                          *)
TickFairness == []<>(~Playing) \/ []<><<Tick>>_vars

Spec == Init /\ [][Next]_vars /\ TickFairness /\ LockFairness /\ DaemonFairness
=============================================================================
