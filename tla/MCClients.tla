----------------------------- MODULE MCClients ------------------------------
(* Small instances, for TLC, of the database's two kinds of client: the    *)
(* session processes (Accounts), two of them with three launchers, and the *)
(* log daemon (Logging), with two threads of a sender.  The two share      *)
(* nothing, and in a behaviour one of them has nothing to do.              *)
EXTENDS Accounts, Logging, TLC

CONSTANTS p1, p2, l1, l2, l3, ann, Ann, bob, bad, good, wrong, t1, t2

Row(page, id, name, data) == [page |-> page, id |-> id, name |-> name, data |-> data, by |-> None]

Table(stored, pages) == [rows |-> stored, pages |-> pages]

(* One account on a page that is full, one round on another. *)
Full == [user    |-> Table({Row(1, 1, ann, [salt |-> l1, digest |-> password_hash(good, l1)])}, 1),
         history |-> Table({Row(1, 1, ann, 2)}, 1)]

Empty == [user |-> Table({}, 1), history |-> Table({}, 1)]

FoldNames == (ann :> ann @@ Ann :> ann @@ bob :> bob @@ bad :> None)

Login(name, pass) == [m |-> "LOGIN", user |-> name, pass |-> pass]
Register(name, pass) == [m |-> "REGISTER", user |-> name, pass |-> pass]
Guest == [m |-> "GUEST"]
History == [m |-> "HISTORY"]
Round(n) == [m |-> "ROUND", call |-> n]
Play == [m |-> "PLAY"]
Bad == [m |-> "BAD"]
Other == [m |-> "NONE"]

Plan(todo1, todo2, names, cmds, base, f) ==
  [todo |-> (p1 :> todo1 @@ p2 :> todo2), names |-> (p1 :> names[1] @@ p2 :> names[2]),
   cmds |-> (l1 :> cmds[1] @@ l2 :> cmds[2] @@ l3 :> cmds[3]), db |-> base, faults |-> f]

Running == <<"first", "idle", "idle">>

NoRequests == Plan(<<>>, <<>>, <<None, None>>, <<"idle", "idle", "idle">>, Empty, 0)

(* Two registrations of one name, and of two; sign-ins right and wrong;    *)
(* rounds recorded while a history is read; launchers on their own; and a  *)
(* database stopped and started under a registration.                      *)
SomePlans ==
  {Plan(<<Register(bob, good)>>, <<Register(bob, wrong), Register(bob, wrong)>>,
        <<None, None>>, Running, base, 2) : base \in {Full, Empty}}
  \cup
  {NoRequests,
   Plan(<<Register(Ann, good), Register(ann, wrong), Register(ann, good), Guest>>,
        <<Other, Bad, Login(ann, wrong), Login(bob, good), Login(ann, good)>>,
        <<None, None>>, Running, Full, 1),
   Plan(<<Login(bad, good), Register(bob, None), Login(Ann, good), Play, History, Round(1), Guest>>,
        <<Guest, History, Round(3)>>,
        <<None, None>>, Running, Full, 1),
   Plan(<<History, History>>, <<Round(1), Round(3)>>, <<ann, ann>>, Running, Full, 1),
   Plan(<<Round(3)>>, <<Round(4)>>, <<ann, bob>>, Running, Full, 2),
   Plan(<<>>, <<>>, <<None, None>>, <<"start", "start", "stop">>, Empty, 2),
   Plan(<<>>, <<>>, <<None, None>>, <<"first", "stop", "stop">>, Empty, 2),
   Plan(<<Register(bob, good)>>, <<Round(1)>>, <<None, ann>>, <<"first", "stop", "start">>, Full, 1)}
-----------------------------------------------------------------------------
LogPlan(n1, n2, level, mirror, terms, hups, starts, f, summaries) ==
  [sends |-> (t1 :> n1 @@ t2 :> n2), levels |-> (t1 :> 1 @@ t2 :> 0), level |-> level,
   db |-> mirror, terms |-> terms, hups |-> hups, starts |-> starts, faults |-> f,
   summaries |-> summaries]

NoLog == LogPlan(0, 0, 0, FALSE, 0, 0, 0, 0, 0)

(* Senders that collide while daemons come and go, and while the level     *)
(* changes; a mirror whose child fails while records arrive, also over a   *)
(* restart.                                                                *)
SomeLogPlans ==
  {NoLog,
   LogPlan(2, 2, 0, FALSE, 1, 0, 2, 1, 0),
   LogPlan(2, 1, 1, FALSE, 1, 1, 1, 0, 1),
   LogPlan(2, 0, 0, TRUE, 1, 0, 1, 2, 1),
   LogPlan(1, 0, 0, TRUE, 1, 0, 2, 2, 0)}
-----------------------------------------------------------------------------
Idle == todo = NoRequests.todo /\ lnch = [l \in Launchers |-> [cmd |-> "idle", rc |-> 0, at |-> "begin"]]

ClientsInit == Init /\ LogInit /\ (plan = NoLog \/ Idle)

ClientsNext == (Next /\ UNCHANGED logVars) \/ (LogNext /\ UNCHANGED vars)

ClientsSpec ==
  ClientsInit /\ [][ClientsNext]_<<vars, logVars>> /\ Fairness /\ LogFairness
=============================================================================
