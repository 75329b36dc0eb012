----------------------------- MODULE GateProofs -----------------------------
(* The sign-in gate, the rows it writes and the histories it shows, for    *)
(* any number of session processes, launchers, requests and faults.        *)
EXTENDS AccountsProofs

-----------------------------------------------------------------------------

(* A request before login keeps GateInv. *)
LEMMA GateKeeps ==
  ASSUME GateInv, NEW p \in Procs, auth_session_parser(p)
  PROVE  GateInv'
<1>0. Gated(p) /\ Idle /\ Receives(p) /\ s[p].pc = "gate" /\ sem' = sem
  BY GateIs, ZenonT(60) DEF GateInv, auth_session_parser, Idle
<1>1. SessionOK(p) /\ Runner(p) /\ Token(p) /\ Probe(p) /\ RoundsOK /\ SessionsOK
  BY OfSession DEF GateInv
<1>2. DbThins({Txn(p)}) /\ DbThins({}) /\ db' = db
  BY <1>0, IdleThins DEF Idle, dbVars
<1>3. Moves(p, {"req", "pc", "i", "told", "name", "loaded", "user", "attempt"})
  BY <1>0 DEF Gated
<1>4. RoundsOK'
  BY <1>0, <1>1, <1>2, <1>3, RoundReceived, ZenonT(60) DEF Gated
<1>5. s'[p].k = s[p].k /\ s'[p].runner = s[p].runner /\ s'[p].view = s[p].view /\ s'[p].token = s[p].token
  BY <1>3 DEF Moves, Fields
<1>6. s'[p].req = Head(todo[p]) /\ (s'[p].req.m = "ROUND" => s'[p].req.call \in Nat)
  <2>1. todo[p] \in Seq(Requests) /\ todo[p] # <<>> BY <1>0, <1>1 DEF RoundsOK, Receives
  <2>2. Head(todo[p]) = todo[p][1] /\ 1 \in DOMAIN todo[p] BY <2>1, TailOf
  <2>3. Pending(p, 1) BY <1>1, <2>2, ZenonT(60) DEF RoundsOK
  <2> QED BY <1>0, <2>2, <2>3, ZenonT(60) DEF Gated, Pending
<1>7. SessionOK(p)'
  BY <1>0, <1>1, <1>3, <1>5, <1>6 DEF SessionOK, Gated, Pcs, Statements, Moves
<1>8. TurnsOK'
  <2>1. \A tab \in Tables : ~Holds(p, tab)'
    BY <1>0, ZenonT(60) DEF Gated, Holds, Serialised, Inserting
  <2> QED BY <1>0, <1>3, <2>1, TurnsKept, ZenonT(60) DEF GateInv
<1>9. Ahead(p)'
  BY <1>0 DEF Gated, Ahead
<1>10. DbKeeps({})
  BY <1>2, ThinsKeeps
<1>11. Token(p)'
  BY <1>0, <1>5, <1>10, TokenStays, ZenonT(60) DEF Gated, Idle
<1>12. Runner(p)'
  BY <1>0, <1>1, <1>5, ZenonT(60) DEF Runner, Idle, launchVars
<1>13. Probe(p)'
  BY <1>0, <1>1 DEF Probe, Gated, Idle, SessionOK
<1>14. View(p)'
  BY <1>0, <1>1, <1>5, ZenonT(60) DEF View, Gated, SessionOK
<1>15. /\ DOMAIN probes' = Procs /\ \A q \in Procs : probes'[q] = probes[q]
       /\ late' = late /\ UNCHANGED launchVars
  BY <1>0, OfSession, ZenonT(60) DEF Idle, dbVars
<1> QED
  BY <1>0, <1>2, <1>3, <1>4, <1>5, <1>7, <1>8, <1>9, <1>11, <1>12, <1>13, <1>14, <1>15, SessionKeeps, ZenonT(60)

(* A request after login keeps GateInv. *)
LEMMA LobbyKeeps ==
  ASSUME GateInv, NEW p \in Procs, SignedIn(p)
  PROVE  GateInv'
<1>0. Served(p) /\ Idle /\ Receives(p) /\ s[p].pc = "lobby" /\ sem' = sem
  BY LobbyIs, ZenonT(60) DEF GateInv, SignedIn, Idle
<1>1. SessionOK(p) /\ Runner(p) /\ Token(p) /\ Probe(p) /\ RoundsOK /\ SessionsOK
  BY OfSession DEF GateInv
<1>2. DbThins({Txn(p)}) /\ DbThins({}) /\ db' = db
  BY <1>0, IdleThins, ZenonT(60) DEF Idle, dbVars
<1>3. Moves(p, {"req", "attempt", "view", "playing", "told", "pc"})
  BY <1>0 DEF Served
<1>4. RoundsOK'
  BY <1>0, <1>1, <1>2, <1>3, RoundReceived DEF Served
<1>5. /\ s'[p].k = s[p].k /\ s'[p].runner = s[p].runner /\ s'[p].token = s[p].token
      /\ s'[p].i = s[p].i /\ s'[p].loaded = s[p].loaded
  BY <1>3 DEF Moves, Fields
<1>6. s'[p].req = Head(todo[p]) /\ (s'[p].req.m = "ROUND" => s'[p].req.call \in Nat)
  <2>1. todo[p] \in Seq(Requests) /\ todo[p] # <<>> BY <1>0, <1>1 DEF RoundsOK, Receives
  <2>2. Head(todo[p]) = todo[p][1] /\ 1 \in DOMAIN todo[p] BY <2>1, TailOf
  <2>3. Pending(p, 1) BY <1>1, <2>2 DEF RoundsOK
  <2> QED BY <1>0, <2>2, <2>3 DEF Served, Pending
<1>7. SessionOK(p)'
  BY <1>0, <1>1, <1>3, <1>5, <1>6, ZenonT(60) DEF SessionOK, Served, Pcs, Statements, Moves
<1>8. TurnsOK'
  <2>1. \A tab \in Tables : ~Holds(p, tab)'
    BY <1>0, ZenonT(60) DEF Served, Holds, Serialised, Inserting
  <2> QED BY <1>0, <1>3, <2>1, TurnsKept DEF GateInv
<1>9. Ahead(p)'
  BY <1>0 DEF Served, Ahead
<1>10. DbKeeps({})
  BY <1>2, ThinsKeeps
<1>11. Token(p)'
  BY <1>0, <1>5, <1>10, TokenStays, ZenonT(60) DEF Served, Idle
<1>12. Runner(p)'
  BY <1>0, <1>1, <1>5 DEF Runner, Idle, launchVars
<1>13. Probe(p)'
  BY <1>0, <1>1, <1>5 DEF Probe, Idle
<1>14. View(p)'
  BY <1>0 DEF View, Served
<1>15. /\ DOMAIN probes' = Procs /\ \A q \in Procs : probes'[q] = probes[q]
       /\ late' = late /\ UNCHANGED launchVars
  BY <1>0, OfSession DEF Idle, dbVars
<1> QED
  BY <1>0, <1>2, <1>3, <1>4, <1>5, <1>7, <1>8, <1>9, <1>11, <1>12, <1>13, <1>14, <1>15, SessionKeeps, ZenonT(60)

(* Taking a turn, or giving up on it. *)
LEMMA TurnKeeps ==
  ASSUME GateInv, NEW p \in Procs, reg_acquire(p) \/ sem_acquire(p)
  PROVE  GateInv'
<1>0. Idle /\ todo' = todo /\ s[p].pc = "turn" /\ (Turn(p) \/ NoTurn(p))
  BY DEF reg_acquire, sem_acquire, Idle
<1>1. SessionOK(p) /\ Runner(p) /\ Token(p) /\ Probe(p) /\ View(p) /\ SessionsOK /\ RoundsOK
  BY OfSession DEF GateInv
<1>2. DbThins({Txn(p)}) /\ DbThins({}) /\ db' = db
  BY <1>0, IdleThins DEF Idle, dbVars
<1>3. /\ DOMAIN probes' = Procs /\ \A q \in Procs : probes'[q] = probes[q]
      /\ late' = late /\ UNCHANGED launchVars
  BY <1>0, OfSession DEF Idle, dbVars
<1>4. DbKeeps({})
  BY <1>2, ThinsKeeps
<1>5. CASE Turn(p)
  <2>1. Moves(p, {"pc"}) /\ s'[p].pc = "open"
    BY <1>1, <1>5, TurnIs
  <2>2. /\ s'[p].k = s[p].k /\ s'[p].runner = s[p].runner /\ s'[p].token = s[p].token
        /\ s'[p].i = s[p].i /\ s'[p].loaded = s[p].loaded /\ s'[p].req = s[p].req
        /\ s'[p].view = s[p].view /\ s'[p].attempt = s[p].attempt
    BY <2>1 DEF Moves, Fields
  <2>3. SessionOK(p)'
    BY <1>0, <1>1, <2>1, <2>2, ZenonT(60) DEF SessionOK, Pcs, Moves
  <2>4. TurnsOK'
    BY <1>1, <1>5, TurnTaken DEF GateInv
  <2>5. \A q \in Procs :
           /\ s'[q].req = s[q].req
           /\ s[q].req.m = "ROUND" /\ s'[q].pc \in Unrecorded => s[q].pc \in Unrecorded
    BY <1>0, <2>1, <2>2 DEF Moves, Unrecorded
  <2>6. RoundsOK'
    BY <1>0, <1>1, <1>2, <2>5, RoundsThinned
  <2>7. Ahead(p)' BY <2>1 DEF Ahead
  <2>8. Token(p)'
    BY <1>3, <1>4, <2>1, <2>2, TokenStays
  <2>9. Runner(p)' BY <1>1, <1>3, <2>2, ZenonT(60) DEF Runner, launchVars
  <2>10. Probe(p)' BY <1>0, <1>1, <1>3, <2>1, <2>2 DEF Probe
  <2>11. View(p)' BY <2>1 DEF View
  <2> QED
    BY <1>0, <1>2, <1>3, <2>1, <2>2, <2>3, <2>4, <2>6, <2>7, <2>8, <2>9, <2>10, <2>11, SessionKeeps, ZenonT(60)
<1>6. CASE NoTurn(p)
  <2>1. /\ Moves(p, {"pc", "i", "told"}) /\ UNCHANGED sem
        /\ s'[p].i \in {s[p].i, s[p].i + 1} /\ s'[p].pc \in {"gate", "dropped", "lobby"}
        /\ s'[p].pc = "lobby" => s'[p].i = s[p].i
        /\ s'[p].pc = "gate" /\ s[p].loaded => s'[p].i < MaxAttempts
    BY <1>0, <1>1, <1>6, NoTurnIs, ZenonT(60)
  <2>2. /\ s'[p].k = s[p].k /\ s'[p].runner = s[p].runner /\ s'[p].token = s[p].token
        /\ s'[p].loaded = s[p].loaded /\ s'[p].req = s[p].req
        /\ s'[p].view = s[p].view /\ s'[p].attempt = s[p].attempt
    BY <2>1, ZenonT(60) DEF Moves, Fields
  <2>3. SessionOK(p)'
    BY <1>0, <1>1, <2>1, <2>2 DEF SessionOK, Pcs, Moves
  <2>4. TurnsOK'
    <3>1. \A tab \in Tables : ~Holds(p, tab)' BY <2>1, ZenonT(60) DEF Holds, Inserting
    <3> QED BY <2>1, <3>1, TurnsKept, ZenonT(60) DEF GateInv
  <2>5. \A q \in Procs :
           /\ s'[q].req = s[q].req
           /\ s[q].req.m = "ROUND" /\ s'[q].pc \in Unrecorded => s[q].pc \in Unrecorded
    BY <2>1, <2>2, ZenonT(60) DEF Moves, Unrecorded
  <2>6. RoundsOK'
    BY <1>0, <1>1, <1>2, <2>5, RoundsThinned
  <2>7. Ahead(p)' BY <2>1, ZenonT(60) DEF Ahead
  <2>8. Token(p)'
    BY <1>3, <1>4, <2>1, <2>2, TokenStays
  <2>9. Runner(p)' BY <1>1, <1>3, <2>2, ZenonT(60) DEF Runner, launchVars
  <2>10. Probe(p)' BY <1>0, <1>1, <1>3, <2>1, <2>2 DEF Probe, SessionOK
  <2>11. View(p)' BY <1>0, <1>1, <2>1, <2>2, ZenonT(60) DEF View, SessionOK
  <2> QED
    BY <1>0, <1>2, <1>3, <2>1, <2>2, <2>3, <2>4, <2>6, <2>7, <2>8, <2>9, <2>10, <2>11, SessionKeeps, ZenonT(60)
<1> QED BY <1>0, <1>5, <1>6

(* A request that ends without success. *)
LEMMA EndingKeeps ==
  ASSUME GateInv, NEW p \in Procs, s[p].pc \in Statements \cup {"open"},
         NEW st \in {401, 404, 409, 500}, Ending(p, st),
         st \in {401, 404} => s[p].pc = "lookup", st = 409 => s[p].pc = "exists",
         UNCHANGED launchVars, todo' = todo, DbThins({Txn(p)}),
         \A e \in late' : e \in late \/ e.own = Txn(p)
  PROVE  GateInv'
<1>1. SessionOK(p) /\ Token(p) /\ Probe(p) /\ View(p) /\ SessionsOK /\ RoundsOK /\ DOMAIN probes = Procs
  BY OfSession DEF GateInv
<1>2. Moves(p, {"pc", "i", "told", "view", "runner", "next", "attempt", "k"})
  BY ZenonT(60) DEF Ending
<1>3. /\ s'[p].token = s[p].token /\ s'[p].loaded = s[p].loaded /\ s'[p].req = s[p].req
  BY <1>2 DEF Moves, Fields
<1>4. /\ s'[p].pc \in {"gate", "dropped", "lobby"} /\ s'[p].k = s[p].k + 1 /\ s'[p].runner = None
      /\ s'[p].i \in {s[p].i, s[p].i + 1}
  BY DEF Ending
<1>5. DbKeeps({Txn(p)})
  BY <1>1, TxnIs, ThinsKeeps
<1>6. SessionOK(p)'
  <2>1. s'[p].attempt \in Nat
    BY <1>1 DEF Ending
  <2>2. s'[p].pc # "lobby" => s'[p].view = None
    BY <1>1 DEF Ending, SessionOK, Statements
  <2> QED BY <1>1, <1>2, <1>3, <1>4, <2>1, <2>2 DEF SessionOK, Pcs, Moves
<1>7. TurnsOK'
  <2>1. \A tab \in Tables : ~Holds(p, tab)' BY <1>4, ZenonT(60) DEF Holds, Inserting
  <2>2. Serialised(s[p].req) => Holds(p, TableOf(s[p].req))
    BY <1>1, ZenonT(60) DEF Serialised, Holds, SessionOK, Statements, Inserting
  <2>3. sem' = IF Serialised(s[p].req) THEN [sem EXCEPT ![TableOf(s[p].req)] = @ + 1] ELSE sem
    BY ZenonT(60) DEF Ending
  <2> QED BY <1>2, <2>1, <2>2, <2>3, TurnGiven DEF GateInv
<1>8. RoundsOK'
  <2>1. \A q \in Procs :
           /\ s'[q].req = s[q].req
           /\ s[q].req.m = "ROUND" /\ s'[q].pc \in Unrecorded => s[q].pc \in Unrecorded
    BY <1>2, <1>3, <1>4 DEF Moves, Unrecorded
  <2> QED BY <1>1, <2>1, RoundsThinned
<1>9. Ahead(p)' BY <1>4 DEF Ahead
<1>10. Token(p)'
  BY <1>3, <1>4, <1>5, TokenStays
<1>11. Runner(p)' BY <1>4 DEF Runner
<1>12. Probe(p)'
  <2>1. probes'[p] = IF st \in {401, 404, 409} THEN probes[p] + 1 ELSE probes[p]
    BY <1>1 DEF Ending, Probed
  <2>2. CASE st \notin {401, 404, 409}
    <3>1. probes'[p] = probes[p] BY <2>1, <2>2, ZenonT(60)
    <3>2. s'[p].pc # "dropped" /\ s[p].loaded =>
            s'[p].i = s[p].i \/ s'[p].i < MaxAttempts
      BY <1>4, ZenonT(60) DEF Ending
    <3>3. s[p].pc # "dropped" BY ZenonT(60) DEF Statements
    <3>4. s[p].i \in Nat BY <1>1, ZenonT(60) DEF SessionOK
    <3> QED BY <1>1, <1>3, <1>4, <3>1, <3>2, <3>3, <3>4 DEF Probe
  <2>3. CASE st \in {401, 404, 409}
    <3>1. probes'[p] = probes[p] + 1 BY <2>1, <2>3
    <3>2. s[p].pc \in {"lookup", "exists"} BY <2>3
    <3>3. s[p].loaded /\ s[p].req.m \in {"LOGIN", "REGISTER"} /\ s[p].i \in Nat BY <1>1, <3>2, ZenonT(60) DEF SessionOK
    <3>4. /\ s'[p].i = s[p].i + 1 /\ s'[p].pc \in {"gate", "dropped"}
          /\ s'[p].pc = "gate" => s'[p].i < MaxAttempts
      BY <2>3, <3>3 DEF Ending, Counts
    <3>5. probes[p] \in Nat /\ MaxAttempts \in Nat \ {0} BY <1>1, ConfAssumption DEF Probe
    <3>6. probes[p] = 0 \/ (probes[p] <= s[p].i /\ s[p].i < MaxAttempts) BY <1>1, <3>2, ZenonT(60) DEF Probe
    <3>7. probes'[p] \in 0..MaxAttempts BY <3>1, <3>3, <3>5, <3>6
    <3>8. s'[p].pc # "dropped" => probes'[p] <= s'[p].i /\ s'[p].i < MaxAttempts /\ s'[p].loaded
      BY <1>3, <3>1, <3>3, <3>4, <3>5, <3>6
    <3> QED BY <3>7, <3>8 DEF Probe
  <2> QED BY <2>2, <2>3, ZenonT(60)
<1>13. View(p)'
  <2>1. s[p].req.m # "HISTORY" => s'[p].view = None
    BY <1>1 DEF Ending, SessionOK, Statements
  <2>2. s[p].req.m = "HISTORY" => s'[p].view.status # "OK"
    BY DEF Ending
  <2> QED BY <1>4, <2>1, <2>2, ZenonT(60) DEF View
<1>14. \A e \in late' : e \in late \/ Owner(e.own, {"killed"})'
  <2>0. PICK k : k = s[p].k OBVIOUS
  <2>1. Owner(<<p, k>>, {"killed"})'
    <3>1. k \in Nat /\ k <= s'[p].k /\ k # s'[p].k BY <1>1, <1>4, <2>0 DEF SessionOK
    <3> QED BY <3>1 DEF Owner
  <2>2. <<p, k>> = Txn(p) BY <2>0 DEF Txn
  <2> HIDE DEF Owner
  <2>3. ASSUME NEW e \in late', e.own = Txn(p) PROVE Owner(e.own, {"killed"})'
    <3>1. e.own = <<p, k>> BY <2>2, <2>3, ZenonT(60)
    <3> QED BY <2>1, <3>1 DEF Owner
  <2> QED BY <2>3
<1>15. DOMAIN probes' = Procs /\ \A q \in Procs \ {p} : probes'[q] = probes[q]
  BY <1>1 DEF Ending, Probed
<1> HIDE DEF Owner
<1> QED
  BY <1>2, <1>4, <1>6, <1>7, <1>8, <1>9, <1>10, <1>11, <1>12, <1>13, <1>14, <1>15, SessionKeeps

(* A transaction that is run again. *)
LEMMA RetryKeeps ==
  ASSUME GateInv, NEW p \in Procs, s[p].pc \in Statements \ {"commit"},
         s[p].attempt + 1 < AttemptsOf(s[p].req),
         s' = [s EXCEPT ![p].attempt = @ + 1, ![p].k = @ + 1, ![p].next = 0,
                        ![p].pc = IF s[p].req.m = "LOGIN" THEN "lookup" ELSE "max"],
         UNCHANGED <<launchVars, sem, probes, late, todo>>, DbThins({Txn(p)})
  PROVE  GateInv'
<1> DEFINE pc == IF s[p].req.m = "LOGIN" THEN "lookup" ELSE "max"
<1>1. SessionOK(p) /\ Runner(p) /\ Token(p) /\ Probe(p) /\ SessionsOK /\ RoundsOK /\ DOMAIN probes = Procs
  BY OfSession DEF GateInv
<1>2. /\ Moves(p, {"attempt", "k", "next", "pc"})
      /\ s'[p].attempt = s[p].attempt + 1 /\ s'[p].k = s[p].k + 1 /\ s'[p].pc = pc
  <2> HIDE DEF pc
  <2>1. s' = [s EXCEPT ![p].attempt = @ + 1, ![p].k = @ + 1, ![p].next = 0, ![p].pc = pc]
    BY DEF pc
  <2> QED BY <1>1, <2>1, RetryIs, ZenonT(60)
<1>3. /\ s'[p].token = s[p].token /\ s'[p].loaded = s[p].loaded /\ s'[p].req = s[p].req
      /\ s'[p].runner = s[p].runner /\ s'[p].i = s[p].i /\ s'[p].view = s[p].view
  BY <1>2 DEF Moves, Fields
<1>4. s[p].attempt \in Nat /\ s[p].req.m \in {"LOGIN", "REGISTER", "ROUND"}
  <2>1. s[p].attempt \in Nat /\ s[p].req.m \in {"LOGIN", "REGISTER", "ROUND", "HISTORY"}
    BY <1>1 DEF SessionOK, Statements
  <2>2. s[p].req.m # "HISTORY" BY <2>1 DEF AttemptsOf
  <2> QED BY <2>1, <2>2, ZenonT(60)
<1>5. s[p].view = None /\ (s[p].req.m # "ROUND" => s[p].loaded)
  BY <1>1, <1>4, ZenonT(60) DEF SessionOK, Statements
<1>6. SessionOK(p)'
  BY <1>1, <1>2, <1>3, <1>4, <1>5 DEF SessionOK, Pcs, Statements, Moves
<1>7. TurnsOK'
  <2>1. \A tab \in Tables : Holds(p, tab)' => Holds(p, tab)
    BY <1>1, <1>2, <1>3 DEF Holds, Inserting, SessionOK, Serialised, Statements, TableOf
  <2> QED BY <1>2, <2>1, TurnsKept, ZenonT(60) DEF GateInv
<1>8. RoundsOK'
  <2>1. s[p].req.m = "ROUND" => s[p].pc \in Unrecorded
    BY <1>1 DEF SessionOK, Statements, Unrecorded
  <2>2. \A q \in Procs \ {p} : s'[q] = s[q]
    BY <1>2 DEF Moves
  <2> QED BY <1>1, <1>3, <2>1, <2>2, RoundsThinned, ZenonT(60)
<1>p. s'[p].pc \in {"lookup", "max"} BY <1>2
<1>9. Ahead(p)' BY <1>p DEF Ahead
<1>10. DbKeeps({Txn(p)})
  BY <1>1, TxnIs, ThinsKeeps
<1>11. Token(p)' BY <1>p, <1>3, <1>10, TokenStays, ZenonT(60)
<1>12. Runner(p)' BY <1>1, <1>3, ZenonT(60) DEF Runner, launchVars
<1>13. Probe(p)' BY <1>1, <1>3 DEF Probe, Statements
<1>14. View(p)' BY <1>p, ZenonT(60) DEF View
<1> HIDE DEF pc
<1> QED
  BY <1>1, <1>2, <1>6, <1>7, <1>8, <1>9, <1>11, <1>12, <1>13, <1>14, SessionKeeps, ZenonT(60)

(* A statement that brings no result: only a transaction that the server   *)
(* gave up is run again.                                                   *)
LEMMA NotOkKeeps ==
  ASSUME GateInv, NEW p \in Procs, s[p].pc \in Statements, NEW st, NotOk(p, st),
         Retriable(st) => s[p].pc # "commit" /\ late' = late,
         UNCHANGED <<launchVars, todo>>, DbThins({Txn(p)}),
         \A e \in late' : e \in late \/ e.own = Txn(p)
  PROVE  GateInv'
<1>1. CASE Retriable(st) /\ s[p].attempt + 1 < AttemptsOf(s[p].req)
  BY <1>1, RetryKeeps, ZenonT(60) DEF NotOk
<1>2. CASE ~(Retriable(st) /\ s[p].attempt + 1 < AttemptsOf(s[p].req))
  <2>1. Ends(p, 500) BY <1>2 DEF NotOk
  <2>2. Ending(p, 500) BY <2>1, EndsIs DEF GateInv
  <2> QED BY <2>2, EndingKeeps
<1> QED BY <1>1, <1>2, ZenonT(60)

(* db_socket_exec keeps GateInv. *)
LEMMA ExecKeeps ==
  ASSUME GateInv, NEW p \in Procs, db_socket_exec(p)
  PROVE  GateInv'
<1>0. (RowsOK /\ DbThins({Txn(p)})) \/ db' # db
  <2>1. db' = db => DbThins({})
    BY Unthinned DEF GateInv
  <2> QED BY <2>1, ThinsMore DEF GateInv
<1>1. CASE classify(p)
  <2>1. PICK st \in {"RETRY", "ERROR"} : NotOk(p, st) /\ (st = "RETRY" => Blocked(p))
    BY <1>1 DEF classify
  <2>2. DbThins({Txn(p)})
    BY <1>1, AbortThins DEF classify, GateInv
  <2>3. Retriable(st) => s[p].pc # "commit"
    BY <2>1 DEF Retriable, Blocked
  <2> QED BY <1>1, <2>1, <2>2, <2>3, NotOkKeeps DEF classify
<1>2. CASE db_wire_late(p)
  <2>1. DbThins({Txn(p)})
    BY <1>0, <1>2 DEF db_wire_late
  <2>2. ~Retriable("TIMEOUT") BY DEF Retriable
  <2>3. \A e \in late' : e \in late \/ e.own = Txn(p)
    BY <1>2 DEF db_wire_late
  <2> QED BY <1>2, <2>1, <2>2, <2>3, NotOkKeeps, ZenonT(60) DEF db_wire_late
<1>3. CASE db_wire_eof(p)
  <2>1. DbThins({Txn(p)})
    BY <1>0, <1>3 DEF db_wire_eof, dbVars
  <2>2. ~Retriable("IO") BY DEF Retriable
  <2> QED BY <1>3, <2>1, <2>2, NotOkKeeps DEF db_wire_eof, dbVars
<1> QED BY <1>1, <1>2, <1>3 DEF db_socket_exec

(* Connecting. *)
LEMMA OpenKeeps ==
  ASSUME GateInv, NEW p \in Procs, db_socket_open(p)
  PROVE  GateInv'
<1>0. UNCHANGED <<launchVars, todo, dbVars>> /\ s[p].pc = "open"
  BY DEF db_socket_open
<1>1. SessionOK(p) /\ Token(p) /\ Probe(p) /\ SessionsOK /\ RoundsOK /\ DOMAIN probes = Procs
  BY OfSession DEF GateInv
<1>2. DbThins({}) /\ DbThins({Txn(p)}) /\ db' = db /\ late' = late
  <2>1. DbThins({}) BY <1>0, Unthinned DEF GateInv, dbVars
  <2> QED BY <1>0, <2>1, ThinsMore DEF dbVars
<1>3. CASE Listening = {} /\ Ends(p, 500)
  <2>1. Ending(p, 500) BY <1>1, <1>3, EndsIs
  <2> QED BY <1>0, <1>2, <2>1, EndingKeeps
<1>4. CASE /\ Listening # {}
           /\ s' = [s EXCEPT ![p].runner = CHOOSE l \in Listening : TRUE,
                             ![p].pc = CASE s[p].req.m = "LOGIN" -> "lookup"
                                         [] s[p].req.m = "HISTORY" -> "recent"
                                         [] OTHER -> "max"]
           /\ UNCHANGED <<sem, probes>>
  <2>1. PICK l \in Listening : l = CHOOSE k \in Listening : TRUE
    BY <1>4
  <2>2. PICK pc : /\ pc = CASE s[p].req.m = "LOGIN" -> "lookup"
                            [] s[p].req.m = "HISTORY" -> "recent"
                            [] OTHER -> "max"
    OBVIOUS
  <2>3. s' = [s EXCEPT ![p].runner = l, ![p].pc = pc]
    BY <1>4, <2>1, <2>2
  <2>4. Moves(p, {"runner", "pc"}) /\ s'[p].runner = l /\ s'[p].pc = pc
    BY <1>1, <2>3, OpenIs, ZenonT(60)
  <2>5. s[p].req.m \in {"LOGIN", "REGISTER", "HISTORY", "ROUND"}
    BY <1>0, <1>1 DEF SessionOK
  <2>6. /\ s[p].req.m = "LOGIN" => pc = "lookup"
        /\ s[p].req.m = "HISTORY" => pc = "recent"
        /\ s[p].req.m \in {"REGISTER", "ROUND"} => pc = "max"
    BY <2>2, ZenonT(60)
  <2>7. /\ s'[p].token = s[p].token /\ s'[p].loaded = s[p].loaded /\ s'[p].req = s[p].req
        /\ s'[p].k = s[p].k /\ s'[p].i = s[p].i /\ s'[p].view = s[p].view /\ s'[p].attempt = s[p].attempt
    BY <2>4 DEF Moves, Fields
  <2>p. s'[p].pc \in {"lookup", "recent", "max"} BY <2>4, <2>5, <2>6
  <2>8. SessionOK(p)'
    BY <1>0, <1>1, <2>4, <2>5, <2>6, <2>7, ZenonT(60) DEF SessionOK, Pcs, Statements, Moves
  <2>9. TurnsOK'
    <3>1. \A tab \in Tables : Holds(p, tab)' => Holds(p, tab)
      BY <1>0, <2>7 DEF Holds, Serialised, TableOf
    <3> QED BY <1>4, <2>4, <3>1, TurnsKept, ZenonT(60) DEF GateInv
  <2>10. RoundsOK'
    <3>1. \A q \in Procs : /\ s'[q].req = s[q].req
                           /\ s[q].req.m = "ROUND" /\ s'[q].pc \in Unrecorded => s[q].pc \in Unrecorded
      BY <1>0, <2>4, <2>7, ZenonT(60) DEF Moves, Unrecorded
    <3> QED BY <1>0, <1>1, <1>2, <3>1, RoundsThinned, ZenonT(60)
  <2>11. Ahead(p)' BY <2>p DEF Ahead
  <2>12. Token(p)'
    <3>1. DbKeeps({}) BY <1>2, ThinsKeeps
    <3> QED BY <1>0, <2>p, <2>7, <3>1, TokenStays, ZenonT(60)
  <2>13. Runner(p)' BY <1>0, <2>4, ZenonT(60) DEF Runner, Listening, launchVars
  <2>14. Probe(p)' BY <1>0, <1>1, <1>4, <2>7, ZenonT(60) DEF Probe
  <2>15. View(p)' BY <2>p DEF View
  <2> QED
    BY <1>0, <1>1, <1>2, <1>4, <2>4, <2>7, <2>8, <2>9, <2>10, <2>11, <2>12, <2>13, <2>14, <2>15, SessionKeeps, ZenonT(60)
<1> QED BY <1>3, <1>4 DEF db_socket_open

(* A statement that is answered, the transaction still open. *)
LEMMA SameKeeps ==
  ASSUME GateInv, NEW p \in Procs, s[p].pc \in Statements \ {"commit"}, s'[p].pc \in Statements \ {"commit"},
         Moves(p, {"pc", "next", "view"}), UNCHANGED <<launchVars, todo, sem, probes, db, late>>,
         SessionOK(p)', Ahead(p)', View(p)'
  PROVE  GateInv'
<1>1. SessionOK(p) /\ Runner(p) /\ Token(p) /\ Probe(p) /\ SessionsOK /\ RoundsOK /\ DOMAIN probes = Procs
  BY OfSession, ZenonT(60) DEF GateInv
<1>2. /\ s'[p].token = s[p].token /\ s'[p].loaded = s[p].loaded /\ s'[p].req = s[p].req
      /\ s'[p].runner = s[p].runner /\ s'[p].i = s[p].i /\ s'[p].k = s[p].k
  BY ZenonT(60) DEF Moves, Fields
<1>3. DbThins({}) /\ DbThins({Txn(p)})
  <2>1. DbThins({}) BY Unthinned DEF GateInv
  <2> QED BY <2>1, ThinsMore
<1>4. TurnsOK'
  <2>1. \A tab \in Tables : Holds(p, tab)' => Holds(p, tab)
    BY <1>1, <1>2, ZenonT(60) DEF Holds, Inserting, SessionOK, Serialised, Statements, TableOf
  <2> QED BY <2>1, TurnsKept, ZenonT(60) DEF GateInv
<1>5. RoundsOK'
  <2>1. s[p].req.m = "ROUND" => s[p].pc \in Unrecorded
    BY <1>1, ZenonT(60) DEF SessionOK, Statements, Unrecorded
  <2>2. \A q \in Procs \ {p} : s'[q] = s[q]
    BY ZenonT(60) DEF Moves
  <2> QED BY <1>1, <1>2, <1>3, <2>1, <2>2, RoundsThinned, ZenonT(60)
<1>6. Token(p)'
  <2>1. DbKeeps({}) BY <1>3, ThinsKeeps, ZenonT(60)
  <2>2. s'[p].pc \notin {"mint", "commit"} BY ZenonT(60) DEF Statements
  <2> QED BY <1>2, <2>1, <2>2, TokenStays, ZenonT(60)
<1>7. Runner(p)' BY <1>1, <1>2 DEF Runner, launchVars
<1>8. Probe(p)' BY <1>1, <1>2, ZenonT(60) DEF Probe, Statements
<1>9. s[p].pc \notin {"commit", "killed"} BY DEF Statements
<1> HIDE DEF Owner
<1> QED BY <1>1, <1>2, <1>3, <1>4, <1>5, <1>6, <1>7, <1>8, <1>9, SessionKeeps, ZenonT(60)

(* A history that is shown. *)
AddsUp(v) == v # None /\ v.status = "OK" => Cardinality(v.recent) <= v.games /\ \A r \in v.recent : r <= v.best

(* A request that succeeds. *)
LEMMA DoneKeeps ==
  ASSUME GateInv, NEW p \in Procs, s[p].pc \in Statements, NEW x, Sets(s[p], x, {"pc", "id", "view"}),
         x.pc \in {"mint", "lobby"},
         x.pc = "mint" => s[p].req.m \in {"LOGIN", "REGISTER"} /\ x.view = None
                          /\ \E r \in Committed("user")' : r.id = x.id /\ r.name = x.user,
         x.pc = "lobby" => AddsUp(x.view),
         Done(p, x, 0), UNCHANGED launchVars, todo' = todo, late' = late, DbThins({Txn(p)})
  PROVE  GateInv'
<1>0. DOMAIN x = Fields /\ \A f \in Fields \ {"pc", "id", "view"} : x[f] = s[p][f]
  BY ZenonT(60) DEF Sets
<1>1. SessionOK(p) /\ Token(p) /\ Probe(p) /\ SessionsOK /\ RoundsOK /\ DOMAIN probes = Procs /\ DOMAIN s = Procs
  BY OfSession, ZenonT(60) DEF GateInv, SessionsOK
<1>2. Closed(p, x) /\ probes' = Probed(p, 0)
  BY <1>0, <1>1, DoneIs, ZenonT(60)
<1>3. Moves(p, {"pc", "id", "view", "runner", "next", "attempt", "k"})
  BY <1>0, <1>2, ZenonT(60) DEF Closed, Moves
<1>4. /\ x.token = s[p].token /\ x.loaded = s[p].loaded /\ x.req = s[p].req
      /\ x.i = s[p].i /\ x.k = s[p].k
  BY <1>0, ZenonT(60) DEF Fields
<1>5. /\ s'[p].token = x.token /\ s'[p].loaded = x.loaded /\ s'[p].req = x.req /\ s'[p].i = x.i
      /\ s'[p].pc = x.pc /\ s'[p].view = x.view /\ s'[p].id = x.id /\ s'[p].user = x.user
      /\ s'[p].k = x.k + 1 /\ s'[p].runner = None /\ s'[p].attempt = 0
  BY <1>2, ZenonT(60) DEF Closed, Fields
<1>6. DbKeeps({Txn(p)})
  BY <1>1, TxnIs, ThinsKeeps, ZenonT(60)
<1>7. SessionOK(p)'
  <2>1. s'[p].pc = "mint" => s'[p].req.m \in {"LOGIN", "REGISTER"} /\ s'[p].view = None
    BY <1>4, <1>5, ZenonT(60)
  <2>2. s'[p].pc \in {"mint", "lobby"} /\ s'[p].req = s[p].req /\ s'[p].i = s[p].i /\ s'[p].k = s[p].k + 1
    BY <1>4, <1>5, ZenonT(60)
  <2>3. DOMAIN s'[p] = Fields /\ s'[p].attempt = 0 BY <1>3, <1>5, ZenonT(60) DEF Moves
  <2>4. s'[p].k \in Nat /\ s'[p].i \in Nat /\ s'[p].attempt \in Nat
    <3>1. s[p].k \in Nat /\ s[p].i \in Nat BY <1>1, ZenonT(60) DEF SessionOK
    <3> QED BY <2>2, <2>3, <3>1, SMTT(60)
  <2>5. "mint" \in Pcs /\ "lobby" \in Pcs BY ZenonT(60) DEF Pcs
  <2>6. s[p].req.m = "ROUND" => s[p].req.call \in Nat BY <1>1, ZenonT(60) DEF SessionOK
  <2> QED BY <2>1, <2>2, <2>3, <2>4, <2>5, <2>6, ZenonT(60) DEF SessionOK
<1>8. TurnsOK'
  <2>1. \A tab \in Tables : ~Holds(p, tab)' BY <1>5, ZenonT(60) DEF Holds, Inserting
  <2>2. Serialised(s[p].req) => Holds(p, TableOf(s[p].req))
    BY <1>1, ZenonT(60) DEF Serialised, Holds, SessionOK, Statements, Inserting
  <2>3. sem' = IF Serialised(s[p].req) THEN [sem EXCEPT ![TableOf(s[p].req)] = @ + 1] ELSE sem
    BY <1>2, ZenonT(60) DEF Closed
  <2> QED BY <1>3, <2>1, <2>2, <2>3, TurnGiven, ZenonT(60) DEF GateInv
<1>9. RoundsOK'
  <2>1. \A q \in Procs :
           /\ s'[q].req = s[q].req
           /\ s[q].req.m = "ROUND" /\ s'[q].pc \in Unrecorded => s[q].pc \in Unrecorded
    BY <1>3, <1>4, <1>5, ZenonT(60) DEF Moves, Unrecorded
  <2> QED BY <1>1, <2>1, RoundsThinned, ZenonT(60)
<1>10. Ahead(p)' BY <1>5, ZenonT(60) DEF Ahead
<1>11. Token(p)'
  <2>1. \A id, name : Account(id, name) => Account(id, name)'
    BY <1>6, AccountStays, ZenonT(60)
  <2>2. secret' = secret
    BY DEF launchVars
  <2>3. s[p].token # None =>
          Account(s[p].token.sub, s[p].token.name)' /\ s[p].token.key = secret' /\ secret' \in Launchers
    <3> SUFFICES ASSUME s[p].token # None
                 PROVE  Account(s[p].token.sub, s[p].token.name)' /\ s[p].token.key = secret' /\ secret' \in Launchers
      BY ZenonT(60)
    <3>1. Account(s[p].token.sub, s[p].token.name) /\ s[p].token.key = secret /\ secret \in Launchers
      BY <1>1, ZenonT(60) DEF Token
    <3>2. s'[p].token = s[p].token BY <1>4, <1>5, ZenonT(60)
    <3> QED BY <2>1, <2>2, <3>1, <3>2, ZenonT(60)
  <2>4. s'[p].pc # "commit" /\ s'[p].token = s[p].token BY <1>4, <1>5, ZenonT(60)
  <2>5. x.pc = "mint" => Account(x.id, x.user)' BY ZenonT(60) DEF Account
  <2> HIDE DEF Account
  <2> QED BY <1>5, <2>3, <2>4, <2>5, ZenonT(60) DEF Token, Account
<1>12. Runner(p)' BY <1>5, ZenonT(60) DEF Runner
<1>13. Probe(p)'
  <2>1. probes'[p] = probes[p] BY <1>1, <1>2 DEF Probed
  <2>2. s[p].pc # "dropped" BY DEF Statements
  <2> QED BY <1>1, <1>4, <1>5, <2>1, <2>2, ZenonT(60) DEF Probe
<1>14. View(p)' BY <1>5, ZenonT(60) DEF View, AddsUp
<1>15. DOMAIN probes' = Procs /\ \A q \in Procs \ {p} : probes'[q] = probes[q]
  BY <1>1, <1>2, ZenonT(60) DEF Probed
<1> HIDE DEF Owner
<1>16. s'[p].k = s[p].k + 1 BY <1>4, <1>5, ZenonT(60)
<1> QED
  BY <1>3, <1>7, <1>8, <1>9, <1>10, <1>11, <1>12, <1>13, <1>14, <1>15, <1>16, SessionKeeps, ZenonT(60)

(* Nobody else's uncommitted rows: then all rows are seen. *)
LEMMA SeesAll ==
  ASSUME NEW o, NEW tab, ~ReadBlocked(o, tab)
  PROVE  Visible(o, tab) = RowsOf(tab)
BY DEF ReadBlocked, Visible

(* A transaction has no rows before its commit. *)
LEMMA OwnsNone ==
  ASSUME GateInv, NEW p \in Procs, s[p].pc \notin {"commit", "killed"}, NEW tab \in Tables
  PROVE  \A r \in RowsOf(tab) : r.by # Txn(p)
<1> SUFFICES ASSUME NEW r \in RowsOf(tab), r.by = Txn(p) PROVE FALSE
  OBVIOUS
<1>1. Txn(p) # None BY TxnIs DEF GateInv
<1>2. Owner(r.by, {"commit", "killed"}) BY <1>1 DEF GateInv, OwnersOK
<1>3. PICK q \in Procs, k \in Nat : r.by = <<q, k>> /\ (k = s[q].k => s[q].pc \in {"commit", "killed"})
  BY <1>2 DEF Owner
<1> QED BY <1>3 DEF Txn

(* A statement that is answered is not blocked, and a first read sees the  *)
(* committed rows, all there are.                                          *)
LEMMA ReadsAll ==
  ASSUME GateInv, NEW p \in Procs, NEW pc \in Statements \ {"insert", "commit"}, Answers(p, pc)
  PROVE  LET tab == TableOf(s[p].req)
         IN tab \in Tables /\ Visible(Txn(p), tab) = RowsOf(tab) /\ RowsOf(tab) = Committed(tab)
<1> DEFINE tab == TableOf(s[p].req)
<1>1. tab \in Tables BY DEF TableOf, Tables
<1>2. ~ReadBlocked(Txn(p), tab) BY DEF Answers, Blocked
<1>3. s[p].pc \notin {"commit", "killed"} BY DEF Answers, Statements
<1>4. \A r \in RowsOf(tab) : r.by # Txn(p) BY <1>1, <1>3, OwnsNone
<1>5. \A r \in RowsOf(tab) : r.by = None BY <1>2, <1>4 DEF ReadBlocked
<1> HIDE DEF tab
<1>6. RowsOf(tab) = Committed(tab) BY <1>5 DEF Committed
<1>7. Visible(Txn(p), tab) = RowsOf(tab) BY <1>2, SeesAll
<1> QED BY <1>1, <1>6, <1>7 DEF tab

(* account_login keeps GateInv. *)
LEMMA LoginKeeps ==
  ASSUME GateInv, NEW p \in Procs, account_login(p)
  PROVE  GateInv'
<1>0. UNCHANGED <<launchVars, todo, dbVars>> /\ s[p].pc = "lookup" /\ s[p].pc \in Statements
  BY ZenonT(60) DEF account_login, Answers, Statements
<1>1. SessionOK(p) /\ SessionsOK
  BY OfSession
<1>2. DbThins({}) /\ DbThins({Txn(p)}) /\ db' = db /\ late' = late
  <2>1. DbThins({}) BY <1>0, Unthinned, ZenonT(60) DEF GateInv, dbVars
  <2> QED BY <1>0, <2>1, ThinsMore, ZenonT(60) DEF dbVars
<1>3. ASSUME NEW st \in {401, 404, 500}, Ends(p, st) PROVE GateInv'
  <2>1. Ending(p, st) BY <1>1, <1>3, EndsIs
  <2> QED BY <1>0, <1>2, <1>3, <2>1, EndingKeeps
<1>4. ASSUME NEW r \in Visible(Txn(p), "user"), r.name = s[p].user,
             Done(p, [s[p] EXCEPT !.pc = "mint", !.id = r.id], 0)
      PROVE  GateInv'
  <2>0. PICK x : x = [s[p] EXCEPT !.pc = "mint", !.id = r.id]
    OBVIOUS
  <2>1. s[p].req.m = "LOGIN" /\ DOMAIN s[p] = Fields /\ s[p].view = None
    BY <1>0, <1>1, ZenonT(60) DEF SessionOK
  <2>2. /\ DOMAIN x = Fields /\ x.pc = "mint" /\ x.id = r.id
        /\ \A f \in Fields \ {"pc", "id"} : x[f] = s[p][f]
    BY <2>0, <2>1, ZenonT(60) DEF Fields
  <2>3. r \in Committed("user")
    <3>1. Answers(p, "lookup") BY ZenonT(60) DEF account_login
    <3>2. "lookup" \in Statements \ {"insert", "commit"} BY DEF Statements
    <3>3. TableOf(s[p].req) = "user" BY <2>1 DEF TableOf
    <3>4. Visible(Txn(p), "user") = Committed("user") BY <3>1, <3>2, <3>3, ReadsAll
    <3> QED BY <1>4, <3>4
  <2>4. Done(p, x, 0) BY <1>4, <2>0, ZenonT(60)
  <2>5. x.user = s[p].user /\ x.view = None BY <2>1, <2>2 DEF Fields
  <2>7. Account(x.id, x.user) BY <1>4, <2>2, <2>3, <2>5 DEF Account
  <2>8. DbKeeps({}) BY <1>2, ThinsKeeps
  <2>9. Account(x.id, x.user)' BY <2>7, <2>8, AccountStays
  <2>10. Sets(s[p], x, {"pc", "id", "view"}) BY <2>2 DEF Sets
  <2>11. x.pc \in {"mint", "lobby"} /\ x.pc # "lobby" BY <2>2
  <2>12. UNCHANGED launchVars /\ todo' = todo BY <1>0
  <2>13. \E q \in Committed("user")' : q.id = x.id /\ q.name = x.user BY <2>9 DEF Account
  <2> QED BY <1>0, <1>2, <2>1, <2>2, <2>4, <2>5, <2>10, <2>11, <2>12, <2>13, DoneKeeps, ZenonT(60)
<1> DEFINE found == {r \in Visible(Txn(p), "user") : r.name = s[p].user}
           Passes(r) == Done(p, [s[p] EXCEPT !.pc = "mint", !.id = r.id], 0)
<1>5. \/ \E st \in {401, 404, 500} : Ends(p, st)
      \/ \E r \in found : Passes(r)
  <2> HIDE DEF Passes
  <2>1. \/ Ends(p, 404) \/ Ends(p, 500)
        \/ \E r \in found : IF Matches(p, r) THEN Passes(r) ELSE Ends(p, 401)
    BY ZenonT(60) DEF account_login, Passes
  <2> HIDE DEF found
  <2> QED BY <2>1
<1>6. ASSUME NEW r \in found, Passes(r) PROVE GateInv'
  BY <1>4, <1>6, ZenonT(60)
<1> HIDE DEF found, Passes
<1> QED BY <1>3, <1>5, <1>6

(* A name that is taken is refused; one that is free is free in all rows. *)
LEMMA ExistsKeeps ==
  ASSUME GateInv, NEW p \in Procs, select_exists(p)
  PROVE  GateInv'
<1>0. UNCHANGED <<launchVars, todo, db, late>> /\ s[p].pc = "exists" /\ Answers(p, "exists")
  BY DEF select_exists, Answers
<1>1. SessionOK(p) /\ SessionsOK /\ Ahead(p)
  BY OfSession
<1>2. CASE Ends(p, 409)
  <2>1. DbThins({Txn(p)})
    <3>1. DbThins({}) BY <1>0, Unthinned DEF GateInv
    <3> QED BY <3>1, ThinsMore
  <2>2. Ending(p, 409) BY <1>1, <1>2, EndsIs, ZenonT(60)
  <2>3. s[p].pc \in Statements \cup {"open"} BY <1>0 DEF Statements
  <2> QED BY <1>0, <2>1, <2>2, <2>3, EndingKeeps
<1>3. CASE /\ \A r \in Visible(Txn(p), "user") : r.name # s[p].user
           /\ s' = [s EXCEPT ![p].pc = "insert"] /\ UNCHANGED <<sem, probes>>
  <2>1. Moves(p, {"pc"}) /\ s'[p].pc = "insert" BY <1>1, <1>3, PcIs, ZenonT(60)
  <2>2. s'[p].req = s[p].req /\ s'[p].loaded = s[p].loaded /\ s'[p].view = s[p].view /\ s'[p].k = s[p].k
        /\ s'[p].i = s[p].i /\ s'[p].attempt = s[p].attempt /\ s'[p].next = s[p].next /\ s'[p].user = s[p].user
    BY <2>1 DEF Moves, Fields
  <2>3. s[p].req.m = "REGISTER" /\ s[p].loaded /\ s[p].view = None BY <1>0, <1>1, ZenonT(60) DEF SessionOK
  <2>4. \A r \in RowsOf("user") : r.name # s[p].user
    <3>1. "exists" \in Statements \ {"insert", "commit"} BY DEF Statements
    <3>2. TableOf(s[p].req) = "user" BY <2>3 DEF TableOf
    <3>3. Visible(Txn(p), "user") = RowsOf("user") BY <1>0, <3>1, <3>2, ReadsAll, ZenonT(60)
    <3> QED BY <1>3, <3>3
  <2>5. Ahead(p)'
    BY <1>0, <1>1, <2>1, <2>2, <2>4, ZenonT(60) DEF Ahead, RowsOf, TableOf
  <2>6. DOMAIN s'[p] = Fields BY <2>1 DEF Moves
  <2>7. SessionOK(p)'
    BY <1>1, <2>1, <2>2, <2>3, <2>6, ZenonT(60) DEF SessionOK, Pcs, Statements
  <2>8. View(p)' BY <2>1, ZenonT(60) DEF View
  <2>9. Moves(p, {"pc", "next", "view"}) BY <2>1 DEF Moves
  <2>10. s[p].pc \in Statements \ {"commit"} /\ s'[p].pc \in Statements \ {"commit"}
    BY <1>0, <2>1 DEF Statements
  <2> QED BY <1>0, <1>3, <2>5, <2>7, <2>8, <2>9, <2>10, SameKeeps, ZenonT(60)
<1> QED BY <1>2, <1>3 DEF select_exists

(* A token is minted, or the sign-in is refused for want of a secret. *)
LEMMA TokenKeeps ==
  ASSUME GateInv, NEW p \in Procs, token_handler(p)
  PROVE  GateInv'
<1>0. UNCHANGED <<launchVars, todo, sem, probes, dbVars>> /\ s[p].pc = "mint"
  BY DEF token_handler
<1>1. SessionOK(p) /\ Runner(p) /\ Token(p) /\ Probe(p) /\ SessionsOK /\ RoundsOK /\ DOMAIN probes = Procs
      /\ DOMAIN s = Procs /\ DOMAIN s[p] = Fields
  BY OfSession, ZenonT(60) DEF GateInv, SessionsOK, SessionOK
<1>2. DbThins({}) /\ DbThins({Txn(p)}) /\ db' = db /\ late' = late
  <2>1. DbThins({}) BY <1>0, Unthinned DEF GateInv, dbVars
  <2> QED BY <1>0, <2>1, ThinsMore, ZenonT(60) DEF dbVars
<1>3. DbKeeps({}) BY <1>2, ThinsKeeps, ZenonT(60)
<1>4. s[p].view = None /\ s[p].req.m \in {"LOGIN", "REGISTER"} BY <1>0, <1>1 DEF SessionOK
<1> DEFINE Ok(F) ==
      /\ Moves(p, F) /\ s'[p].pc \in {"gate", "dropped", "lobby"} /\ s'[p].req = s[p].req
      /\ s'[p].k = s[p].k /\ s'[p].runner = s[p].runner /\ s'[p].view = None /\ s'[p].loaded = s[p].loaded
      /\ s'[p].attempt = s[p].attempt /\ s'[p].i \in Nat
<1>5. ASSUME NEW F, Ok(F), Token(p)', Probe(p)' PROVE GateInv'
  <2>1. DOMAIN s'[p] = Fields BY <1>5, ZenonT(60) DEF Moves
  <2>2. SessionOK(p)'
    BY <1>1, <1>5, <2>1, ZenonT(60) DEF SessionOK, Pcs
  <2>3. TurnsOK'
    <3>1. \A tab \in Tables : Holds(p, tab)' => Holds(p, tab) BY <1>5, ZenonT(60) DEF Holds, Inserting
    <3> QED BY <1>0, <1>5, <3>1, TurnsKept, ZenonT(60) DEF GateInv
  <2>4. RoundsOK'
    <3>1. \A q \in Procs \ {p} : s'[q] = s[q] BY <1>5, ZenonT(60) DEF Moves
    <3>2. s'[p].pc \notin Unrecorded BY <1>5, ZenonT(60) DEF Unrecorded
    <3> QED BY <1>0, <1>1, <1>2, <1>5, <3>1, <3>2, RoundsThinned, ZenonT(60)
  <2>5. Ahead(p)' BY <1>5 DEF Ahead
  <2>6. Runner(p)' BY <1>0, <1>1, <1>5, ZenonT(60) DEF Runner, launchVars
  <2>7. View(p)' BY <1>5, ZenonT(60) DEF View
  <2>8. s[p].pc \notin {"commit", "killed"} BY <1>0
  <2> HIDE DEF Owner
  <2>9. Moves(p, F) /\ s'[p].k = s[p].k BY <1>5, ZenonT(60)
  <2> QED BY <1>0, <1>1, <1>2, <1>5, <2>2, <2>3, <2>4, <2>5, <2>6, <2>7, <2>8, <2>9, SessionKeeps, ZenonT(60)
<1>6. CASE secret \in Launchers
  <2>0. PICK t : t = token_mint(p) OBVIOUS
  <2>1. s' = [s EXCEPT ![p] = [@ EXCEPT !.pc = "lobby", !.told = 200, !.name = s[p].user, !.token = t]]
    BY <1>6, <2>0 DEF token_handler
  <2>2. PICK y : y = [s[p] EXCEPT !.pc = "lobby", !.told = 200, !.name = s[p].user, !.token = t] OBVIOUS
  <2>3. /\ DOMAIN y = Fields /\ y.pc = "lobby" /\ y.token = t
        /\ \A f \in Fields \ {"pc", "told", "name", "token"} : y[f] = s[p][f]
    BY <1>1, <2>2, ZenonT(60) DEF Fields
  <2>4. s' = [s EXCEPT ![p] = y] BY <2>1, <2>2
  <2>5. Moves(p, {"pc", "told", "name", "token"}) /\ s'[p] = y
    BY <1>1, <2>3, <2>4, ZenonT(60) DEF Moves
  <2>6. /\ y.req = s[p].req /\ y.k = s[p].k /\ y.runner = s[p].runner /\ y.view = s[p].view
        /\ y.loaded = s[p].loaded /\ y.attempt = s[p].attempt /\ y.i = s[p].i
    BY <2>3 DEF Fields
  <2>7. s[p].i \in Nat BY <1>1, ZenonT(60) DEF SessionOK
  <2>8. Ok({"pc", "told", "name", "token"}) BY <1>4, <2>3, <2>5, <2>6, <2>7, ZenonT(60)
  <2>9. t.sub = s[p].id /\ t.name = s[p].user /\ t.key = secret BY <2>0 DEF token_mint
  <2>10. Account(t.sub, t.name)
    BY <1>0, <1>1, <2>9, ZenonT(60) DEF Token
  <2>11. Account(t.sub, t.name)' BY <1>3, <2>10, AccountStays, ZenonT(60)
  <2>12. secret' = secret BY <1>0, ZenonT(60) DEF launchVars
  <2>13. Token(p)'
    BY <1>6, <2>3, <2>5, <2>9, <2>11, <2>12, ZenonT(60) DEF Token, Account
  <2>14. Probe(p)' BY <1>0, <1>1, <2>3, <2>5, <2>6, ZenonT(60) DEF Probe
  <2> HIDE DEF Ok
  <2> QED BY <1>5, <2>8, <2>13, <2>14
<1>7. CASE secret \notin Launchers
  <2>1. PICK y : y = Refused(s[p], 500) OBVIOUS
  <2>2. s' = [s EXCEPT ![p] = y] BY <1>7, <2>1 DEF token_handler
  <2>3. Refusal(s[p], y, 500) BY <1>1, <2>1, RefusedIs, ZenonT(60)
  <2>4. /\ DOMAIN y = Fields /\ y.pc \in {"gate", "dropped"} /\ y.i = s[p].i + 1
        /\ y.pc = "gate" /\ s[p].loaded => y.i < MaxAttempts
        /\ \A f \in Fields \ {"pc", "i", "told"} : y[f] = s[p][f]
    BY <2>3 DEF Refusal, Counts
  <2>5. Moves(p, {"pc", "i", "told"}) /\ s'[p] = y
    BY <1>1, <2>2, <2>4, ZenonT(60) DEF Moves
  <2>6. /\ y.req = s[p].req /\ y.k = s[p].k /\ y.runner = s[p].runner /\ y.view = s[p].view
        /\ y.loaded = s[p].loaded /\ y.attempt = s[p].attempt /\ y.token = s[p].token
    BY <2>4, ZenonT(60) DEF Fields
  <2>7. s[p].i \in Nat BY <1>1, ZenonT(60) DEF SessionOK
  <2>8. Ok({"pc", "i", "told"}) BY <1>4, <2>4, <2>5, <2>6, <2>7
  <2>9. Token(p)'
    <3>1. s'[p].pc \notin {"mint", "commit"} /\ s'[p].token = s[p].token BY <2>4, <2>5, <2>6, ZenonT(60)
    <3> QED BY <1>0, <1>3, <3>1, TokenStays, ZenonT(60)
  <2>10. Probe(p)'
    <3>1. probes[p] \in Nat BY <1>1 DEF Probe
    <3> QED BY <1>0, <1>1, <2>4, <2>5, <2>6, <2>7, <3>1 DEF Probe
  <2> HIDE DEF Ok
  <2> QED BY <1>5, <2>8, <2>9, <2>10
<1> QED BY <1>6, <1>7

(* A session process that is killed. *)
LEMMA KilledKeeps ==
  ASSUME GateInv, NEW p \in Procs, Killed(p)
  PROVE  GateInv'
<1>0. UNCHANGED <<launchVars, todo, sem, probes, db>> /\ s[p].pc \in Statements \cup {"turn", "open", "mint"}
  BY DEF Killed
<1>1. SessionOK(p) /\ Token(p) /\ Probe(p) /\ SessionsOK /\ RoundsOK /\ DOMAIN probes = Procs
  BY OfSession DEF GateInv
<1>2. DbThins({}) /\ DbThins({Txn(p)})
  <2>1. DbThins({}) BY <1>0, Unthinned DEF GateInv
  <2> QED BY <2>1, ThinsMore
<1>3. Moves(p, {"pc", "runner"}) /\ s'[p].pc = "killed" /\ s'[p].runner = None
  BY <1>1, PcRunnerIs, ZenonT(60) DEF Killed
<1>4. /\ s'[p].token = s[p].token /\ s'[p].loaded = s[p].loaded /\ s'[p].req = s[p].req
      /\ s'[p].i = s[p].i /\ s'[p].view = s[p].view /\ s'[p].k = s[p].k /\ s'[p].attempt = s[p].attempt
  BY <1>3, ZenonT(60) DEF Moves, Fields
<1>5. SessionOK(p)'
  BY <1>1, <1>3, <1>4, ZenonT(60) DEF SessionOK, Pcs, Moves
<1>6. TurnsOK'
  <2>1. \A tab \in Tables : Holds(p, tab)' => Holds(p, tab) BY <1>3, ZenonT(60) DEF Holds, Inserting
  <2> QED BY <1>0, <1>3, <2>1, TurnsKept, ZenonT(60) DEF GateInv
<1>7. RoundsOK'
  <2>1. \A q \in Procs \ {p} : s'[q] = s[q] BY <1>3 DEF Moves
  <2>2. s'[p].pc \notin Unrecorded BY <1>3, ZenonT(60) DEF Unrecorded
  <2> QED BY <1>0, <1>1, <1>2, <1>4, <2>1, <2>2, RoundsThinned, ZenonT(60)
<1>8. Ahead(p)' BY <1>3, ZenonT(60) DEF Ahead
<1>9. Token(p)'
  <2>1. DbKeeps({}) BY <1>2, ThinsKeeps
  <2>2. s'[p].pc \notin {"mint", "commit"} BY <1>3
  <2> QED BY <1>0, <1>4, <2>1, <2>2, TokenStays, ZenonT(60)
<1>10. Runner(p)' BY <1>3, ZenonT(60) DEF Runner
<1>11. Probe(p)' BY <1>0, <1>1, <1>4, ZenonT(60) DEF Probe, Statements
<1>12. View(p)' BY <1>3 DEF View
<1>13. \A e \in late' : e \in late \/ Owner(e.own, {"killed"})'
  <2>0. PICK k : k = s[p].k OBVIOUS
  <2>1. Owner(<<p, k>>, {"killed"})'
    <3>1. k \in Nat BY <1>1, <2>0, ZenonT(60) DEF SessionOK
    <3>2. k <= k BY <3>1, SMTT(60)
    <3>3. s'[p].k = k /\ s'[p].pc = "killed" BY <1>3, <1>4, <2>0, ZenonT(60)
    <3> QED BY <3>1, <3>2, <3>3, ZenonT(60) DEF Owner
  <2>2. <<p, k>> = Txn(p) BY <2>0 DEF Txn
  <2> HIDE DEF Owner
  <2>3. ASSUME NEW e \in late', e \notin late PROVE Owner(e.own, {"killed"})'
    <3>1. e.own = Txn(p) BY <2>3 DEF Killed
    <3>2. e.own = <<p, k>> BY <2>2, <3>1, ZenonT(60)
    <3> QED BY <2>1, <3>2 DEF Owner
  <2> QED BY <2>3
<1>14. s'[p].k = s[p].k /\ s'[p].pc = "killed" BY <1>3, <1>4
<1> HIDE DEF Owner
<1> QED
  BY <1>0, <1>1, <1>2, <1>3, <1>5, <1>6, <1>7, <1>8, <1>9, <1>10, <1>11, <1>12, <1>13, <1>14, SessionKeeps, ZenonT(60)

(* A session's own rows stay its own. *)
LEMMA MineStays ==
  ASSUME NEW p \in Procs, db' = db, s'[p].name = s[p].name, s'[p].k = s[p].k
  PROVE  Mine(p)' = Mine(p)
BY DEF Mine, Visible, RowsOf, Txn

(* The rounds are read first. *)
LEMMA RecentKeeps ==
  ASSUME GateInv, NEW p \in Procs, history_db_read_player(p), s[p].pc = "recent"
  PROVE  GateInv'
<1>0. UNCHANGED <<launchVars, todo, dbVars>> /\ s[p].pc \in Statements \ {"commit"}
  BY ZenonT(60) DEF history_db_read_player, Statements
<1>1. SessionOK(p) /\ SessionsOK /\ DOMAIN s[p] = Fields
  BY OfSession, ZenonT(60) DEF SessionOK
<1>2. DbThins({Txn(p)}) /\ db' = db /\ late' = late
  <2>1. DbThins({}) BY <1>0, Unthinned, ZenonT(60) DEF GateInv, dbVars
  <2> QED BY <1>0, <2>1, ThinsMore, ZenonT(60) DEF dbVars
<1>3. ASSUME NEW st \in {"EMPTY", "UNAVAILABLE"},
             Done(p, [s[p] EXCEPT !.pc = "lobby", !.view = [status |-> st]], 0)
      PROVE  GateInv'
  <2>1. PICK v : v = [status |-> st] BY ZenonT(60)
  <2>2. PICK x : x = [s[p] EXCEPT !.pc = "lobby", !.view = v] OBVIOUS
  <2>3. Sets(s[p], x, {"pc", "id", "view"}) /\ x.pc = "lobby" /\ x.view = v
    BY <1>1, <2>2, ZenonT(60) DEF Sets, Fields
  <2>4. v.status = st /\ st # "OK" BY <2>1, ZenonT(60)
  <2>5. AddsUp(x.view) BY <2>3, <2>4 DEF AddsUp
  <2>6. Done(p, x, 0) BY <1>3, <2>1, <2>2
  <2> QED BY <1>0, <1>2, <2>3, <2>5, <2>6, DoneKeeps, ZenonT(60)
<1>4. ASSUME s' = [s EXCEPT ![p].pc = "best",
                            ![p].view = [status |-> "OK", recent |-> {r.data : r \in Mine(p)},
                                         best |-> 0, games |-> 0]],
             UNCHANGED <<sem, probes>>
      PROVE  GateInv'
  <2>1. PICK v : v = [status |-> "OK", recent |-> {r.data : r \in Mine(p)}, best |-> 0, games |-> 0]
    BY ZenonT(60)
  <2>2. Moves(p, {"pc", "view"}) /\ s'[p].pc = "best" /\ s'[p].view = v
    BY <1>1, <1>4, <2>1, PcViewIs, ZenonT(60)
  <2>3. s'[p].req = s[p].req /\ s'[p].loaded = s[p].loaded /\ s'[p].k = s[p].k /\ s'[p].name = s[p].name
        /\ s'[p].i = s[p].i /\ s'[p].attempt = s[p].attempt /\ DOMAIN s'[p] = Fields
    BY <2>2, ZenonT(60) DEF Moves, Fields
  <2>4. s[p].req.m = "HISTORY" BY <1>1, ZenonT(60) DEF SessionOK
  <2>5. SessionOK(p)'
    BY <1>1, <2>2, <2>3, <2>4, ZenonT(60) DEF SessionOK, Pcs, Statements
  <2>6. Ahead(p)' BY <2>2, ZenonT(60) DEF Ahead
  <2>7. Mine(p)' = Mine(p) BY <1>2, <2>3, MineStays, ZenonT(60)
  <2>8. DOMAIN v = {"status", "recent", "best", "games"} /\ v.recent = {r.data : r \in Mine(p)}
    BY <2>1, ZenonT(60)
  <2>9. View(p)'
    BY <2>2, <2>7, <2>8, ZenonT(60) DEF View
  <2>10. Moves(p, {"pc", "next", "view"}) BY <2>2 DEF Moves
  <2>11. s'[p].pc \in Statements \ {"commit"} BY <2>2, ZenonT(60) DEF Statements
  <2> QED BY <1>0, <1>2, <1>4, <2>5, <2>6, <2>9, <2>10, <2>11, SameKeeps, ZenonT(60)
<1> QED BY <1>3, <1>4, ZenonT(60) DEF history_db_read_player, Answers

(* A commit that is answered: the row is there for a token to speak of. *)
LEMMA CommitKeeps ==
  ASSUME GateInv, NEW p \in Procs, commit(p)
  PROVE  GateInv'
<1>0. /\ UNCHANGED <<launchVars, todo, late>> /\ s[p].pc = "commit" /\ Connected(p)
      /\ db' = AfterCommit(Txn(p))
  BY ZenonT(60) DEF commit, Answers
<1>1. SessionOK(p) /\ SessionsOK /\ Token(p) /\ DOMAIN s[p] = Fields
  BY OfSession, ZenonT(60) DEF SessionOK
<1>2. s[p].req.m \in {"REGISTER", "ROUND"} /\ s[p].view = None
  BY <1>0, <1>1, ZenonT(60) DEF SessionOK
<1>3. /\ DbThins({Txn(p)})
      /\ \A r \in RowsOf("user") : r.by = Txn(p) => \E y \in RowsOf("user")' : Copy(r, y) /\ y.by = None
  <2>1. "user" \in Tables BY DEF Tables
  <2> QED BY <1>0, <1>1, <2>1, TxnIs, CommitThins, ZenonT(60) DEF GateInv
<1>4. PICK pc : pc = IF s[p].req.m = "REGISTER" THEN "mint" ELSE "lobby" OBVIOUS
<1>5. PICK x : x = [s[p] EXCEPT !.pc = pc, !.id = s[p].next] OBVIOUS
<1>6. /\ Sets(s[p], x, {"pc", "id", "view"}) /\ x.pc = pc /\ x.id = s[p].next
      /\ x.view = s[p].view /\ x.user = s[p].user
  BY <1>1, <1>5, ZenonT(60) DEF Sets, Fields
<1>7. [Succeeded(s[p]) EXCEPT !.id = s[p].next] = x
  BY <1>4, <1>5 DEF Succeeded
<1>8. Done(p, x, 0) BY <1>7, ZenonT(60) DEF commit
<1>9. s[p].req.m = "REGISTER" => \E r \in Committed("user")' : r.id = x.id /\ r.name = x.user
  <2> SUFFICES ASSUME s[p].req.m = "REGISTER"
               PROVE  \E r \in Committed("user")' : r.id = x.id /\ r.name = x.user
    BY ZenonT(60)
  <2>1. PICK r \in RowsOf("user") : r.by = Txn(p) /\ r.id = s[p].next /\ r.name = s[p].user
    BY <1>0, <1>1, ZenonT(60) DEF Token
  <2>2. PICK y \in RowsOf("user")' : Copy(r, y) /\ y.by = None
    BY <1>3, <2>1
  <2> QED BY <1>6, <2>1, <2>2, ZenonT(60) DEF Committed, Copy
<1>10. pc \in {"mint", "lobby"} /\ (pc = "mint" => s[p].req.m = "REGISTER") BY <1>4, ZenonT(60)
<1>11. AddsUp(x.view) BY <1>2, <1>6 DEF AddsUp
<1>12. s[p].pc \in Statements BY <1>0 DEF Statements
<1> QED BY <1>0, <1>2, <1>3, <1>6, <1>8, <1>9, <1>10, <1>11, <1>12, DoneKeeps, ZenonT(60)

(* A table gains one row, and the other none. *)
Gains(tab, nr) ==
  /\ DOMAIN db' = Tables /\ \A t \in Tables : DOMAIN db'[t] = {"rows", "pages"}
  /\ RowsOf(tab)' = RowsOf(tab) \cup {nr}
  /\ \A t \in Tables \ {tab} : RowsOf(t)' = RowsOf(t)

(* What an INSERT adds to its table. *)
LEMMA InsertIs ==
  ASSUME RowsOK, NEW tab \in Tables, NEW o, NEW id, NEW name, NEW data,
         db' = AfterInsert(o, tab, id, name, data)
  PROVE  \E nr : /\ DOMAIN nr = RowFields /\ nr.id = id /\ nr.name = name /\ nr.data = data /\ nr.by = o
                 /\ Gains(tab, nr)
<1>1. PICK pg : pg = InsertPage(tab) OBVIOUS
<1>2. PICK nr : nr = [page |-> pg, id |-> id, name |-> name, data |-> data, by |-> o] BY ZenonT(60)
<1>3. DOMAIN nr = RowFields /\ nr.id = id /\ nr.name = name /\ nr.data = data /\ nr.by = o
  BY <1>2, ZenonT(60) DEF RowFields
<1>4. DOMAIN db = Tables /\ \A t \in Tables : DOMAIN db[t] = {"rows", "pages"} BY DEF RowsOK
<1>5. PICK n : n = Max({db[tab].pages, pg}) OBVIOUS
<1>6. db' = [db EXCEPT ![tab].rows = @ \cup {nr}, ![tab].pages = n]
  <2>1. db' = [db EXCEPT ![tab].rows = @ \cup {nr}, ![tab].pages = Max({@, pg})]
    BY <1>1, <1>2 DEF AfterInsert
  <2>2. PICK e : e = [db EXCEPT ![tab].rows = @ \cup {nr}] BY ZenonT(60)
  <2>3. e[tab].pages = db[tab].pages BY <1>4, <2>2
  <2>4. db' = [e EXCEPT ![tab].pages = Max({e[tab].pages, pg})] BY <2>1, <2>2
  <2>5. db' = [e EXCEPT ![tab].pages = n] BY <1>5, <2>3, <2>4
  <2> QED BY <2>2, <2>5
<1>7. Gains(tab, nr) BY <1>4, <1>6 DEF Gains, RowsOf
<1> QED BY <1>3, <1>7

(* The row of an insert is new: its id, and its name or its round, are in  *)
(* no row of its table, and whoever else looks for an id holds no turn.    *)
LEMMA InsertKeeps ==
  ASSUME GateInv, NEW p \in Procs, insert(p)
  PROVE  GateInv'
<1>0. /\ UNCHANGED <<launchVars, todo, sem, probes, late>> /\ s[p].pc = "insert" /\ Connected(p)
      /\ db' = Inserted(p) /\ s' = [s EXCEPT ![p].pc = "commit"]
  BY DEF insert, Answers
<1>1. /\ SessionOK(p) /\ SessionsOK /\ Token(p) /\ Ahead(p) /\ Runner(p) /\ Probe(p) /\ Ongoing(p)
      /\ DOMAIN probes = Procs /\ RowsOK /\ RoundsOK /\ OwnersOK /\ TurnsOK /\ AheadOK
  BY OfSession DEF GateInv
<1>2. Moves(p, {"pc"}) /\ s'[p].pc = "commit"
  BY <1>0, <1>1, PcIs, ZenonT(60)
<1>3. /\ s'[p].req = s[p].req /\ s'[p].loaded = s[p].loaded /\ s'[p].view = s[p].view /\ s'[p].k = s[p].k
      /\ s'[p].i = s[p].i /\ s'[p].attempt = s[p].attempt /\ s'[p].next = s[p].next /\ s'[p].user = s[p].user
      /\ s'[p].runner = s[p].runner /\ s'[p].token = s[p].token /\ DOMAIN s'[p] = Fields
  BY <1>2 DEF Moves, Fields
<1>4. s[p].req.m \in {"REGISTER", "ROUND"} /\ s[p].view = None /\ s[p].k \in Nat
      /\ (s[p].req.m = "ROUND" => s[p].req.call \in Nat)
  BY <1>0, <1>1, ZenonT(60) DEF SessionOK
<1>5. \A q \in Procs \ {p} : s'[q] = s[q] BY <1>2 DEF Moves
<1>t. PICK tab : tab = TableOf(s[p].req) BY ZenonT(60)
<1>6. /\ s[p].req.m = "REGISTER" => tab = "user"
      /\ s[p].req.m = "ROUND" => tab = "history"
      /\ tab \in Tables
  BY <1>4, <1>t, ZenonT(60) DEF TableOf, Tables
<1>7. PICK nr : /\ DOMAIN nr = RowFields /\ nr.id = s[p].next /\ nr.by = Txn(p) /\ Gains(tab, nr)
                /\ s[p].req.m = "REGISTER" => nr.name = s[p].user
                /\ s[p].req.m = "ROUND" => nr.data = s[p].req.call
  <2>1. CASE s[p].req.m = "REGISTER"
    <3>1. PICK d : d = [salt |-> p, digest |-> password_hash(s[p].req.pass, p)] BY ZenonT(60)
    <3>2. db' = AfterInsert(Txn(p), "user", s[p].next, s[p].user, d) BY <1>0, <2>1, <3>1, ZenonT(60) DEF Inserted
    <3> QED BY <1>1, <1>6, <2>1, <3>2, InsertIs
  <2>2. CASE s[p].req.m = "ROUND"
    <3>1. db' = AfterInsert(Txn(p), "history", s[p].next, s[p].name, s[p].req.call) BY <1>0, <2>2 DEF Inserted
    <3> QED BY <1>1, <1>6, <2>2, <3>1, InsertIs
  <2> QED BY <1>4, <2>1, <2>2, ZenonT(60)
<1>8. /\ s[p].next \in Nat /\ \A r \in RowsOf(tab) : r.id < s[p].next
      /\ s[p].req.m = "REGISTER" => \A r \in RowsOf("user") : r.name # s[p].user
  BY <1>0, <1>1, <1>t DEF Ahead
<1>9. s[p].req.m = "ROUND" => \A r \in RowsOf("history") : r.data # s[p].req.call
  BY <1>0, <1>1 DEF Ongoing, Unrecorded
<1>10. /\ DOMAIN db' = Tables /\ \A t \in Tables : DOMAIN db'[t] = {"rows", "pages"}
       /\ RowsOf(tab)' = RowsOf(tab) \cup {nr}
       /\ \A t \in Tables \ {tab} : RowsOf(t)' = RowsOf(t)
  BY <1>7 DEF Gains
<1>11. RowsOK'
  <2>1. ASSUME NEW t \in Tables
        PROVE  /\ DOMAIN db'[t] = {"rows", "pages"} /\ IsFiniteSet(RowsOf(t)')
               /\ \A r \in RowsOf(t)' : DOMAIN r = RowFields /\ r.id \in Nat
    <3>1. IsFiniteSet(RowsOf(t)) /\ \A r \in RowsOf(t) : DOMAIN r = RowFields /\ r.id \in Nat
      BY <1>1, ZenonT(60) DEF RowsOK
    <3>2. IsFiniteSet(RowsOf(t) \cup {nr}) BY <3>1, FiniteAdd, ZenonT(60)
    <3>3. RowsOf(t)' = RowsOf(t) \/ (t = tab /\ RowsOf(t)' = RowsOf(t) \cup {nr}) BY <1>10
    <3> QED BY <1>7, <1>8, <1>10, <3>1, <3>2, <3>3, ZenonT(60)
  <2>2. \A r \in RowsOf(tab) : r.id \in Nat BY <1>1, <1>6 DEF RowsOK
  <2>3. \A r \in RowsOf(tab) : r.id # nr.id BY <1>7, <1>8, <2>2
  <2>4. /\ \A r \in RowsOf("history")' : r.data \in Nat
        /\ \A r, q \in RowsOf("history")' : r.data = q.data \/ r.id = q.id => r = q
    <3>0. /\ \A r \in RowsOf("history") : r.data \in Nat
          /\ \A r, q \in RowsOf("history") : r.data = q.data \/ r.id = q.id => r = q
      BY <1>1 DEF RowsOK
    <3>1. CASE s[p].req.m = "ROUND"
      <4>1. tab = "history" BY <1>6, <3>1, ZenonT(60)
      <4>2. RowsOf("history")' = RowsOf("history") \cup {nr} BY <1>10, <4>1, ZenonT(60)
      <4>3. \A r \in RowsOf("history") : r.id # nr.id /\ r.data # nr.data BY <1>7, <1>9, <2>3, <3>1, <4>1, ZenonT(60)
      <4>4. nr.data \in Nat BY <1>4, <1>7, <3>1, ZenonT(60)
      <4> QED BY <3>0, <4>2, <4>3, <4>4, ZenonT(60)
    <3>2. CASE s[p].req.m = "REGISTER"
      <4>1. RowsOf("history")' = RowsOf("history") BY <1>6, <1>10, <3>2, ZenonT(60) DEF Tables
      <4> QED BY <3>0, <4>1, ZenonT(60)
    <3> QED BY <1>4, <3>1, <3>2, ZenonT(60)
  <2>5. \A r, q \in RowsOf("user")' : r.name = q.name \/ r.id = q.id => r = q
    <3>0. \A r, q \in RowsOf("user") : r.name = q.name \/ r.id = q.id => r = q
      BY <1>1 DEF RowsOK
    <3>1. CASE s[p].req.m = "REGISTER"
      <4>1. tab = "user" BY <1>6, <3>1
      <4>2. RowsOf("user")' = RowsOf("user") \cup {nr} BY <1>10, <4>1, ZenonT(60)
      <4>3. \A r \in RowsOf("user") : r.id # nr.id /\ r.name # nr.name BY <1>7, <1>8, <2>3, <3>1, <4>1, ZenonT(60)
      <4> QED BY <3>0, <4>2, <4>3, ZenonT(60)
    <3>2. CASE s[p].req.m = "ROUND"
      <4>1. RowsOf("user")' = RowsOf("user") BY <1>6, <1>10, <3>2, ZenonT(60) DEF Tables
      <4> QED BY <3>0, <4>1, ZenonT(60)
    <3> QED BY <1>4, <3>1, <3>2, ZenonT(60)
  <2> QED BY <1>10, <2>1, <2>4, <2>5, ZenonT(60) DEF RowsOK
<1>12. SessionsOK'
  <2>1. SessionOK(p)' BY <1>1, <1>2, <1>3, <1>4, ZenonT(60) DEF SessionOK, Pcs, Statements
  <2> QED BY <1>1, <1>2, <2>1, OneSession, ZenonT(60)
<1>13. TurnsOK'
  <2>1. \A t \in Tables : Holds(p, t)' => Holds(p, t)
    BY <1>0, <1>3, ZenonT(60) DEF Holds, Inserting, Serialised, TableOf
  <2> QED BY <1>0, <1>1, <1>2, <2>1, TurnsKept, ZenonT(60)
<1>14. RoundsOK'
  <2>1. \A r \in RowsOf("history")' : r \in RowsOf("history") \/ (s[p].req.m = "ROUND" /\ r.data = s[p].req.call)
    <3>1. CASE s[p].req.m = "ROUND" BY <1>6, <1>7, <1>10, <3>1, ZenonT(60)
    <3>2. CASE s[p].req.m = "REGISTER"
      BY <1>6, <1>10, <3>2, ZenonT(60) DEF Tables
    <3> QED BY <1>4, <3>1, <3>2, ZenonT(60)
  <2>2. \A q \in Procs : s'[q].req = s[q].req /\ (s'[q].pc \in Unrecorded => q # p /\ s[q].pc \in Unrecorded)
    BY <1>2, <1>3, <1>5, ZenonT(60) DEF Unrecorded
  <2> HIDE DEF RowsOf
  <2>3. ASSUME NEW q \in Procs PROVE Ongoing(q)'
    <3>1. Ongoing(q) /\ Ongoing(p) BY <1>1 DEF RoundsOK
    <3> QED BY <2>1, <2>2, <3>1, ZenonT(60) DEF Ongoing
  <2>4. ASSUME NEW q \in Procs, NEW i \in DOMAIN todo[q] PROVE Pending(q, i)'
    <3>1. Pending(q, i) BY <1>1, ZenonT(60) DEF RoundsOK
    <3> QED BY <1>0, <2>1, <2>2, <3>1, ZenonT(60) DEF Pending
  <2> QED BY <1>0, <1>1, <2>3, <2>4, ZenonT(60) DEF RoundsOK
<1>15. AheadOK'
  <2>1. Ahead(p)' BY <1>2, ZenonT(60) DEF Ahead
  <2>2. ASSUME NEW q \in Procs \ {p}, s[q].pc \in {"exists", "insert"} PROVE Ahead(q)'
    <3>1. Ahead(q) /\ SessionOK(q) BY <1>1 DEF AheadOK, SessionsOK
    <3>2. PICK t : t = TableOf(s[q].req) BY ZenonT(60)
    <3>3. t \in Tables /\ Serialised(s[q].req) BY <2>2, <3>1, <3>2, ZenonT(60) DEF TableOf, Tables, SessionOK, Serialised
    <3>4. Holds(q, t) BY <2>2, <3>2, <3>3, ZenonT(60) DEF Holds, Inserting
    <3>5. Holds(p, tab) BY <1>0, <1>4, <1>t, ZenonT(60) DEF Holds, Inserting, Serialised
    <3>6. t # tab BY <1>1, <3>3, <3>4, <3>5, ZenonT(60) DEF TurnsOK
    <3>7. RowsOf(t)' = RowsOf(t) /\ s'[q] = s[q] BY <1>5, <1>10, <3>3, <3>6, ZenonT(60)
    <3>8. TableOf(s'[q].req) = t BY <3>2, <3>7, ZenonT(60)
    <3>9. s[q].req.m = "REGISTER" => t = "user" BY <3>2, ZenonT(60) DEF TableOf
    <3>10. \A r \in RowsOf(TableOf(s[q].req))' : r \in RowsOf(t)
      BY <3>7, <3>8, ZenonT(60) DEF RowsOf, TableOf
    <3>11. s[q].req.m = "REGISTER" => RowsOf("user")' = RowsOf("user") BY <3>7, <3>9, ZenonT(60)
    <3> HIDE DEF RowsOf
    <3> QED BY <3>1, <3>2, <3>7, <3>10, <3>11, ZenonT(60) DEF Ahead
  <2>3. ASSUME NEW q \in Procs \ {p}, s[q].pc \notin {"exists", "insert"} PROVE Ahead(q)'
    BY <1>5, <2>3, ZenonT(60) DEF Ahead
  <2> QED BY <2>1, <2>2, <2>3, ZenonT(60) DEF AheadOK
<1>16. OwnersOK'
  <2>1. ASSUME NEW o, NEW live \in {{"killed"}, {"commit", "killed"}}, Owner(o, live)
        PROVE  Owner(o, live)'
    <3>1. PICK q \in Procs, k \in Nat : o = <<q, k>> /\ k <= s[q].k /\ (k = s[q].k => s[q].pc \in live)
      BY <2>1 DEF Owner
    <3>2. k <= s'[q].k /\ (k = s'[q].k => s'[q].pc \in live)
      BY <1>0, <1>3, <1>5, <3>1, ZenonT(60)
    <3> QED BY <3>1, <3>2, ZenonT(60) DEF Owner
  <2>2. Owner(nr.by, {"commit", "killed"})'
    <3>1. PICK k : k = s[p].k OBVIOUS
    <3>2. nr.by = <<p, k>> BY <1>7, <3>1, ZenonT(60) DEF Txn
    <3>3. k \in Nat /\ k <= s'[p].k /\ s'[p].pc = "commit" BY <1>2, <1>3, <1>4, <3>1
    <3> QED BY <3>2, <3>3, ZenonT(60) DEF Owner
  <2> HIDE DEF Owner
  <2>3. \A t \in Tables : \A r \in RowsOf(t)' : r \in RowsOf(t) \/ r = nr
    BY <1>10, ZenonT(60)
  <2>4. ASSUME NEW t \in Tables, NEW r \in RowsOf(t)'
        PROVE  r.by = None \/ Owner(r.by, {"commit", "killed"})'
    BY <1>1, <2>1, <2>2, <2>3, ZenonT(60) DEF OwnersOK
  <2>5. \A e \in late' : Owner(e.own, {"killed"})'
    BY <1>0, <1>1, <2>1, ZenonT(60) DEF OwnersOK
  <2> QED BY <2>4, <2>5, ZenonT(60) DEF OwnersOK
<1>17. DbKeeps({})
  <2>1. \A t \in Tables : \A r \in RowsOf(t) : r \in RowsOf(t)' /\ Copy(r, r)
    BY <1>1, <1>10 DEF RowsOK, Copy
  <2> QED BY <2>1, ZenonT(60) DEF DbKeeps
<1>18. jvm' = jvm /\ secret' = secret BY <1>0, ZenonT(60) DEF launchVars
<1>19. ASSUME NEW q \in Procs \ {p} PROVE Runner(q)' /\ Token(q)' /\ Probe(q)' /\ View(q)'
  <2>1. Runner(q) /\ Token(q) /\ Probe(q) /\ View(q) BY DEF GateInv, ClientsOK
  <2>2. s'[q] = s[q] /\ probes'[q] = probes[q] BY <1>0, <1>5, ZenonT(60)
  <2>3. Connected(q)' => Connected(q) /\ Txn(q) \notin {} BY <1>18, <2>2, ZenonT(60) DEF Connected
  <2>4. PICK O : O = {} /\ DbKeeps(O) BY <1>17, ZenonT(60)
  <2>5. /\ Connected(q)' => Connected(q) /\ (s[q].pc # "killed" => Txn(q) \notin O)
        /\ secret \in Launchers => secret' = secret
        /\ q \in Procs
    BY <1>18, <2>3, <2>4, ZenonT(60)
  <2> HIDE DEF Connected
  <2>6. Token(q)' /\ Probe(q)' /\ View(q)' BY <2>1, <2>2, <2>4, <2>5, ClientStays, ZenonT(60)
  <2> QED BY <1>18, <2>1, <2>2, <2>6, ZenonT(60) DEF Runner
<1>20. Runner(p)' /\ Probe(p)' /\ View(p)'
  <2>1. Runner(p)' BY <1>1, <1>3, <1>18, ZenonT(60) DEF Runner
  <2>2. Probe(p)' BY <1>0, <1>1, <1>2, <1>3, ZenonT(60) DEF Probe
  <2>3. View(p)' BY <1>2, ZenonT(60) DEF View
  <2> QED BY <2>1, <2>2, <2>3, ZenonT(60)
<1>21. Token(p)'
  <2>1. s[p].token # None =>
          Account(s[p].token.sub, s[p].token.name)' /\ s[p].token.key = secret' /\ secret' \in Launchers
    <3>1. s[p].token # None =>
            Account(s[p].token.sub, s[p].token.name) /\ s[p].token.key = secret /\ secret \in Launchers
      BY <1>1 DEF Token
    <3>2. \A id, name : Account(id, name) => Account(id, name)' BY <1>17, AccountStays, ZenonT(60)
    <3> QED BY <1>3, <1>18, <3>1, <3>2, ZenonT(60)
  <2>2. s[p].req.m = "REGISTER" =>
          \E r \in RowsOf("user")' : r.by = Txn(p)' /\ r.id = s'[p].next /\ r.name = s'[p].user
    <3>1. Txn(p)' = Txn(p) BY <1>3 DEF Txn
    <3> QED BY <1>3, <1>6, <1>7, <1>10, <3>1, ZenonT(60)
  <2> HIDE DEF Account
  <2> QED BY <1>2, <1>3, <2>1, <2>2, ZenonT(60) DEF Token, Account
<1>22. ClientsOK'
  BY <1>0, <1>1, <1>19, <1>20, <1>21, ZenonT(60) DEF ClientsOK
<1>23. LaunchInv' /\ SecretOK'
  BY <1>0, LaunchStill, ZenonT(60) DEF GateInv
<1> QED BY <1>11, <1>12, <1>13, <1>14, <1>15, <1>16, <1>22, <1>23, ZenonT(60) DEF GateInv

-----------------------------------------------------------------------------
(* What the server and the launchers do. *)

(* When no session moves, transactions that nobody waits for may end. *)
LEMMA ServerKeeps ==
  ASSUME GateInv, UNCHANGED sessVars, LaunchInv', SecretOK', NEW O, None \notin O, DbThins(O),
         late' \subseteq late, secret \in Launchers => secret' = secret,
         \A q \in Procs : Runner(q)',
         \A q \in Procs : Connected(q)' => Connected(q) /\ (s[q].pc # "killed" => Txn(q) \notin O)
  PROVE  GateInv'
<1>0. s' = s /\ todo' = todo /\ sem' = sem /\ probes' = probes BY ZenonT(60) DEF sessVars
<1>1. SessionsOK' /\ TurnsOK'
  <2>1. SessionsOK' BY <1>0, ZenonT(60) DEF GateInv, SessionsOK, SessionOK
  <2>2. TurnsOK' BY <1>0, ZenonT(60) DEF GateInv, TurnsOK, Holds
  <2> QED BY <2>1, <2>2
<1>2. RowsOK' BY RowsThinned, ZenonT(60) DEF GateInv
<1>3. RoundsOK'
  BY <1>0, RoundsThinned, ZenonT(60) DEF GateInv
<1>4. AheadOK' BY <1>0, AheadThinned, ZenonT(60) DEF GateInv
<1>5. OwnersOK' BY <1>0, OwnersThinned, ZenonT(60) DEF GateInv
<1>6. DbKeeps(O) BY ThinsKeeps, ZenonT(60)
<1>7. ASSUME NEW q \in Procs PROVE Runner(q)' /\ Token(q)' /\ Probe(q)' /\ View(q)'
  <2>1. Token(q) /\ Probe(q) /\ View(q) BY OfSession, ZenonT(60)
  <2> HIDE DEF Connected
  <2> QED BY <1>0, <1>6, <2>1, ClientStays, ZenonT(60)
<1>8. ClientsOK' BY <1>0, <1>7, ZenonT(60) DEF ClientsOK, GateInv
<1> QED BY <1>1, <1>2, <1>3, <1>4, <1>5, <1>8, ZenonT(60) DEF GateInv

(* A statement whose client has gone ends, committed or not, and keeps GateInv. *)
LEMMA LateKeeps ==
  ASSUME GateInv, LateEnds
  PROVE  GateInv'
<1>1. PICK e \in late : /\ late' = late \ {e}
                        /\ db' = AfterCommit(e.own) \/ db' = AfterAbort(e.own)
                        /\ UNCHANGED <<launchVars, sessVars>>
  BY ZenonT(60) DEF LateEnds
<1>2. Owner(e.own, {"killed"}) BY ZenonT(60) DEF GateInv, OwnersOK
<1>3. PICK p \in Procs, k \in Nat : e.own = <<p, k>> /\ (k = s[p].k => s[p].pc = "killed")
  BY <1>2 DEF Owner
<1>4. e.own # None BY <1>3, ConfAssumption
<1>5. DbThins({e.own}) BY <1>1, <1>4, CommitThins, AbortThins, ZenonT(60) DEF GateInv
<1>6. \A q \in Procs : s[q].pc # "killed" => Txn(q) # e.own BY <1>3 DEF Txn
<1>7. LaunchInv' /\ SecretOK' BY <1>1, LaunchStill, ZenonT(60) DEF GateInv
<1>8. jvm' = jvm /\ secret' = secret /\ s' = s BY <1>1, ZenonT(60) DEF launchVars, sessVars
<1>9. \A q \in Procs : Runner(q)'
  BY <1>8, ZenonT(60) DEF GateInv, ClientsOK, Runner
<1>10. \A q \in Procs : Connected(q)' => Connected(q) /\ (s[q].pc # "killed" => Txn(q) \notin {e.own})
  BY <1>6, <1>8, ZenonT(60) DEF Connected
<1> HIDE DEF Connected
<1> QED BY <1>1, <1>4, <1>5, <1>7, <1>8, <1>9, <1>10, ServerKeeps, ZenonT(60)

(* JVMs: one that was not there does not listen, and one that ended stays  *)
(* ended.                                                                  *)
JvmGoes ==
  \A k \in Launchers :
    /\ jvm'[k] \in {"listening", "stopping"} => JvmAlive(k)
    /\ jvm[k] \in {"listening", "stopping", "dead"} => jvm'[k] \in {"listening", "stopping", "dead"}

Unspawned == \A k \in Launchers : jvm[k] = "none" => jvm'[k] = "none"

SecretStays == SecretOK' /\ (secret \in Launchers => secret' = secret)

(* The secret of a launcher that goes on. *)
LEMMA SecretMoves ==
  ASSUME SecretOK, NEW l \in Launchers, NEW at \in Places, Moved(l, at), secret' = secret,
         at = "fill" => lnch[l].at = "fill", at \in Unborn => lnch[l].at \in Unborn, Unspawned
  PROVE  SecretStays
BY DEF SecretOK, SecretStays, Moved, Unspawned

(* A step that leaves the servers alone. *)
LEMMA JvmStill ==
  ASSUME jvm' = jvm
  PROVE  JvmGoes /\ Unspawned
BY DEF JvmGoes, Unspawned, JvmAlive

(* A server that starts to listen, stops or dies. *)
LEMMA JvmChanges ==
  ASSUME LaunchTypeOK, NEW k \in Launchers, JvmAlive(k), NEW st \in {"listening", "stopping", "dead"},
         jvm' = [jvm EXCEPT ![k] = st]
  PROVE  JvmGoes /\ Unspawned
BY DEF JvmGoes, Unspawned, JvmAlive, LaunchTypeOK

(* One that has spawned its JVM, or ends it. *)
LEMMA SecretSpawns ==
  ASSUME LaunchTypeOK, SecretOK, NEW l \in Launchers, NEW at \in Places \ Unborn, Moved(l, at), secret' = secret,
         NEW st \in {"starting", "dead"}, jvm' = [jvm EXCEPT ![l] = st],
         st = "starting" => jvm[l] = "none"
  PROVE  SecretStays /\ JvmGoes
<1>1. \A k \in Launchers : k # l => jvm'[k] = jvm[k] BY ZenonT(60) DEF LaunchTypeOK
<1>2. SecretStays
  BY <1>1 DEF SecretOK, SecretStays, Moved, Unborn
<1>3. jvm'[l] = st BY DEF LaunchTypeOK
<1>4. JvmGoes BY <1>1, <1>3, ZenonT(60) DEF JvmGoes, JvmAlive
<1> QED BY <1>2, <1>4, ZenonT(60)

(* A launcher leaves the secret of a running server alone. *)
LEMMA SecretSteps ==
  ASSUME LaunchInv, SecretOK, NEW l \in Launchers, LauncherStep(l) \/ LauncherFault(l)
  PROVE  SecretStays /\ JvmGoes
<1>0. \A at \in Places : Goes(l, at) => Moved(l, at)
  BY GoesMoves, ZenonT(60) DEF LaunchInv
<1>d. \A rc \in {0, 1} : Returns(l, rc) => Moved(l, "done")
  BY ReturnsMoves DEF LaunchInv
<1>t. LaunchTypeOK /\ lnch[l].at \in Places BY ZenonT(60) DEF LaunchInv, LaunchTypeOK
<1>m. ASSUME secret' = secret, jvm' = jvm,
             \/ \E at \in Places \ {"fill"} : Moved(l, at) /\ (at \in Unborn => lnch[l].at \in Unborn)
             \/ lnch' = lnch
      PROVE  SecretStays /\ JvmGoes
  <2>1. JvmGoes /\ Unspawned BY <1>m, JvmStill, ZenonT(60)
  <2>2. CASE lnch' = lnch
    <3>1. Moved(l, lnch[l].at) BY <1>t, <2>2, NobodyMoves, ZenonT(60)
    <3> QED BY <1>m, <1>t, <2>1, <3>1, SecretMoves, ZenonT(60)
  <2>3. CASE \E at \in Places \ {"fill"} : Moved(l, at) /\ (at \in Unborn => lnch[l].at \in Unborn)
    BY <1>m, <2>1, <2>3, SecretMoves, ZenonT(60)
  <2> QED BY <1>m, <2>2, <2>3, ZenonT(60)
<1>r. ASSUME secret' = secret, jvm' = jvm, NEW rc \in {0, 1}, Returns(l, rc)
      PROVE  SecretStays /\ JvmGoes
  <2>1. Moved(l, "done") /\ "done" \in Places \ {"fill"} /\ "done" \notin Unborn
    BY <1>d, <1>r, ZenonT(60) DEF Places, Unborn
  <2> QED BY <1>m, <1>r, <2>1, ZenonT(60)
<1>g. ASSUME secret' = secret, jvm' = jvm, NEW at \in Places \ {"fill"}, Goes(l, at),
             at \in Unborn => lnch[l].at \in Unborn
      PROVE  SecretStays /\ JvmGoes
  <2>1. Moved(l, at) BY <1>0, <1>g, ZenonT(60)
  <2> QED BY <1>m, <1>g, <2>1, ZenonT(60)
<1>a. ASSUME secret' = secret, lnch' = lnch, NEW k \in Launchers, JvmAlive(k),
             NEW st \in {"listening", "stopping", "dead"}, jvm' = [jvm EXCEPT ![k] = st]
      PROVE  SecretStays /\ JvmGoes
  <2>1. JvmGoes /\ Unspawned BY <1>a, <1>t, JvmChanges, ZenonT(60)
  <2>2. Moved(l, lnch[l].at) BY <1>a, <1>t, NobodyMoves, ZenonT(60)
  <2> QED BY <1>a, <1>t, <2>1, <2>2, SecretMoves, ZenonT(60)
<1>1. CASE db_runner_lock(l)
  <2>1. CASE Returns(l, 1) BY <1>1, <1>r, <2>1, ZenonT(60) DEF db_runner_lock
  <2>2. CASE Goes(l, "clear")
    <3>1. lnch[l].at \in Unborn /\ "clear" \in Places \ {"fill"}
      BY <1>1, ZenonT(60) DEF db_runner_lock, At, Unborn, Places
    <3> QED BY <1>1, <1>g, <2>2, <3>1, ZenonT(60) DEF db_runner_lock
  <2> QED BY <1>1, <2>1, <2>2, ZenonT(60) DEF db_runner_lock
<1>2. CASE acquire_lock(l)
  <2>1. lnch[l].at \in Unborn /\ "provision" \in Places \ {"fill"}
    BY <1>2, ZenonT(60) DEF acquire_lock, At, Unborn, Places
  <2> QED BY <1>2, <1>g, <2>1, ZenonT(60) DEF acquire_lock
<1>3. CASE db_ensure_table(l)
  <2>1. lnch[l].at \in Unborn /\ "declare" \in Places \ {"fill"} /\ "provisionSecret" \in Places \ {"fill"}
    BY <1>3, ZenonT(60) DEF db_ensure_table, At, Unborn, Places
  <2>2. Goes(l, "declare") \/ Goes(l, "provisionSecret") BY <1>3, ZenonT(60) DEF db_ensure_table
  <2> QED BY <1>3, <1>g, <2>1, <2>2, ZenonT(60) DEF db_ensure_table
<1>4. CASE auth_secret_provision(l)
  <2>0. /\ lnch[l].at \in {"provisionSecret", "fill"} /\ jvm' = jvm /\ lnch[l].cmd = "start"
        /\ lnch[l].at = "fill" => secret' = l /\ Goes(l, "validate")
        /\ lnch[l].at = "provisionSecret" =>
             \/ secret = "none" /\ secret' = "short" /\ Goes(l, "fill")
             \/ secret' = secret /\ Goes(l, "validate")
    BY <1>4, ZenonT(60) DEF auth_secret_provision, At
  <2>1. lnch[l].at \in Unborn /\ "validate" \in Places \ {"fill"} /\ "fill" \in Places
    BY <2>0, ZenonT(60) DEF Unborn, Places
  <2>2. JvmGoes BY <2>0, JvmStill
  <2>3. CASE lnch[l].at = "fill"
    <3>1. Moved(l, "validate") BY <1>0, <2>0, <2>1, <2>3, ZenonT(60)
    <3>2. \A k \in Launchers : lnch[k].at = "fill" => k = l
      BY <2>3, ZenonT(60) DEF LaunchInv, HoldersLock, Holding, FileOpen
    <3>3. secret = "short" BY <2>3, ZenonT(60) DEF SecretOK
    <3>4. \A k \in Launchers : lnch'[k].at # "fill" BY <3>1, <3>2, ZenonT(60) DEF Moved
    <3>5. secret' \in Launchers \cup {"none", "short"} BY <2>0, <2>3, ZenonT(60)
    <3>6. \A k \in Launchers : lnch'[k].cmd = "start" /\ lnch'[k].at \in Unborn => jvm'[k] = "none"
      BY <2>0, <2>1, <3>1, ZenonT(60) DEF Moved, SecretOK
    <3>7. SecretOK' BY <3>4, <3>5, <3>6, ZenonT(60) DEF SecretOK
    <3> QED BY <2>2, <3>3, <3>7, LaunchersAssumption, ZenonT(60) DEF SecretStays
  <2>4. CASE secret = "none" /\ secret' = "short" /\ Goes(l, "fill")
    <3>1. Moved(l, "fill") BY <1>0, <2>1, <2>4, ZenonT(60)
    <3>2. \A k \in Launchers : lnch'[k].cmd = "start" /\ lnch'[k].at \in Unborn => jvm'[k] = "none"
      BY <2>0, <2>1, <3>1 DEF Moved, SecretOK
    <3>3. SecretOK' BY <2>4, <3>2, ZenonT(60) DEF SecretOK
    <3> QED BY <2>2, <2>4, <3>3, LaunchersAssumption, ZenonT(60) DEF SecretStays
  <2>5. CASE secret' = secret /\ Goes(l, "validate")
    BY <1>g, <2>0, <2>1, <2>5, ZenonT(60)
  <2> QED BY <2>0, <2>3, <2>4, <2>5, ZenonT(60)
<1>5. CASE secret_open(l)
  <2>1. lnch[l].at \in Unborn /\ "spawn" \in Places \ {"fill"}
    BY <1>5 DEF secret_open, At, Unborn, Places
  <2>2. Goes(l, "spawn") \/ Returns(l, 1) BY <1>5, ZenonT(60) DEF secret_open
  <2> QED BY <1>5, <1>g, <1>r, <2>1, <2>2, ZenonT(60) DEF secret_open
<1>6. CASE db_runner_spawn(l)
  <2>1. CASE jvm' = jvm /\ Returns(l, 1) BY <1>6, <1>r, <2>1 DEF db_runner_spawn
  <2>2. CASE jvm' = [jvm EXCEPT ![l] = "starting"] /\ Goes(l, "record")
    <3>1. "record" \in Places \ Unborn BY ZenonT(60) DEF Places, Unborn
    <3>2. jvm[l] = "none" BY <1>6 DEF db_runner_spawn, At, SecretOK, Unborn
    <3>3. Moved(l, "record") BY <1>0, <2>2, <3>1
    <3> QED BY <1>6, <1>t, <2>2, <3>1, <3>2, <3>3, SecretSpawns, ZenonT(60) DEF db_runner_spawn
  <2> QED BY <1>6, <2>1, <2>2, ZenonT(60) DEF db_runner_spawn
<1>e. ASSUME secret' = secret, jvm' = [jvm EXCEPT ![l] = "dead"], Returns(l, 1)
      PROVE  SecretStays /\ JvmGoes
  <2>1. "done" \in Places \ Unborn BY DEF Places, Unborn
  <2>2. Moved(l, "done") BY <1>d, <1>e, ZenonT(60)
  <2> QED BY <1>e, <1>t, <2>1, <2>2, SecretSpawns, ZenonT(60)
<1>7. CASE record_pid(l)
  <2>1. CASE jvm' = jvm /\ Goes(l, "wait")
    <3>1. "wait" \in Places \ {"fill"} /\ "wait" \notin Unborn BY ZenonT(60) DEF Places, Unborn
    <3> QED BY <1>7, <1>g, <2>1, <3>1, ZenonT(60) DEF record_pid
  <2>2. CASE jvm' = [jvm EXCEPT ![l] = "dead"] /\ Returns(l, 1)
    BY <1>7, <1>e, <2>2, ZenonT(60) DEF record_pid
  <2> QED BY <1>7, <2>1, <2>2, ZenonT(60) DEF record_pid
<1>8. CASE db_runner_wait(l)
  <2>1. CASE jvm' = jvm /\ (Returns(l, 0) \/ Returns(l, 1)) BY <1>8, <1>r, <2>1, ZenonT(60) DEF db_runner_wait
  <2>2. CASE jvm' = [jvm EXCEPT ![l] = "dead"] /\ Returns(l, 1)
    BY <1>8, <1>e, <2>2, ZenonT(60) DEF db_runner_wait
  <2> QED BY <1>8, <2>1, <2>2, ZenonT(60) DEF db_runner_wait
<1>9. CASE StopLooks(l)
  <2>0. secret' = secret /\ "await" \in Places \ {"fill"} /\ "await" \notin Unborn
        /\ "clearing" \in Places \ {"fill"} /\ "clearing" \notin Unborn
    BY <1>9, ZenonT(60) DEF StopLooks, Places, Unborn
  <2>1. CASE jvm' = jvm /\ (Goes(l, "clearing") \/ Returns(l, 1))
    BY <1>g, <1>r, <2>0, <2>1, ZenonT(60)
  <2>2. CASE pidf # None /\ Goes(l, "await") /\ jvm' = Ended(pidf)
    <3>1. pidf \in Launchers BY <1>t, <2>2, ZenonT(60) DEF LaunchTypeOK
    <3>2. Moved(l, "await") BY <1>0, <2>0, <2>2
    <3>3. JvmGoes /\ Unspawned
      <4>1. CASE JvmAlive(pidf)
        <5>1. jvm' = [jvm EXCEPT ![pidf] = "stopping"] BY <2>2, <4>1, ZenonT(60) DEF Ended
        <5> QED BY <1>t, <3>1, <4>1, <5>1, JvmChanges, ZenonT(60)
      <4>2. CASE ~JvmAlive(pidf)
        <5>1. jvm' = jvm BY <1>t, <2>2, <4>2, ZenonT(60) DEF Ended, LaunchTypeOK
        <5> QED BY <5>1, JvmStill, ZenonT(60)
      <4> QED BY <4>1, <4>2
    <3> QED BY <2>0, <3>2, <3>3, SecretMoves, ZenonT(60)
  <2> QED BY <1>9, <2>1, <2>2, ZenonT(60) DEF StopLooks
<1>10. CASE StopWaits(l)
  <2>1. "clearing" \in Places \ {"fill"} /\ "clearing" \notin Unborn BY DEF Places, Unborn
  <2>2. Goes(l, "clearing") \/ Returns(l, 1) BY <1>10 DEF StopWaits
  <2> QED BY <1>10, <1>g, <1>r, <2>1, <2>2, ZenonT(60) DEF StopWaits
<1>11. CASE clear_pid(l)
  BY <1>11, <1>r, ZenonT(60) DEF clear_pid
<1>12. CASE JvmSteps(l)
  <2>1. JvmAlive(l) BY <1>12 DEF JvmSteps, JvmAlive
  <2> QED BY <1>12, <1>a, <2>1, ZenonT(60) DEF JvmSteps
<1>13. CASE JvmKilled(l)
  BY <1>13, <1>a, ZenonT(60) DEF JvmKilled
<1>14. CASE LauncherKilled(l)
  <2>1. "killed" \in Places \ {"fill"} /\ "killed" \notin Unborn BY DEF Places, Unborn
  <2> QED BY <1>14, <1>g, <2>1, ZenonT(60) DEF LauncherKilled
<1> QED
  BY <1>1, <1>2, <1>3, <1>4, <1>5, <1>6, <1>7, <1>8, <1>9, <1>10, <1>11, <1>12, <1>13, <1>14, ZenonT(60)
  DEF LauncherStep, LauncherFault, start, stop

(* A launcher or a JVM steps.  The only JVM that lives has the lock, so    *)
(* that nobody is connected to one once it has ended.                      *)
LEMMA LaunchersKeep ==
  ASSUME GateInv, LauncherSteps
  PROVE  GateInv'
<1>1. PICK l \in Launchers : LauncherStep(l) \/ LauncherFault(l) BY DEF LauncherSteps
<1>2. LaunchInv' /\ UNCHANGED sessVars /\ s' = s
  BY <1>1, LauncherKeeps DEF GateInv, LauncherSteps, sessVars
<1>3. SecretStays /\ JvmGoes BY <1>1, SecretSteps DEF GateInv
<1>4. SecretOK' /\ (secret \in Launchers => secret' = secret) BY <1>3 DEF SecretStays
<1>5. \A q \in Procs : Runner(q) BY ZenonT(60) DEF GateInv, ClientsOK
<1>6. \A q \in Procs : Runner(q)' BY <1>2, <1>3, <1>5, ZenonT(60) DEF Runner, JvmGoes
<1>7. CASE \E k \in Launchers : JvmAlive(k) /\ jvm'[k] = "dead"
  <2>1. PICK k \in Launchers : JvmAlive(k) /\ jvm'[k] = "dead" BY <1>7, ZenonT(60)
  <2>2. Lost BY <1>7, ZenonT(60) DEF LauncherSteps
  <2>3. PICK O : DbThins(O) /\ None \notin O BY <2>2, LostThins, ZenonT(60) DEF GateInv
  <2>4. late' \subseteq late BY <2>2, ZenonT(60) DEF Lost
  <2>5. \A q \in Procs : ~Connected(q)'
    <3> SUFFICES ASSUME NEW q \in Procs, Connected(q)' PROVE FALSE
      BY ZenonT(60)
    <3>1. s[q].runner \in Launchers /\ jvm'[s[q].runner] \in {"listening", "stopping"}
      BY <1>2, <1>5, ZenonT(60) DEF Connected, Runner
    <3>2. JvmAlive(s[q].runner) BY <1>3, <3>1, ZenonT(60) DEF JvmGoes
    <3>3. s[q].runner = k BY <2>1, <3>1, <3>2, ZenonT(60) DEF GateInv, LaunchInv, HoldersLock, Holding
    <3> QED BY <2>1, <3>1, <3>3, ZenonT(60)
  <2> HIDE DEF Connected
  <2> QED BY <1>2, <1>4, <1>6, <2>3, <2>4, <2>5, ServerKeeps, ZenonT(60)
<1>8. CASE ~\E k \in Launchers : JvmAlive(k) /\ jvm'[k] = "dead"
  <2>1. db' = db /\ late' = late BY <1>8 DEF LauncherSteps, dbVars
  <2>2. DbThins({}) BY <2>1, Unthinned, ZenonT(60) DEF GateInv
  <2>3. \A q \in Procs : Connected(q)' => Connected(q)
    BY <1>2, <1>3, <1>5, ZenonT(60) DEF Connected, Runner, JvmGoes, JvmAlive
  <2> HIDE DEF Connected
  <2> QED BY <1>2, <1>4, <1>6, <2>1, <2>2, <2>3, ServerKeeps, ZenonT(60)
<1> QED BY <1>7, <1>8, ZenonT(60)

(* It holds at the start, *)
LEMMA NewSessionIs ==
  ASSUME NEW name, NEW x, x = NewSession(name)
  PROVE  /\ DOMAIN x = Fields /\ x.k = 1 /\ x.i = 0 /\ x.attempt = 0 /\ x.req = [m |-> "NONE"]
         /\ x.pc \in {"gate", "lobby"} /\ x.view = None /\ x.token = None /\ x.runner = None
BY ZenonT(60) DEF NewSession, Fields

(* Nobody is signed in at first. *)
LEMMA GateStart ==
  ASSUME Init
  PROVE  GateInv
<1>1. PICK plan \in Plans :
        /\ lnch = [l \in Launchers |-> [cmd |-> plan.cmds[l], rc |-> 0,
                    at |-> IF plan.cmds[l] = "first" THEN "done" ELSE "begin"]]
        /\ jvm = [l \in Launchers |-> IF plan.cmds[l] = "first" THEN "listening" ELSE "none"]
        /\ \E first \in {l \in Launchers : plan.cmds[l] = "first"} \cup {None} :
             /\ (first = None) = (\A l \in Launchers : plan.cmds[l] # "first")
             /\ lock = first /\ pidf = first
             /\ secret = (IF first = None THEN "none" ELSE first)
        /\ s = [p \in Procs |-> NewSession(plan.names[p])]
        /\ todo = plan.todo /\ db = plan.db
  BY ZenonT(60) DEF Init
<1>2. /\ sem = [tab \in Tables |-> 1] /\ late = {} /\ probes = [p \in Procs |-> 0]
  BY ZenonT(60) DEF Init
<1>3. LaunchInv BY InitLaunch, ZenonT(60)
<1>4. SecretOK
  <2>1. plan.cmds \in [Launchers -> {"first", "start", "stop", "idle"}] BY PlansAssumption, ZenonT(60)
  <2>2. secret \in Launchers \cup {"none", "short"} BY <1>1, ZenonT(60)
  <2>3. \A l \in Launchers : lnch[l].at \in {"done", "begin"} /\ lnch[l].cmd = plan.cmds[l] BY <1>1, ZenonT(60)
  <2>4. \A l \in Launchers : plan.cmds[l] # "first" => jvm[l] = "none" BY <1>1, ZenonT(60)
  <2> QED BY <2>2, <2>3, <2>4, ZenonT(60) DEF SecretOK
<1>5. DOMAIN s = Procs BY <1>1, ZenonT(60)
<1>6. \A p \in Procs :
        /\ DOMAIN s[p] = Fields /\ s[p].k = 1 /\ s[p].i = 0 /\ s[p].attempt = 0 /\ s[p].req.m = "NONE"
        /\ s[p].pc \in {"gate", "lobby"} /\ s[p].view = None /\ s[p].token = None /\ s[p].runner = None
  <2> SUFFICES ASSUME NEW p \in Procs
               PROVE  /\ DOMAIN s[p] = Fields /\ s[p].k = 1 /\ s[p].i = 0 /\ s[p].attempt = 0
                      /\ s[p].req.m = "NONE"
                      /\ s[p].pc \in {"gate", "lobby"} /\ s[p].view = None /\ s[p].token = None
                      /\ s[p].runner = None
    OBVIOUS
  <2>1. PICK x : x = NewSession(plan.names[p]) BY ZenonT(60)
  <2>2. s[p] = x BY <1>1, <2>1, ZenonT(60)
  <2>3. /\ DOMAIN x = Fields /\ x.k = 1 /\ x.i = 0 /\ x.attempt = 0 /\ x.req = [m |-> "NONE"]
        /\ x.pc \in {"gate", "lobby"} /\ x.view = None /\ x.token = None /\ x.runner = None
    BY <2>1, NewSessionIs, ZenonT(60)
  <2> QED BY <2>2, <2>3
<1>7. SessionsOK BY <1>5, <1>6 DEF SessionsOK, SessionOK, Pcs
<1>8. TurnsOK
  <2>1. \A p \in Procs, tab \in Tables : ~Holds(p, tab) BY <1>6, ZenonT(60) DEF Holds, Inserting
  <2> QED BY <1>2, <2>1 DEF TurnsOK
<1>9. RowsOK
  <2>1. db = plan.db BY <1>1, ZenonT(60)
  <2> QED BY <2>1, RowsStored, ZenonT(60)
<1>10. \A tab \in Tables : \A r \in RowsOf(tab) : r.by = None
  BY <1>1, StoredAssumption, ZenonT(60) DEF RowsOf
<1>11. RoundsOK
  <2>1. todo \in [Procs -> Seq(Requests)] BY <1>1, CallsAssumption, ZenonT(60)
  <2>2. \A p \in Procs : Ongoing(p) BY <1>6, ZenonT(60) DEF Ongoing
  <2>3. /\ todo = plan.todo /\ db = plan.db
        /\ \A q \in Procs : s[q].req.m = "NONE"
    BY <1>1, <1>6, ZenonT(60)
  <2>4. ASSUME NEW p \in Procs, NEW i \in DOMAIN todo[p] PROVE Pending(p, i)
    BY <2>3, RoundsPlanned, ZenonT(60)
  <2> QED BY <2>1, <2>2, <2>4, ZenonT(60) DEF RoundsOK
<1>12. AheadOK BY <1>6 DEF AheadOK, Ahead
<1>13. OwnersOK BY <1>2, <1>10 DEF OwnersOK
<1>14. ClientsOK
  <2>1. ASSUME NEW p \in Procs PROVE Runner(p) /\ Token(p) /\ Probe(p) /\ View(p)
    <3>1. Runner(p) BY <1>6 DEF Runner
    <3>2. Token(p) BY <1>6, ZenonT(60) DEF Token
    <3>3. Probe(p) BY <1>2, ConfAssumption DEF Probe
    <3>4. View(p) BY <1>6, ZenonT(60) DEF View
    <3> QED BY <3>1, <3>2, <3>3, <3>4
  <2> QED BY <1>2, <2>1 DEF ClientsOK
<1> QED BY <1>3, <1>4, <1>7, <1>8, <1>9, <1>11, <1>12, <1>13, <1>14, ZenonT(60) DEF GateInv

-----------------------------------------------------------------------------
(* The theorems on finite sets are needed from here on only. *)
INSTANCE FiniteSetTheorems
INSTANCE WellFoundedInduction

(* A finite set of numbers has a largest one: a smallest subset without    *)
(* one would have a smaller subset without one.                            *)
LEMMA LargestExists ==
  ASSUME NEW S, IsFiniteSet(S), S \subseteq Nat, S # {}
  PROVE  \E x \in S : \A y \in S : x >= y
<1> DEFINE HasMax(U) == \E x \in U : \A y \in U : x >= y
           B == {U \in SUBSET S : U # {} /\ ~HasMax(U)}
<1>1. SUFFICES ASSUME B # {} PROVE FALSE
  BY ZenonT(60)
<1>2. IsWellFoundedOn(StrictSubsetOrdering(S), SUBSET S)
  BY FS_StrictSubsetOrderingWellFounded, FS_FiniteSubsetsOfFinite, ZenonT(60)
<1>3. B \subseteq SUBSET S
  BY ZenonT(60)
<1> HIDE DEF HasMax
<1>4. PICK U \in B : \A W \in B : ~(<<W, U>> \in StrictSubsetOrdering(S))
  <2> HIDE DEF B
  <2> QED BY <1>1, <1>2, <1>3, WFMin, ZenonT(60)
<1>5. PICK x \in U : TRUE
  BY ZenonT(60)
<1>6. U \ {x} \notin B
  BY <1>4, <1>5, ZenonT(60) DEF StrictSubsetOrdering
<1>7. CASE U = {x}
  BY <1>5, <1>7, U \in B DEF HasMax
<1>8. CASE U \ {x} # {}
  <2>1. HasMax(U \ {x})
    BY <1>6, <1>8, ZenonT(60)
  <2>2. PICK m \in U \ {x} : \A y \in U \ {x} : m >= y
    BY <2>1, ZenonT(60) DEF HasMax
  <2>3. U \subseteq Nat
    BY ZenonT(60)
  <2>4. CASE m >= x
    <3>1. HasMax(U) BY <2>2, <2>4, ZenonT(60) DEF HasMax
    <3> QED BY <3>1, ZenonT(60)
  <2>5. CASE x >= m
    <3>1. \A y \in U : x >= y BY <2>2, <2>3, <2>5, <1>5, SMTT(60)
    <3>2. HasMax(U) BY <1>5, <3>1, ZenonT(60) DEF HasMax
    <3> QED BY <3>2
  <2> QED BY <2>2, <2>3, <2>4, <2>5, <1>5, SMTT(60)
<1> QED BY <1>5, <1>7, <1>8, ZenonT(60)

(* So Max finds it. *)
LEMMA MaxIs ==
  ASSUME NEW S, IsFiniteSet(S), S \subseteq Nat, S # {}
  PROVE  Max(S) \in S /\ \A y \in S : Max(S) >= y
BY LargestExists, ZenonT(60) DEF Max

(* A column of a finite table is finite and not larger than the table. *)
LEMMA Column ==
  ASSUME NEW R, IsFiniteSet(R), NEW f
  PROVE  LET C == {r[f] : r \in R}
         IN IsFiniteSet(C) /\ Cardinality(C) <= Cardinality(R)
<1> DEFINE C == {r[f] : r \in R}
           g == [r \in R |-> r[f]]
<1>1. g \in Surjection(R, C)
  BY ZenonT(60) DEF Surjection
<1>2. IsFiniteSet(C) /\ Cardinality(C) <= Cardinality(R)
  <2> HIDE DEF C, g
  <2> QED BY <1>1, FS_Surjection, ZenonT(60)
<1> QED BY <1>2, ZenonT(60)

(* The next id is larger than every id there is. *)
LEMMA MaxKeeps ==
  ASSUME GateInv, NEW p \in Procs, select_max(p)
  PROVE  GateInv'
<1> DEFINE tab == TableOf(s[p].req)
           ids == {r.id : r \in Visible(Txn(p), tab)}
           n == db_next_id(tab, Txn(p))
           pc == IF tab = "user" THEN "exists" ELSE "insert"
<1>0. UNCHANGED <<launchVars, todo, sem, probes, db, late>> /\ s[p].pc = "max" /\ Answers(p, "max")
  BY DEF select_max, Answers
<1>1. SessionOK(p) /\ SessionsOK
  BY OfSession
<1>2. Moves(p, {"next", "pc"}) /\ s'[p].next = n /\ s'[p].pc = pc
  <2>1. s' = [s EXCEPT ![p].next = n, ![p].pc = pc] BY DEF select_max
  <2> HIDE DEF n, pc
  <2> QED BY <1>1, <2>1, NextPcIs, ZenonT(60)
<1>3. s'[p].req = s[p].req /\ s'[p].loaded = s[p].loaded /\ s'[p].view = s[p].view
      /\ s'[p].k = s[p].k /\ s'[p].i = s[p].i /\ s'[p].attempt = s[p].attempt
  BY <1>2, ZenonT(60) DEF Moves, Fields
<1>4. s[p].req.m \in {"REGISTER", "ROUND"} /\ s[p].view = None
  BY <1>0, <1>1, ZenonT(60) DEF SessionOK
<1>5. /\ s[p].req.m = "REGISTER" => tab = "user" /\ pc = "exists"
      /\ s[p].req.m = "ROUND" => tab = "history" /\ pc = "insert"
  BY <1>4, ZenonT(60) DEF TableOf
<1>6. n \in Nat /\ \A r \in RowsOf(tab) : r.id < n
  <2>1. tab \in Tables /\ Visible(Txn(p), tab) = RowsOf(tab)
    <3>1. "max" \in Statements \ {"insert", "commit"} BY ZenonT(60) DEF Statements
    <3> QED BY <1>0, <3>1, ReadsAll, ZenonT(60)
  <2>2. IsFiniteSet(RowsOf(tab)) /\ \A r \in RowsOf(tab) : r.id \in Nat
    BY <2>1, ZenonT(60) DEF GateInv, RowsOK
  <2>3. ids = {r.id : r \in RowsOf(tab)} BY <2>1, ZenonT(60)
  <2>4. IsFiniteSet(ids)
    <3>1. IsFiniteSet({r["id"] : r \in RowsOf(tab)}) BY <2>2, Column, ZenonT(60)
    <3> QED BY <2>3, <3>1, ZenonT(60)
  <2>5. ids \subseteq Nat BY <2>2, <2>3, ZenonT(60)
  <2>6. n = IF ids = {} THEN 1 ELSE Max(ids) + 1 BY ZenonT(60) DEF db_next_id
  <2>7. \A r \in RowsOf(tab) : r.id \in ids BY <2>3, ZenonT(60)
  <2> HIDE DEF tab, ids, n
  <2>8. CASE ids = {} BY <2>6, <2>7, <2>8, ZenonT(60)
  <2>9. CASE ids # {}
    <3>1. Max(ids) \in ids /\ \A y \in ids : Max(ids) >= y BY <2>4, <2>5, <2>9, MaxIs, ZenonT(60)
    <3>2. Max(ids) \in Nat BY <2>5, <3>1, ZenonT(60)
    <3>3. n = Max(ids) + 1 BY <2>6, <2>9, ZenonT(60)
    <3>4. \A y \in ids : y < n BY <2>5, <3>1, <3>2, <3>3, SMTT(60)
    <3> QED BY <2>7, <3>2, <3>3, <3>4, SMTT(60)
  <2> QED BY <2>8, <2>9, ZenonT(60)
<1>7. Ahead(p)'
  <2>1. RowsOf(tab)' = RowsOf(tab) /\ TableOf(s[p].req)' = tab BY <1>0, <1>3, ZenonT(60) DEF RowsOf, TableOf
  <2>2. \A r \in RowsOf(TableOf(s[p].req))' : r.id < n
    BY <1>3, <1>6, <2>1, <1>0, ZenonT(60) DEF RowsOf, TableOf
  <2>3. ~(s'[p].pc = "insert" /\ s'[p].req.m = "REGISTER") BY <1>2, <1>3, <1>4, <1>5, ZenonT(60)
  <2> HIDE DEF n, tab, pc
  <2> QED BY <1>2, <1>6, <2>2, <2>3, ZenonT(60) DEF Ahead
<1>p. s'[p].pc \in {"exists", "insert"} BY <1>2, ZenonT(60)
<1>8. SessionOK(p)'
  <2>1. s'[p].pc = "exists" => s'[p].req.m = "REGISTER" BY <1>2, <1>3, <1>4, <1>5, ZenonT(60)
  <2>2. s[p].req.m = "REGISTER" => s[p].loaded BY <1>0, <1>1, ZenonT(60) DEF SessionOK
  <2>3. DOMAIN s'[p] = Fields BY <1>2, ZenonT(60) DEF Moves
  <2> HIDE DEF n, tab, pc
  <2> QED BY <1>1, <1>3, <1>4, <1>p, <2>1, <2>2, <2>3, ZenonT(60) DEF SessionOK, Pcs, Statements
<1>9. View(p)' BY <1>p, ZenonT(60) DEF View
<1>10. Moves(p, {"pc", "next", "view"}) BY <1>2, ZenonT(60) DEF Moves
<1>11. s[p].pc \in Statements \ {"commit"} /\ s'[p].pc \in Statements \ {"commit"}
  BY <1>0, <1>p, ZenonT(60) DEF Statements
<1> QED BY <1>0, <1>7, <1>8, <1>9, <1>10, <1>11, SameKeeps, ZenonT(60)

(* What a player's history is read from. *)
LEMMA MineIs ==
  ASSUME GateInv, NEW p \in Procs
  PROVE  LET D == {r.data : r \in Mine(p)}
         IN /\ IsFiniteSet(Mine(p)) /\ IsFiniteSet(D) /\ D \subseteq Nat
            /\ Cardinality(D) <= Cardinality(Mine(p))
<1> DEFINE D == {r.data : r \in Mine(p)}
<1>1. "history" \in Tables BY ZenonT(60) DEF Tables
<1>2. IsFiniteSet(RowsOf("history")) /\ \A r \in RowsOf("history") : r.data \in Nat
  BY <1>1, ZenonT(60) DEF GateInv, RowsOK
<1>3. Mine(p) \subseteq RowsOf("history") BY ZenonT(60) DEF Mine, Visible
<1>4. IsFiniteSet(Mine(p)) BY <1>2, <1>3, FS_Subset, ZenonT(60)
<1>5. LET C == {r["data"] : r \in Mine(p)} IN IsFiniteSet(C) /\ Cardinality(C) <= Cardinality(Mine(p))
  BY <1>4, Column, ZenonT(60)
<1>6. D \subseteq Nat BY <1>2, <1>3, ZenonT(60)
<1> QED BY <1>4, <1>5, <1>6, ZenonT(60)

(* Then the best score: no round that was read is better. *)
LEMMA BestKeeps ==
  ASSUME GateInv, NEW p \in Procs, history_db_read_player(p), s[p].pc = "best"
  PROVE  GateInv'
<1> DEFINE D == {r.data : r \in Mine(p)}
<1>0. /\ UNCHANGED <<launchVars, todo, dbVars, sem, probes>> /\ s[p].pc \in Statements \ {"commit"}
      /\ Connected(p)
      /\ s' = [s EXCEPT ![p].pc = "games", ![p].view.best = Max(D)]
  BY ZenonT(60) DEF history_db_read_player, Statements, Answers
<1>1. SessionOK(p) /\ SessionsOK /\ View(p) /\ DOMAIN s[p] = Fields /\ DOMAIN s = Procs
  BY OfSession, ZenonT(60) DEF SessionOK, SessionsOK
<1>2. DOMAIN s[p].view = {"status", "recent", "best", "games"} /\ s[p].view.recent \subseteq D
  BY <1>0, <1>1 DEF View
<1>3. IsFiniteSet(D) /\ D \subseteq Nat BY MineIs, ZenonT(60)
<1>4. \A x \in s[p].view.recent : x <= Max(D)
  <2> HIDE DEF D
  <2>1. CASE D = {} BY <1>2, <2>1, ZenonT(60)
  <2>2. CASE D # {}
    <3>1. Max(D) \in D /\ \A y \in D : Max(D) >= y BY <1>3, <2>2, MaxIs, ZenonT(60)
    <3>2. Max(D) \in Nat BY <1>3, <3>1, ZenonT(60)
    <3>3. \A y \in D : y <= Max(D) BY <1>3, <3>1, <3>2
    <3> QED BY <1>2, <3>3, ZenonT(60)
  <2> QED BY <2>1, <2>2, ZenonT(60)
<1> DEFINE m == Max(D)
<1>5. PICK v : v = [s[p].view EXCEPT !.best = m] BY ZenonT(60)
<1>6. v.recent = s[p].view.recent /\ v.best = m /\ DOMAIN v = {"status", "recent", "best", "games"}
  <2> HIDE DEF m
  <2> QED BY <1>2, <1>5, ZenonT(60)
<1>7. s' = [s EXCEPT ![p].pc = "games", ![p].view = v]
  <2> HIDE DEF m
  <2>1. s' = [s EXCEPT ![p].pc = "games", ![p].view.best = m] BY <1>0, ZenonT(60) DEF m
  <2> QED BY <1>1, <1>5, <2>1, ZenonT(60) DEF Fields
<1>8. Moves(p, {"pc", "view"}) /\ s'[p].pc = "games" /\ s'[p].view = v
  BY <1>1, <1>7, PcViewIs, ZenonT(60)
<1>9. s'[p].req = s[p].req /\ s'[p].loaded = s[p].loaded /\ s'[p].k = s[p].k /\ s'[p].name = s[p].name
      /\ s'[p].i = s[p].i /\ s'[p].attempt = s[p].attempt /\ DOMAIN s'[p] = Fields
  BY <1>8, ZenonT(60) DEF Moves, Fields
<1>10. s[p].req.m = "HISTORY" BY <1>1, ZenonT(60) DEF SessionOK
<1>11. SessionOK(p)'
  BY <1>1, <1>8, <1>9, <1>10, ZenonT(60) DEF SessionOK, Pcs, Statements
<1>12. Ahead(p)' BY <1>8, ZenonT(60) DEF Ahead
<1>13. Mine(p)' = Mine(p)
  BY <1>0, <1>9, MineStays, ZenonT(60) DEF dbVars
<1>14. View(p)'
  <2>1. v.recent \subseteq {r.data : r \in Mine(p)'} BY <1>2, <1>6, <1>13, ZenonT(60)
  <2>2. \A x \in v.recent : x <= v.best BY <1>4, <1>6, ZenonT(60)
  <2> QED BY <1>6, <1>8, <2>1, <2>2, ZenonT(60) DEF View
<1>15. Moves(p, {"pc", "next", "view"}) BY <1>8, ZenonT(60) DEF Moves
<1>16. s'[p].pc \in Statements \ {"commit"} BY <1>8, ZenonT(60) DEF Statements
<1>17. UNCHANGED <<launchVars, todo, sem, probes, db, late>> /\ s[p].pc \in Statements \ {"commit"}
  BY <1>0, ZenonT(60) DEF dbVars
<1> QED BY <1>11, <1>12, <1>14, <1>15, <1>16, <1>17, SameKeeps, ZenonT(60)

(* Then the games: no fewer than the rounds that were read. *)
LEMMA GamesKeeps ==
  ASSUME GateInv, NEW p \in Procs, history_db_read_player(p), s[p].pc = "games"
  PROVE  GateInv'
<1> DEFINE D == {r.data : r \in Mine(p)}
           n == Cardinality(Mine(p))
<1>0. /\ UNCHANGED <<launchVars, todo, dbVars>> /\ s[p].pc \in Statements
      /\ Connected(p) /\ Done(p, [s[p] EXCEPT !.pc = "lobby", !.view.games = n], 0)
  BY ZenonT(60) DEF history_db_read_player, Statements, Answers
<1>1. SessionOK(p) /\ SessionsOK /\ View(p) /\ DOMAIN s[p] = Fields
  BY OfSession, ZenonT(60) DEF SessionOK
<1>2. /\ DOMAIN s[p].view = {"status", "recent", "best", "games"} /\ s[p].view.recent \subseteq D
      /\ \A x \in s[p].view.recent : x <= s[p].view.best
  BY <1>0, <1>1, ZenonT(60) DEF View
<1>3. Cardinality(s[p].view.recent) <= n
  <2>1. IsFiniteSet(Mine(p)) /\ IsFiniteSet(D) /\ Cardinality(D) <= n BY MineIs, ZenonT(60)
  <2> HIDE DEF D, n
  <2>2. Cardinality(s[p].view.recent) <= Cardinality(D) /\ IsFiniteSet(s[p].view.recent)
    BY <1>2, <2>1, FS_Subset, ZenonT(60)
  <2>3. Cardinality(s[p].view.recent) \in Nat /\ Cardinality(D) \in Nat /\ n \in Nat
    BY <2>1, <2>2, FS_CardinalityType, ZenonT(60) DEF n
  <2> QED BY <2>1, <2>2, <2>3, SMTT(60)
<1> HIDE DEF n
<1>4. PICK v : v = [s[p].view EXCEPT !.games = n] BY ZenonT(60)
<1>5. v.recent = s[p].view.recent /\ v.best = s[p].view.best /\ v.games = n
  BY <1>2, <1>4, ZenonT(60)
<1>6. PICK x : x = [s[p] EXCEPT !.pc = "lobby", !.view = v] OBVIOUS
<1>7. Sets(s[p], x, {"pc", "id", "view"}) /\ x.pc = "lobby" /\ x.view = v
  BY <1>1, <1>6, ZenonT(60) DEF Sets, Fields
<1>8. AddsUp(x.view) BY <1>2, <1>3, <1>5, <1>7, ZenonT(60) DEF AddsUp
<1>9. [s[p] EXCEPT !.pc = "lobby", !.view.games = n] = x BY <1>1, <1>4, <1>6, ZenonT(60) DEF Fields
<1>10. Done(p, x, 0) BY <1>0, <1>9, ZenonT(60)
<1>11. DbThins({Txn(p)}) /\ late' = late /\ UNCHANGED launchVars /\ todo' = todo
  <2>1. DbThins({}) BY <1>0, Unthinned, ZenonT(60) DEF GateInv, dbVars
  <2> QED BY <1>0, <2>1, ThinsMore, ZenonT(60) DEF dbVars
<1> QED BY <1>0, <1>7, <1>8, <1>10, <1>11, DoneKeeps, ZenonT(60)

(* history_db_read_player keeps GateInv. *)
LEMMA HistoryKeeps ==
  ASSUME GateInv, NEW p \in Procs, history_db_read_player(p)
  PROVE  GateInv'
<1>1. s[p].pc \in {"recent", "best", "games"} BY ZenonT(60) DEF history_db_read_player, Answers
<1> QED BY <1>1, RecentKeeps, BestKeeps, GamesKeeps, ZenonT(60)

(* Every step of a session keeps GateInv. *)
LEMMA SessionStep ==
  ASSUME GateInv, NEW p \in Procs, Session(p) \/ Killed(p)
  PROVE  GateInv'
BY GateKeeps, LobbyKeeps, TurnKeeps, OpenKeeps, ExecKeeps, LoginKeeps, MaxKeeps, ExistsKeeps, InsertKeeps,
   CommitKeeps, TokenKeeps, HistoryKeeps, KilledKeeps, ZenonT(60)
DEF Session

(* Every step of the account server keeps GateInv. *)
LEMMA GateStep ==
  ASSUME GateInv, [Next]_vars
  PROVE  GateInv'
<1>1. CASE UNCHANGED vars
  <2>1. UNCHANGED sessVars /\ UNCHANGED launchVars /\ UNCHANGED dbVars BY <1>1, ZenonT(60) DEF vars
  <2>2. s' = s /\ jvm' = jvm /\ secret' = secret /\ db' = db /\ late' = late
    BY <2>1, ZenonT(60) DEF sessVars, launchVars, dbVars
  <2>3. LaunchInv' /\ SecretOK' BY <2>1, LaunchStill, ZenonT(60) DEF GateInv
  <2>4. DbThins({}) BY <2>2, Unthinned, ZenonT(60) DEF GateInv
  <2>5. \A q \in Procs : Runner(q)' BY <2>2, ZenonT(60) DEF Runner, GateInv, ClientsOK
  <2>6. \A q \in Procs : Connected(q)' => Connected(q) BY <2>2 DEF Connected
  <2> HIDE DEF Connected
  <2> QED BY <2>1, <2>2, <2>3, <2>4, <2>5, <2>6, ServerKeeps, ZenonT(60)
<1> QED BY <1>1, LaunchersKeep, LateKeeps, SessionStep, ZenonT(60) DEF Next

(* and so it always does. *)
LEMMA GateAlways == Spec => []GateInv
<1>1. Init => GateInv BY GateStart, ZenonT(60)
<1>2. GateInv /\ [Next]_vars => GateInv' BY GateStep
<1> QED BY <1>1, <1>2, PTL DEF Spec

-----------------------------------------------------------------------------
(* Theorems. *)

(* For any number of launchers, sessions and faults: at most one JVM works *)
(* on the database directory, and `tetrisdb stop` reports success only     *)
(* when none is left (db_runner_lock, the flock a JVM inherits).           *)
THEOREM DirectoryAlwaysOwned == Spec => DirectoryOwned
<1>1. Init => LaunchInv BY InitLaunch
<1>2. LaunchInv /\ [Next]_vars => LaunchInv'
  <2> SUFFICES ASSUME LaunchInv, [Next]_vars PROVE LaunchInv'
    OBVIOUS
  <2>1. CASE UNCHANGED launchVars
    BY <2>1, ZenonT(60)
    DEF launchVars, LaunchInv, LaunchTypeOK, HoldersLock, StopsOnly, Holding, FileOpen, JvmAlive
  <2> QED BY <2>1, OthersStutter, LauncherKeeps, ZenonT(60)
<1>3. LaunchInv => OneJvm
  <2> SUFFICES ASSUME LaunchInv PROVE OneJvm
    BY ZenonT(60)
  <2> DEFINE S == {l \in Launchers : JvmAlive(l)}
  <2>1. \A l, k \in S : l = k
    BY ZenonT(60) DEF LaunchInv, HoldersLock, Holding
  <2>2. CASE S = {}
    <3>1. Cardinality(S) = 0 BY <2>2, FS_EmptySet, ZenonT(60)
    <3> QED BY <3>1 DEF OneJvm
  <2>3. CASE S # {}
    <3>1. PICK x \in S : TRUE BY <2>3, ZenonT(60)
    <3>2. Cardinality(S) = 1
      <4>1. S = {x} BY <2>1, <3>1
      <4> QED BY <4>1, FS_Singleton, ZenonT(60)
    <3> QED BY <3>2 DEF OneJvm
  <2> QED BY <2>2, <2>3, ZenonT(60)
<1>4. LaunchInv /\ [Next]_vars => StopsTruly
  <2> SUFFICES ASSUME LaunchInv, [Next]_vars, NEW l \in Launchers,
                      lnch[l].at # "done", lnch'[l].at = "done", lnch[l].cmd = "stop", lnch'[l].rc = 0
               PROVE  \A k \in Launchers : ~JvmAlive(k)
    BY ZenonT(60) DEF StopsTruly
  <2>1. PICK m \in Launchers : LauncherStep(m) \/ LauncherFault(m)
    BY OthersStutter, ZenonT(60) DEF launchVars
  <2>2. clear_pid(l)
    <3> USE DEF LaunchInv
    <3>1. m = l
      <4>1. \A at \in Places : Goes(m, at) => Moved(m, at) BY GoesMoves, ZenonT(60)
      <4>2. \A rc \in {0, 1} : Returns(m, rc) => Moved(m, "done") BY ReturnsMoves, ZenonT(60)
      <4>3. lnch' = lnch \/ \E at \in Places : Moved(m, at)
        BY <2>1, <4>1, <4>2, ZenonT(60)
        DEF Places, LauncherStep, LauncherFault, start, stop, db_runner_lock, acquire_lock, db_ensure_table,
            auth_secret_provision, secret_open, db_runner_spawn, record_pid, db_runner_wait,
            StopLooks, StopWaits, clear_pid, JvmSteps, JvmKilled, LauncherKilled
      <4> QED BY <4>3, ZenonT(60) DEF Moved
    <3>2. ~start(l)
      BY ZenonT(60) DEF start, At, db_runner_lock, acquire_lock, db_ensure_table,
             auth_secret_provision, secret_open, db_runner_spawn, record_pid, db_runner_wait
    <3>3. \A at \in Places : Goes(l, at) => lnch'[l].at = at BY GoesMoves, ZenonT(60) DEF Moved
    <3>4. ~Returns(l, 1) BY ReturnsMoves, SMTT(60)
    <3>5. ~JvmSteps(l) /\ ~LauncherFault(l)
      BY <3>3, ZenonT(60) DEF JvmSteps, LauncherFault, JvmKilled, LauncherKilled, Places
    <3> QED
      BY <2>1, <3>1, <3>2, <3>3, <3>4, <3>5, ZenonT(60) DEF LauncherStep, stop, StopLooks, StopWaits, Places
  <2>3. FileOpen(l) /\ jvm[l] = "none"
    BY <2>2, ZenonT(60) DEF clear_pid, At, FileOpen, LaunchInv, StopsOnly
  <2> QED BY <2>3, ZenonT(60) DEF LaunchInv, HoldersLock, Holding, JvmAlive
<1> QED
  BY <1>1, <1>2, <1>3, <1>4, PTL DEF Spec, DirectoryOwned

(* For any number of sessions, launchers, requests and faults: no two      *)
(* accounts have one name or one id, and one call of history_db_insert     *)
(* leaves at most one row, under an id of its own, however often it        *)
(* retries (register_txn, history_insert_txn).  A round that makes the     *)
(* call twice is outside this theorem.                                     *)
THEOREM RowsAlwaysUnique == Spec => []RowsUnique
<1>1. GateInv => RowsUnique
  BY ZenonT(60) DEF GateInv, RowsOK, RowsUnique, Committed
<1> QED BY <1>1, GateAlways, PTL

(* Whoever holds a token has a committed account of that id and name, and  *)
(* the token verifies with the secret on disk (token_handler); and no      *)
(* connection is told more about accounts than auth_max_attempts times     *)
(* (auth_retry_handler).                                                   *)
THEOREM GateAlwaysHolds == Spec => []GateHolds
<1>1. GateInv => GateHolds
  <2> SUFFICES ASSUME GateInv, NEW p \in Procs
               PROVE  /\ s[p].token # None =>
                           /\ \E r \in Committed("user") : r.id = s[p].token.sub /\ r.name = s[p].token.name
                           /\ check_signature(s[p].token)
                      /\ probes[p] <= MaxAttempts
    BY ZenonT(60) DEF GateHolds
  <2>1. Token(p) /\ Probe(p) BY OfSession, ZenonT(60)
  <2> QED BY <2>1 DEF Token, Probe, Account, check_signature
<1> QED BY <1>1, GateAlways, PTL

(* A history that is shown adds up, although its figures come from three   *)
(* queries between which rounds are recorded (history_db_read_player).     *)
THEOREM ViewsAlwaysConsistent == Spec => []ViewConsistent
<1>1. GateInv => ViewConsistent
  <2> SUFFICES ASSUME GateInv, NEW p \in Procs, s[p].pc = "lobby", s[p].view # None, s[p].view.status = "OK"
               PROVE  /\ Cardinality(s[p].view.recent) <= s[p].view.games
                      /\ \A r \in s[p].view.recent : r <= s[p].view.best
    BY ZenonT(60) DEF ViewConsistent
  <2>1. View(p) BY OfSession
  <2> QED BY <2>1, ZenonT(60) DEF View
<1> QED BY <1>1, GateAlways, PTL

=============================================================================
