------------------------------ MODULE Tetrisdb ------------------------------
(***************************************************************************)
(* bin/tetrisdb: `start` provisions the tables and the signing secret and  *)
(* launches the database's JVM, `stop` ends it.  What keeps two JVMs off   *)
(* one directory is an flock that a JVM inherits from the launcher that    *)
(* spawned it.  A JVM is named after that launcher, and so are its pid and *)
(* its share of the lock file.                                             *)
(***************************************************************************)
EXTENDS Integers, Sequences, FiniteSets

CONSTANTS Launchers, None

ASSUME LaunchersAssumption == None \notin Launchers /\ "none" \notin Launchers /\ "short" \notin Launchers

VARIABLES
  lnch,    \* each launcher: its command, where it is, what it returned
  jvm,     \* the JVM each start has spawned
  lock,    \* whose open file holds the flock, if its holders are still there
  pidf,    \* the pid in the lock file
  tables,  \* the tables: nothing, data file without catalog line, declared
  secret,  \* auth/jwt_secret: nothing, cut short, or the launcher that wrote it
  faults   \* things that may still go wrong

launchVars == <<lnch, jvm, lock, pidf, tables, secret>>

JvmAlive(l) == jvm[l] \in {"starting", "listening", "stopping"}

(* A launcher holds the lock file from the moment it has the lock until it *)
(* returns or is killed; its JVM inherits the file.                        *)
FileOpen(l) == lnch[l].at \in {"clear", "provision", "declare", "provisionSecret", "fill",
                               "validate", "spawn", "record", "wait", "clearing"}

Holding(l) == FileOpen(l) \/ JvmAlive(l)

Held == lock # None /\ Holding(lock)

At(l, cmd, at) == lnch[l].cmd = cmd /\ lnch[l].at = at

Goes(l, at) == lnch' = [lnch EXCEPT ![l].at = at]

Returns(l, rc) == lnch' = [lnch EXCEPT ![l].at = "done", ![l].rc = rc]

-----------------------------------------------------------------------------
(* start *)

(* As if the pid in the file decided, and not the lock. *)
db_runner_lock_byPid(l) ==
  /\ At(l, "start", "begin")
  /\ IF pidf # None /\ JvmAlive(pidf) THEN Returns(l, 1) /\ UNCHANGED lock
                                      ELSE Goes(l, "clear") /\ lock' = l
  /\ UNCHANGED <<jvm, pidf, tables, secret, faults>>

db_runner_lock(l) ==
  /\ At(l, "start", "begin")
  /\ IF Held THEN Returns(l, 1) /\ UNCHANGED lock
             ELSE Goes(l, "clear") /\ lock' = l
  /\ UNCHANGED <<jvm, pidf, tables, secret, faults>>

acquire_lock(l) ==
  /\ At(l, "start", "clear")
  /\ pidf' = None
  /\ Goes(l, "provision")
  /\ UNCHANGED <<jvm, lock, tables, secret, faults>>

(* The data file is created, or there; then the catalog's line is added,   *)
(* or there.                                                               *)
db_ensure_table(l) ==
  /\ \/ /\ At(l, "start", "provision")
        /\ tables' = IF tables = "none" THEN "file" ELSE tables
        /\ Goes(l, "declare")
     \/ /\ At(l, "start", "declare")
        /\ tables' = "declared"
        /\ Goes(l, "provisionSecret")
  /\ UNCHANGED <<jvm, lock, pidf, secret, faults>>

(* A secret is created empty and then filled; one that is there is left as *)
(* it is.                                                                  *)
auth_secret_provision(l) ==
  /\ \/ /\ At(l, "start", "provisionSecret")
        /\ IF secret = "none" THEN secret' = "short" /\ Goes(l, "fill")
                              ELSE Goes(l, "validate") /\ UNCHANGED secret
     \/ At(l, "start", "fill") /\ secret' = l /\ Goes(l, "validate")
  /\ UNCHANGED <<jvm, lock, pidf, tables, faults>>

secret_open(l) ==
  /\ At(l, "start", "validate")
  /\ IF secret \in Launchers THEN Goes(l, "spawn") ELSE Returns(l, 1)
  /\ UNCHANGED <<jvm, lock, pidf, tables, secret, faults>>

db_runner_spawn(l) ==
  /\ At(l, "start", "spawn")
  /\ \/ jvm' = [jvm EXCEPT ![l] = "starting"] /\ Goes(l, "record") /\ UNCHANGED faults
     \/ faults > 0 /\ faults' = faults - 1 /\ Returns(l, 1) /\ UNCHANGED jvm
  /\ UNCHANGED <<lock, pidf, tables, secret>>

(* A JVM whose pid cannot be written down is ended (stop_failed_child). *)
record_pid(l) ==
  /\ At(l, "start", "record")
  /\ \/ pidf' = l /\ Goes(l, "wait") /\ UNCHANGED <<jvm, faults>>
     \/ /\ faults > 0 /\ faults' = faults - 1
        /\ pidf' = None /\ jvm' = [jvm EXCEPT ![l] = "dead"] /\ Returns(l, 1)
  /\ UNCHANGED <<lock, tables, secret>>

(* The JVM listens, or has ended, or takes too long and is ended           *)
(* (stop_failed_child); the pid stays in the file.                         *)
db_runner_wait(l) ==
  /\ At(l, "start", "wait")
  /\ \/ jvm[l] = "listening" /\ Returns(l, 0) /\ UNCHANGED <<jvm, faults>>
     \/ ~JvmAlive(l) /\ Returns(l, 1) /\ UNCHANGED <<jvm, faults>>
     \/ /\ jvm[l] = "starting" /\ faults > 0 /\ faults' = faults - 1
        /\ jvm' = [jvm EXCEPT ![l] = "dead"] /\ Returns(l, 1)
  /\ UNCHANGED <<lock, pidf, tables, secret>>

start(l) ==
  \/ db_runner_lock(l) \/ acquire_lock(l) \/ db_ensure_table(l) \/ auth_secret_provision(l)
  \/ secret_open(l) \/ db_runner_spawn(l) \/ record_pid(l) \/ db_runner_wait(l)

-----------------------------------------------------------------------------
(* stop *)

(* A child that has ended still takes a signal until its parent has waited *)
(* for it.                                                                 *)
Signallable(k) == JvmAlive(k) \/ (jvm[k] = "dead" /\ lnch[k].at = "wait")

Ended(k) == [jvm EXCEPT ![k] = IF JvmAlive(k) THEN "stopping" ELSE @]

(* Nobody has the lock: nothing runs.  Otherwise the pid in the file is    *)
(* told to end.                                                            *)
StopLooks(l) ==
  /\ At(l, "stop", "begin")
  /\ \/ ~Held /\ lock' = l /\ Goes(l, "clearing") /\ UNCHANGED jvm
     \/ /\ Held /\ UNCHANGED lock
        /\ IF pidf = None \/ ~Signallable(pidf)
           THEN Returns(l, 1) /\ UNCHANGED jvm
           ELSE Goes(l, "await") /\ jvm' = Ended(pidf)
  /\ UNCHANGED <<pidf, tables, secret, faults>>

(* It polls for the lock, and gives up in the end. *)
StopWaits(l) ==
  /\ At(l, "stop", "await")
  /\ \/ ~Held /\ lock' = l /\ Goes(l, "clearing") /\ UNCHANGED faults
     \/ /\ Held /\ faults > 0 /\ faults' = faults - 1
        /\ Returns(l, 1) /\ UNCHANGED lock
  /\ UNCHANGED <<jvm, pidf, tables, secret>>

clear_pid(l) ==
  /\ At(l, "stop", "clearing")
  /\ pidf' = None /\ Returns(l, 0)
  /\ UNCHANGED <<jvm, lock, tables, secret, faults>>

stop(l) == StopLooks(l) \/ StopWaits(l) \/ clear_pid(l)

-----------------------------------------------------------------------------
(* The JVM, and what may happen to it and to a launcher. *)

JvmSteps(l) ==
  /\ \/ jvm[l] = "starting" /\ jvm' = [jvm EXCEPT ![l] = "listening"]
     \/ jvm[l] = "stopping" /\ jvm' = [jvm EXCEPT ![l] = "dead"]
  /\ UNCHANGED <<lnch, lock, pidf, tables, secret, faults>>

JvmKilled(l) ==
  /\ JvmAlive(l) /\ faults > 0 /\ faults' = faults - 1
  /\ jvm' = [jvm EXCEPT ![l] = "dead"]
  /\ UNCHANGED <<lnch, lock, pidf, tables, secret>>

LauncherKilled(l) ==
  /\ FileOpen(l) \/ At(l, "stop", "await")
  /\ faults > 0 /\ faults' = faults - 1
  /\ Goes(l, "killed")
  /\ UNCHANGED <<jvm, lock, pidf, tables, secret>>

LauncherStep(l) == start(l) \/ stop(l) \/ JvmSteps(l)

LauncherFault(l) == JvmKilled(l) \/ LauncherKilled(l)

Listening == {l \in Launchers : jvm[l] = "listening"}

-----------------------------------------------------------------------------
(* Properties. *)

OneJvm == Cardinality({l \in Launchers : JvmAlive(l)}) <= 1

StopsTruly ==
  \A l \in Launchers :
    lnch[l].at # "done" /\ lnch'[l].at = "done" /\ lnch[l].cmd = "stop" /\ lnch'[l].rc = 0
      => \A k \in Launchers : ~JvmAlive(k)

(* At most one JVM works on the directory, although launchers return, are  *)
(* killed between any two steps and run at the same time; and `stop`       *)
(* reports success only when none is left, so that whoever starts one next *)
(* finds the files at rest.                                                *)
DirectoryOwned == [][OneJvm' /\ StopsTruly]_launchVars
=============================================================================
