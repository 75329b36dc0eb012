# A TLA+ model of corestack

This directory is a formal model of the corestack repository: the tetriSH game
service, the ballotbox voting service, the libraries they share (`core/`) and
the SimpleDB engine they store into (`db/`).  Modules are TLA+; the small
instances are checked with TLC; the theorems are proved with TLAPS.
`PROJECT.json` lists every run, every property, the source lines behind each
definition, the hazards the properties are aimed at, and the findings.

## 1. The system

| Part | Code | What it does | Model |
|---|---|---|---|
| room table | `tetrisd/room.c`, `adminmsg.h` | who is connected, which rooms exist, who is in them, scoreboards, rounds; touched by the admin thread only | `Rooms`, `Ranking`, `RoomsProofs` |
| game server | `tetrisd/tetrisd.c`, `tetrisd/session.c` | admin loop; one session process per client; a stream socketpair between them | `GameServer` |
| game rules | `libtetrisbrain/*` | board, pieces, scoring, hold, garbage | `Tetrisbrain` |
| tetrisd lifecycle, control plane | `tetrisd/tetrisd.c`, `tetrisctl/*`, `dspawn2.c` | listener, fork, control requests, SIGHUP, shutdown; starting and stopping | `Tetrisd` |
| accounts, round history | `libtetrisauth/*`, `tetrisd/history.c`, `libtetrisdb/socket/*` | registration, sign-in, tokens, a row per round, over SQL on a socket | `Accounts`, `AccountsProofs`, `GateProofs` |
| database launcher | `core/src/tetrisdb/*` | one database process per data directory | `Tetrisdb`, `AccountsProofs`, `GateProofs` |
| logging | `libtetrisutil/logmsg.c`, `tetrislogd/*`, `libtetrisdb/pipe/*` | datagram log sink with drop accounting, mirrored into a database | `Logging` |
| page locks | `db/.../storage/LockManager.java` | two-phase locking with deadlock search | `LockManager`, `EngineProofs` |
| storage and recovery | `db/.../storage`, `db/.../transaction` | buffer pool, log, rollback, recovery | `Storage`, `TransactionalStore`, `EngineProofs`, `StatementProofs`, `StorageProofs` |
| voting brain | `libballotbrain/*` | elections, ballots, receipts, nonces in transactions | `BallotBox`, `BallotProofs` |
| voting daemon, clients | `ballotd/*`, `libballotclient/*`, `ballotctl`, `ballotu` | admin thread, workers, operator, voter's session | `Ballotd`, `BallotProofs`, `ReceiptProofs` |

tetrisd is one process with three threads.  The listener accepts a client,
forks a session process and tells the admin thread through a pipe.  The session
speaks to its client and runs the client's board; whatever concerns other
players goes to the admin as an `AdminMsg` over the session's socketpair, and
the admin answers the same way.  The admin thread polls all sockets and is the
only one to touch the room table.  The admin's ends of the socketpairs do not
block and the sessions' ends do, so a client that stops reading costs only its
own session.  The control thread takes an operator's connection and hands it to
the admin thread.  ballotd has the same shape around a brain that speaks to the
database.  A session signs its player in, and records finished rounds, with SQL
transactions on a connection of its own; the database is a JVM that one
launcher at a time may start.  Every process logs by datagrams to tetrislogd.

How the modules compose: `GameServer` extends `Rooms`; `Ballotd` extends
`BallotBox`; `Accounts` extends `Tetrisdb`; `Storage` extends `LockManager` and
instantiates `TransactionalStore`.

## 2. The modules

### Ranking

The loops of `room_push_standings` and `room_check_round_end` that walk the
members of a room: the bounded insertion into the scoreboard array and the
choice of the winner.  `Walk(st)` is one iteration for one member.  Members
come in any order, because removal swaps.  `Rooms` uses the result of these
loops (a set of rows) and not the array.

### Rooms

State: `clients` (`g_clients`, by socket), `rooms` (`g_rooms`, by slot),
`wedged` (`g_wedged`) and the ghost variable `torn`, the open sessions whose
stream has lost part of a message.  Each handler of `room.c` is an operator on
a record `[clients, rooms, out]`; `out` lists the messages it sends in the
order of the code's calls.  The actions are the admin thread's uses of the
table: `Register`, `Route` (any message from any live session at any time),
`drop_session`, `client_take_wedged` and `Flush`.  Each action also picks which
sockets are full, so any message may be refused.  Names and log lines are left
out; `score` stands for the pair (score, lines).

A JOIN may name any integer, as `path_ids` reads it with `%d`.  `room_create`
takes any number but 0, `room_find` only positive ones, so a room made under a
negative number is in the table and can never be reached: its maker leaves it
and stays listed, and the slot is never freed.  `InUse` and `Members` are about
the rooms that can be found.

### GameServer

`Rooms` with its environment: the sessions, both directions of each socketpair,
and the admin loop cut where the code can be overtaken.  `stage` says where the
loop is: `poll`, `serve` (one session of the batch `poll()` returned at a
time), `flush`, `drain`.  A session connects, passes commands on, drops a
piece, ticks, reads one admin message, exits, or blocks for good.  The board is
its score and whether it has topped out; a tick or a drop may clear lines (and
earn garbage) and may end the game.  `rows` counts history rows asked for since
the board was last started.  The list of sessions to cut off has `WEDGED_MAX`
places, fewer than there are sessions, as in the code.

### Tetrisbrain

One board: the set of its filled cells, the falling piece, queue, hold slot and
counters of `GameState`.  Operators carry the names of the C functions; the
actions are `Tick`, `Input(m)` and `RecvGarbage`, in any order.  A seed is the
sequence of kinds `rng_piece` deals for it, so that the 32-bit hash stays
outside.  `locked` and `raised` are ghosts: the kinds that were locked, and the
garbage rows that came.

### Tetrisd

The daemon as a process.  `sock` and `pidfile` are the two files; `daemon[p]`
holds where each thread is, the pipes between them, the ports the configuration,
the admin thread and the listener each believe in, and the sessions in the poll
set; `sess[s]` holds what a session process inherited, because nothing is
opened close-on-exec and an end of file comes only when the last holder closes.
Operators run `start`, `stop`, `kick`, `reload` and edit the configuration,
with the probes and waits of `tetrisctl` and `dspawn2` as separate steps.
A session is at the login screen before it is in its loop (`SignIn`); there it
waits for its client alone and does not see its admin's end close.  Signals, a
failing thread, a failing write to the notify pipe, a stuck session and an
operator who loses patience are faults drawn from a budget.

### Tetrisdb and Accounts

`Tetrisdb` is the launcher, step by step: the tables, the signing secret, the
lock, the JVM that inherits it, the pid.  `Accounts` adds session processes
that run a list of requests: each SQL statement is a step, and may be granted,
wait, be told to abort, fail, or be answered after the client's deadline (then
the server finishes on its own, `LateEnds`).  The named semaphores `sem`
survive the processes.  Statements lock pages to the end of the transaction; a
full table grows by a page nobody else has locked, which is why the semaphore
is needed at all.  The database is external to these modules and modelled from
its locking rules; `Storage` models its inside.  A request to record a round is
one call of `history_db_insert`, known by its number.

### Logging

Threads inside `log_vsend` (`snd`), the process's connection and drop counts
(`glb`), the socket, the daemon's loop (`d`) and the mirror (`m`): ring, worker
thread, child process.  A record is its level and the number of drops it
reports.  `d.lost` is a ghost: claims that went with a closed socket or were
refused as too large.

### LockManager

`LockManager.java`, one action per pass through a synchronized block: an
`acquire` is granted, starts to wait, or is abandoned because the search found
a circle; a waiter retries; a sleeping waiter may be interrupted; `release`
gives one page back early (as `HeapFile` does for a page without room) and
`releaseAll` ends the transaction.  `granted` is a ghost: what each transaction
was told it holds.

### Storage and TransactionalStore

`Storage` adds to the locks what they protect: statements that fetch a page,
edit it in place and mark it dirty, the pool with eviction, the log, commit
(flush, force, commit record, release, acknowledge) and abort (discard), and a
kill between any two steps.  `TransactionalStore` is what a client may rely on:
transactions take effect whole and in isolation; a crash loses those that were
not asked to commit.  Of a transaction caught inside its commit a part may
stay: that is what the engine does, because the statistics transaction of the
next start throws the log away before `recover()` reads it, and it is less than
`SocketRunner.java:100-103` promises (run `storage_crash`).
The refinement mapping takes the committed tuples to be the before-images in
the pool and, for a page that is not cached, the file.

### BallotBox and Ballotd

`BallotBox`: the store (elections, roll, ballots, owners, nonces) and the one
call the admin thread is in (`job`); a ballot's transaction is a step per
statement.  `Ballotd`: main, listener, control thread, admin thread, workers
with the descriptors they inherited, the voter's session in `ballotu`, and the
operator's requests.  A receipt hash is the pair it is derived from.

## 3. What the runs show

| Run | Instance | Properties | Result |
|---|---|---|---|
| `parts` | four parts, each on its own: boards of 4 by 7 with what three seeds deal, two of them played | `CellsAccounted` `PiecesKept` `LandsWhereShown` `PiecesLand` | holds |
| | rooms of up to 5 members, 3 rows, scores 0..2 | `GenuineTop` `WinnerTopsStandings` | holds |
| | 3 transactions, 3 pages, 2 lock requests each | `GrantsHold` `NoDeadlock` `EveryoneFinishes` | holds |
| | 2 daemons, 2 sessions, 2 ports, four plans of one operator | `Reachable` `CleanExit` `Stops` `OrphansEnd` | holds |
| `rooms` | 3 sessions, one of which may stop draining, 2 slots, joins of 0, 1, -1 and -2, 2 rows | `Membership` `OneOwner` `RoundNotStuck` `RoomsFresh` | holds |
| `server` | 2 sessions, two rounds | `SessionsInformed` `SameBoards` | holds |
| `server_faults` | 3 clients, 2 slots, an exit, a blocked session, sockets of 2 messages, a list of one session to cut off | `PollsClean` `EveryoneServed` `RoundsEnd` | holds |
| `server_rows` | 2 sessions, one round | `OneRowPerRound` | violated |
| `server_torn` | 2 sessions, one round, a list of one session to cut off | `TornClosed` | violated |
| `storage` | 2 transactions, 2 pages of one tuple, a pool of one page, one kill | `UncommittedHeld` `RecoveryRight` `KeepsPromise` | holds |
| `storage_crash` | the same | `CrashUndone` | violated |
| `ballot` | one voter with two connections, six elections' beginnings, one fault | `OneLiveBallot` `ReceiptsHold` `CleanExit` `BallotsFrozen` | holds |
| `ballot_live` | the same with a table for one worker | `OperatorServed` `Stops` | holds |
| `control_ports` | tetrisd as in `parts` | `PortsAgree` | violated |
| `clients` | 2 session processes, 3 launchers, nine plans | `RowsUnique` `GateHolds` `ViewConsistent` `DirectoryOwned` `Answered` | holds |
| | 2 sending threads, daemons one after another, four plans | `DropsAccounted` `MirrorAccounted` `LogdStops` | holds |

`KeepsPromise` is the refinement: `Storage` implements `TransactionalStore`.
The others are invariants, action properties (`BallotsFrozen`, `DirectoryOwned`,
`LandsWhereShown`) and liveness properties (`EveryoneServed`, `RoundsEnd`,
`EveryoneFinishes`, `OperatorServed`, `Stops`, `OrphansEnd`, `Answered`,
`LogdStops`, `PiecesLand`).

`parts` and `clients` put models side by side that share nothing: a behaviour is
one of the first or of the second, and the others stand still in it.

Four runs show places where the code does something else than a comment says.

* `server_rows`: a state message the admin wrote before it read `GAMEOVER` puts
  a finished session back into play.  It tops out again at once: a second
  `GAMEOVER` and a second history row, where `history.h:19` says "Records one
  finished round."
* `server_torn`: `mark_wedged` (`room.c:208`) notes a session whose stream lost
  part of a message only while its list of 16 has room, and a broadcast reaches
  up to 254 members.  A session beyond the list stays connected, where the
  comment at `room.c:226` lets "the admin close it".  What holds is
  `PollsClean`: whoever is on the list is closed before the admin sleeps, and no
  standings are left unpublished, although closing marks them again.  The other
  properties of `GameServer` exempt torn sessions.
* `control_ports`: the handler of SIGHUP rereads the configuration and so writes
  `g_port`, which is said to be "never written again" (`tetrisd.c:36`).  Between
  the start of the listener and that of the admin thread this leaves the two
  with different ports, and `g_active_port` is not "the port actually bound
  right now".
* `storage_crash`: `SocketRunner.java:102` says that "the log's recovery pass
  undoes exactly those" transactions whose pages a crash left on disk without a
  commit record.  `computeStatistics`, a few lines earlier, starts a transaction;
  `preAppend` (`LogFile.java:130`) then truncates a log that has not been
  recovered, so `recover()` finds nothing to undo.  `RecoveryRight` says what
  `recover()` would find in the log at any moment, and `KeepsPromise` what does
  hold: a crash takes away no acknowledged commit and leaves nothing of a
  transaction that was not being committed.

### Other disagreements met while modelling

No run is kept for these; the models behave as the code does.

* `JOIN /room/-2` creates room -2, which `room_find` never finds: its maker
  cannot be taken out again and the slot is lost.  `rooms` has such joins, and
  the properties hold of the rooms that can be found.
* When the largest election id cannot be read, `bb_alloc_id`
  (`ballotbrain.c:53`) hands out the first one, used or not.  Two elections then
  share an id, and opening the second opens a closed first again.
  `BallotsFrozen` holds all the same, because it says that ballots change only
  while their id is open; it does not say that a closed id stays closed.
* The handshake and the sign-in of a session (`session.c:648`, `:675`) wait for
  the client without a timeout and without looking at the admin's end.  A
  session at the login screen outlives its daemon for as long as its client
  likes, with the daemon's control socket in its hands.  `OrphansEnd` says that
  sessions of a dead daemon end unless one is there, or stuck.
* The second `GAMEOVER` of `server_rows` can reach the admin after the next
  `START` and counts its player out of the new round.
* The last score reported is remembered across rounds, so equal figures in the
  next round are not reported.
* `room.c:661` says garbage goes to "one random other member"; the code sends
  it to the eligible member with the highest score, and so does `Victim`.
* ADR 0002 says the registration semaphore is recreated at start and the
  signing secret is linked into place.  The code does neither: a process killed
  while it registers leaves the semaphore down (everybody is then refused after
  a timeout), and a launcher killed while it writes leaves a short secret
  (sign-ins are then refused).
* `libtetrisauth.md:66` counts only 401 and 404 against the budget of attempts;
  the code counts every refusal but a malformed request.
* A registration or a vote whose commit is answered too late is reported as
  failed although it happened.  A log statement whose answer is late is sent
  again and may be stored twice.
* `control_plane.c` probes the control socket before it unlinks it, so that a
  second daemon does not take the file of a live one.  Between `bind` and
  `listen` a live socket refuses the probe as a stale one does: two operators
  who start at the same moment can leave a daemon without a control socket.
  `Reachable` is checked for one operator at a time.

### Bounds

* `Rooms` needs three sessions for a promotion to be able to pick the wrong
  member after a swap, and for a round in which one member has finished, one
  plays and one leaves.  `MaxJoins` bounds the joins one room sees, and so the
  ids it hands out.  `Bounded` keeps one room that can be found beside at most
  one that cannot, and scores and full sockets to the states without the latter.
* `GameServer` uses two or three sessions and a handful of commands each
  (`MaxCmds`); queues are bounded by `UP_CAP` (the session's side blocks) and
  `DOWN_CAP` (a message more is refused).
  `server_faults` has two divisions of the requests: one, two and three among
  three clients, one more than there are slots; and three each for two clients.
* Four columns are enough for every kind to lie and stand, for a piece to clear
  two rows at once and for garbage to bury a piece; seven rows let a board top
  out within a game.  The kinds of a seed bound a game.
* Three transactions and three pages give every circle of three and an upgrade
  circle with a bystander.  `MaxCalls` bounds the requests of a transaction.
  Two transactions over two pages of one tuple, with room for one page in the
  pool, give eviction of a page whose transaction is open, a file that grows
  under two writers, and a commit overtaken by another.  The first page is
  empty or holds a tuple from before, so that the page one insert has added can
  be filled by the other before it is locked.
* `Ballotd`, `Tetrisd`, `Accounts` and `Logging` take their bounds from plans:
  what each client and operator will ask for, and how much may fail.  Each plan
  is chosen so that a hazard happens in it: a voter who comes back while the
  first request is still served, a daemon started while another stops, two
  registrations of one name over a full page, a child that dies with a
  statement in hand.  One fault at each possible step, two where the code
  handles the second differently.

Deadlock is checked for `Rooms`.  The other models may stop: all members have
been walked, all plans are used up, all transactions are done.

### Fairness

* `AdminFair`: tetrisd's admin loop takes a step when it has one to take.  It is
  a single thread that only waits in `poll()`; that its ends of the socketpairs
  do not block is part of the model (`BlockingEnds`), not of the assumption.
* Weak fairness of reading the socket for every session that is not blocked,
  and of a tick that tops out; when they are enabled is written out (`HasMail`,
  `CanTopOut`), which TLC checks faster than `ENABLED`.  That a board left alone fills up is what
  `PiecesLand` shows on the small board.
* In `parts`, of the tick: `session_main` fires it from a deadline, whatever
  else it reads.  Players are not fair.
* In `Tetrisd`, of the daemon's threads and of a session in its loop that reads
  its end of file, and nothing of a session at the login screen.
* In `Ballotd`, of the daemon's own threads; strong fairness of
  the two things the ballot admin's `poll()` loop looks at in every pass.
  Nothing is assumed of clients and operators.
* In `Accounts`, a session process runs on, and the database finishes what it
  was asked, late or not.  Launchers and killers are not fair.
* In `Logging`, the daemon, its worker thread and the senders run on.
* A waiting transaction retries (`Thread.sleep` in a loop) and a transaction
  that runs eventually ends.

## 4. What is proved

The theorems hold for every value of the constants: any number of sessions,
rooms, transactions, pages, launchers, voters, requests and faults.  The proofs
are in eight modules, each of which extends the module it is about.

| Module | Theorems | About |
|---|---|---|
| `RoomsProofs` | `TablesCorrect` `OneOwnerAlways` `UniquePlayersAlways` `RoundNotStuckAlways` `RoomsAlwaysFresh` | the room table |
| `EngineProofs` | `GrantsAlwaysHold` `NeverDeadlocked` | the page locks; the invariant of `Storage` and the steps up to an edit |
| `StatementProofs` | (lemmas) | commit, abort, edits and evictions keep that invariant |
| `StorageProofs` | `UncommittedAlwaysHeld` `RecoveryAlwaysRight` `StorageImplements` | storage and recovery; the refinement of `TransactionalStore` |
| `BallotProofs` | `BallotsAlwaysFrozen` | the voting brain's tables and transaction |
| `ReceiptProofs` | `OneLiveBallotAlways` `ReceiptsAlwaysHold` `ExitsAlwaysClean` | voters, workers and what they were shown; how the daemon ends |
| `AccountsProofs` | (lemmas) | the launchers; what a statement does to the tables and to its session |
| `GateProofs` | `DirectoryAlwaysOwned` `RowsAlwaysUnique` `GateAlwaysHolds` `ViewsAlwaysConsistent` | one JVM per directory; accounts, sign-in, histories |

### Rooms

`TablesCorrect` is `Spec => [](TypeOK /\ Membership /\ OneOwner /\
UniquePlayers /\ RoundNotStuck)`, whatever integers the joins name; the next
three theorems are its parts.  A room that cannot be found has no `Members`, and
what is left of it in the table is shown to disturb no other (`StrayKeeps`,
`AdmitStray`).  The inductive invariant (`Inv`)
is the conjunction of those properties for an arbitrary pair of tables, so each
handler is shown once, as a function from tables to tables, to keep it: the
joins rest on `FreeSlotFree` and `SmallestFreeIdFree` (the room created is
new), departures on `DelMember` (swap-removal takes out exactly one member) and
`PromoteEffect`, rounds on `CheckRoundEnd`.  Which sockets refuse a message
never matters to the tables.  `Membership` alone is not inductive: promotion
looks the new owner up in the member list, ids are unique only because all are
below `next_player_id`, and a round may end only because the membership views
agree.

`RoomsAlwaysFresh` needs that invariant as well: a handler brings its own room
up to date (`PushFresh`, `DepartureFresh`, `FlushFresh`), and the other rooms
stay fresh because no session is in two rooms (`OneRoom`, `UntouchedFresh`).

### Page locks

From `LockAssumption` (the value for "no page" is not a page).  The invariant
`LockInv` adds to `GrantsHold` that the table lists exactly what was granted
(`Recorded`) and that an exclusive entry has one holder (`Alone`).
`NoDeadlock` says that no non-empty set of transactions exists in which each
waits for a member of the set.  A grant adds a holder that is not waiting, a
release and an abandon only remove edges (`FewerEdges`), and a transaction that
starts to wait has searched everything it can reach (`WaitNoDeadlock`).

### Storage, recovery, refinement

From `LockAssumption` and `StorageAssumption` (pages are numbered from 0, the
pool and a page have room for something).  `EngineInv` is what `UncommittedHeld`,
`RecoveryRight` and the refinement have in common, and none of the three is
inductive.  Its parts:

* `LockInv` again: a transaction of `Storage` drives the lock manager, and an
  edit is safe only because its page is held exclusively until the end;
* `Session`, per transaction: what holds where it is (which page it has locked,
  that the page object in hand still shows what the pool shows, who has the
  monitor);
* `CachedPage`, per page in the pool: a page that differs from its before-image
  is locked by the transaction that changed it, and the file differs from the
  before-image only while that transaction flushes;
* `LogRight`: the last update record of each page decides what `recover()`
  makes of it (`Settles`), that record agrees with the page, and a record is in
  the log before the page is in the file;
* `OnePage`, `Counted`, `NewTuple`: a tuple is on one page, and the tuple an
  insert is about to add is new;
* `Effects`, `History`: what a transaction has added and removed is the
  difference between its pages and their before-images, and what is committed
  is what committed transactions have left.

`StorageImplements` proves `Spec => KeepsPromise`: the initial states map to
initial states, and each action of `Storage` maps to a step of
`TransactionalStore` (an edit in place to its insert or delete, `discard` to
its abort, a kill to its crash) or to a stutter.  A commit takes effect at the
end of the flush, before the commit record is written (`CompleteSeen`).  The
crash of `TransactionalStore` leaves open what stays of a transaction in the
middle of its commit, so the theorem says nothing of those (`CrashUndone`).

### Voting

From `BallotAssumption`, `BallotdAssumption` and `StartsAssumption` (the store
the daemon finds at its start is a sound one: what an earlier run has left).
`BrainInv` has two parts: the store is `Sound`, and `TxnFollows`, that the view
of the open transaction is the store with the statements made so far, which
holds because nobody else writes during a call.  So a ballot is shown sound
once, for the four statements together (`RecordedSound`), and a failure
between them changes nothing.  `OneLiveBallot` follows by counting
(`PairedOff`).  `BallotsFrozen` is an action property, proved from `BrainInv`:
the gates of a ballot's transaction see its election open, and nobody else
writes before it commits.  It holds with two elections under one id as well.

`ReceiptInv` adds the peers.  For each voter (`Linked`): the session remembers
only what some answer said and the store has since kept (`Remembers`); the
worker it is attached to works for that voter only, and the request in its
hands, the job being run and the answer on its way are of the request the voter
waits for (`Attached`).  The store only grows in what a voter may have been
told (`Grows`), so an answer that arrives late is still true.

`CleanExit` rests on `ExitInv`: a worker that was started and not refused is in
the admin's table or in the pipe to it (`InHand`), an operator's request that
waits is in the control queue or being worked on (`OneRequest`), and the
threads end in the order main joins them, each having emptied what it reads
(`Joined`).

### Launchers, accounts, histories

From `LaunchersAssumption` and `PlansAssumption` (the special values are not
launchers; at most one launcher has started the database before), and for the
gate `ConfAssumption`, `CallsAssumption` (a number names one call of
`history_db_insert`, so the theorem is about one call and not about a round,
for which the call may be made twice: `server_rows`) and
`StoredAssumption` (the rows an earlier run has left are committed and have
distinct keys).  `LaunchInv`: whoever has the lock file open has the lock, and
a launcher that stops the database has no JVM of its own.

`GateInv` is what `RowsUnique`, `GateHolds` and `ViewConsistent` need together.
That ids and names are unique is a matter of who holds the semaphore:
`TurnsOK` (one holder per table), `AheadOK` (the id that holder has computed is
larger than every id in the table, committed or not, and the name it has looked
up is still free) and `OwnersOK` (an uncommitted row is of a transaction that
is committing or that was given up; a statement answered after the client's
deadline can only end such a transaction, so that a late end takes no row away
from a session that relies on it).  `ClientsOK` says what a session was told:
a token's account is committed and the token is signed with the secret in the
file, a client has spent an attempt for each thing it was told, and the rounds
of a history being read are still there.

### Only model-checked

* Liveness (`PiecesLand`, `EveryoneServed`, `RoundsEnd`, `EveryoneFinishes`,
  `OperatorServed`, `Stops`, `OrphansEnd`, `Answered`, `LogdStops`): beyond the
  prover.
* `CellsAccounted`, `PiecesKept`, `LandsWhereShown`, `GenuineTop`,
  `WinnerTopsStandings`: they are about loops, which the models write as
  recursive operators or folds, and need an induction over data.
* The invariants of `GameServer`, `Tetrisd` and `Logging`: not attempted; each
  needs an invariant over the queues and pipes between the threads.

## 5. Not modelled

* Bytes of the socket streams: a message is written and read whole; `torn`
  stands for the rest.
* The htttp parser and serialiser and the configuration parser: sequential
  functions on bytes without state between calls, which a model could only
  repeat.
* The handshake and frames of libtetrissh: two parties in lock step, resting on
  a cryptographic library.  Hashes, signatures and encodings are constructors
  in the models.
* The game client, screens, widgets, log tail and text interfaces:
  presentation, or a copy of the last frame.
* The shell and the vendored coursework programs, apart from `dspawn2`.
* SimpleDB's B+ tree, which the SQL front end does not use for the services'
  tables, and its operators and optimizer, which run inside one transaction.
* A recycled client slot keeps the roster of its previous occupant; the model,
  which keeps clients by socket, shows it empty.  Two log daemons at once on one
  path.  Reuse of process ids.  The shutdown hook of the JVM, which would flush
  the pages of a session still open five seconds after it was told to end.  A
  second copy of a row in the log's mirror, whose table is a set of ids.
