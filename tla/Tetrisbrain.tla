----------------------------- MODULE Tetrisbrain -----------------------------
(***************************************************************************)
(* The rules of the game (tetriSH/src/libtetrisbrain): one board, driven   *)
(* by gravity ticks, by its player's moves and by garbage that another     *)
(* player's clears push in from below.  A board is the set of its filled   *)
(* cells <<column, row>>, row 0 on top; the colour of a cell is left out.  *)
(* rng_piece is a function of seed and counter and nothing else, so a seed *)
(* is the sequence of kinds it stands for.                                 *)
(***************************************************************************)
EXTENDS Integers, Sequences, FiniteSetsExt, Bags

CONSTANTS
  BOARD_WIDTH, BOARD_HEIGHT, BOARD_BUFFER_HEIGHT,
  SPAWN_X,           \* the column a piece's box starts at
  GARBAGE_HOLE_COL,
  GRAVITY_TICKS,
  QUEUE_LEN,         \* entries of next[]
  Games              \* seed, whether the player moves, garbage to come

VARIABLES
  g,       \* the GameState
  game,    \* what is left of the game's plan
  locked,  \* the kinds that were locked into the board, as a bag
  raised   \* garbage rows that came

brainVars == <<g, game, locked, raised>>

None == "none"
OnBoard == (0..(BOARD_WIDTH - 1)) \X (0..(BOARD_HEIGHT - 1))

-----------------------------------------------------------------------------
(* piece.c: the boxes, as rows of the North rotation. *)
PIECES ==
  [I |-> <<<<0, 0, 0, 0>>, <<1, 1, 1, 1>>, <<0, 0, 0, 0>>, <<0, 0, 0, 0>>>>,
   O |-> <<<<1, 1>>, <<1, 1>>>>,
   T |-> <<<<0, 1, 0>>, <<1, 1, 1>>, <<0, 0, 0>>>>,
   S |-> <<<<0, 1, 1>>, <<1, 1, 0>>, <<0, 0, 0>>>>,
   Z |-> <<<<1, 1, 0>>, <<0, 1, 1>>, <<0, 0, 0>>>>,
   J |-> <<<<1, 0, 0>>, <<1, 1, 1>>, <<0, 0, 0>>>>,
   L |-> <<<<0, 0, 1>>, <<1, 1, 1>>, <<0, 0, 0>>>>]

piece_size(kind) == IF kind = None THEN 0 ELSE Len(PIECES[kind])

(* Each rotation in the table is the one before it turned clockwise. *)
piece_filled(kind, rot, r, c) ==
  LET n == piece_size(kind)
      at == CASE rot = 0 -> <<r, c>>
              [] rot = 1 -> <<n - 1 - c, r>>
              [] rot = 2 -> <<n - 1 - r, n - 1 - c>>
              [] OTHER -> <<c, n - 1 - r>>
  IN  PIECES[kind][at[1] + 1][at[2] + 1] = 1

(* The board cells a piece covers. *)
CellsOf(p) ==
  LET box == 0..(piece_size(p.kind) - 1)
  IN  {<<p.x + a[2], p.y + a[1]>> : a \in {b \in box \X box : piece_filled(p.kind, p.rot, b[1], b[2])}}

rng_piece(seed, counter) == seed[counter + 1]

-----------------------------------------------------------------------------
(* board.c *)

board_collides(board, p) == ~(CellsOf(p) \subseteq OnBoard \ board)

Spawned(kind) ==
  [kind |-> kind, rot |-> 0, x |-> SPAWN_X, y |-> BOARD_BUFFER_HEIGHT - piece_size(kind)]

(* A piece that does not fit where pieces appear ends the game; every      *)
(* caller makes that of a failed spawn.                                    *)
board_spawn_piece(s, kind) ==
  IF board_collides(s.board, Spawned(kind)) THEN [s EXCEPT !.game_over = TRUE]
  ELSE [s EXCEPT !.active = Spawned(kind), !.tick_count = 0]

board_lock(s, p) ==
  [s EXCEPT !.board = @ \cup (CellsOf(p) \cap OnBoard), !.hold_used = FALSE]

FullRows(board) ==
  {y \in 0..(BOARD_HEIGHT - 1) : \A x \in 0..(BOARD_WIDTH - 1) : <<x, y>> \in board}

(* As if the row that comes down in a cleared one's place were not looked at. *)
board_clear_lines_skips(board) ==
  LET full == {y \in FullRows(board) : y + 1 \notin FullRows(board)}
  IN  {<<a[1], a[2] + Cardinality({y \in full : y > a[2]})>> :
         a \in {b \in board : b[2] \notin full}}

(* Full rows go; each other row falls by the number of full rows below it. *)
board_clear_lines(board) ==
  LET full == FullRows(board)
  IN  {<<a[1], a[2] + Cardinality({y \in full : y > a[2]})>> :
         a \in {b \in board : b[2] \notin full}}

(* The stack rises, and the falling piece as far as it must.  The game is  *)
(* over if the stack, or the piece, does not fit any more.                 *)
board_add_garbage(s, sent) ==
  LET rows == Min({sent, BOARD_HEIGHT})
      topped == \E a \in s.board : a[2] < rows
      lifted == {<<a[1], a[2] - rows>> : a \in {b \in s.board : b[2] >= rows}}
      new == {a \in OnBoard : a[2] >= BOARD_HEIGHT - rows /\ a[1] # GARBAGE_HOLE_COL}
      board == lifted \cup new
      top == -piece_size(s.active.kind)
      free == {y \in top..s.active.y : ~board_collides(board, [s.active EXCEPT !.y = y])}
  IN  [s EXCEPT !.board = board,
                !.active.y = IF free = {} THEN top ELSE Max(free),
                !.game_over = topped \/ free = {}]

-----------------------------------------------------------------------------
(* action.c and scoring.c *)

action_rotate(p, step) == [p EXCEPT !.rot = (@ + step) % 4]
action_move(p, dx, dy) == [p EXCEPT !.x = @ + dx, !.y = @ + dy]

(* As if a move put gravity off. *)
action_try_move_resets(s, dx, dy) ==
  LET p == action_move(s.active, dx, dy)
  IN  IF board_collides(s.board, p) THEN s ELSE [s EXCEPT !.active = p, !.tick_count = 0]

action_try_move(s, dx, dy) ==
  LET p == action_move(s.active, dx, dy)
  IN  IF board_collides(s.board, p) THEN s ELSE [s EXCEPT !.active = p]

(* Kicks: in place, then right and left by one, by two, ..., whichever     *)
(* fits first.                                                             *)
action_try_rotate(s, dir) ==
  LET p == action_rotate(s.active, dir)
      n == piece_size(p.kind)
      Kick(i) == action_move(p, IF i % 2 = 1 THEN (i + 1) \div 2 ELSE -(i \div 2), 0)
      fits == {i \in 0..(2 * n) : ~board_collides(s.board, Kick(i))}
  IN  IF fits = {} THEN s ELSE [s EXCEPT !.active = Kick(Min(fits))]

(* What n rows cleared at once add to lines and score. *)
scoring_add(n) ==
  [lines |-> Min({n, 4}), score |-> <<0, 100, 300, 500, 800>>[Min({n, 4}) + 1]]

garbage_earn(n) == IF n >= 2 THEN n - 1 ELSE 0

spawn_next(s) ==
  board_spawn_piece([s EXCEPT !.next = Append(Tail(@), rng_piece(s.seed, s.counter)),
                              !.counter = @ + 1],
                    Head(s.next))

post_lock(s) ==
  LET n == Cardinality(FullRows(s.board))
  IN  spawn_next([s EXCEPT !.board = board_clear_lines(@), !.lines = @ + scoring_add(n).lines,
                           !.score = @ + scoring_add(n).score,
                           !.garbage_out = @ + garbage_earn(n), !.hold_used = FALSE])

Falls(s) == ~board_collides(s.board, action_move(s.active, 0, 1))

action_softdrop(s) ==
  LET moved == IF Falls(s) THEN action_try_move(s, 0, 1) ELSE post_lock(board_lock(s, s.active))
  IN  [moved EXCEPT !.tick_count = 0]

RECURSIVE action_harddrop_floats(_)
(* As if a hard drop stopped a row above the ground and locked there. *)
action_harddrop_floats(s) ==
  IF Falls(s) /\ Falls(action_softdrop(s)) THEN action_harddrop_floats(action_softdrop(s))
  ELSE post_lock(board_lock(s, s.active))

RECURSIVE action_harddrop(_)
action_harddrop(s) == IF Falls(s) THEN action_harddrop(action_softdrop(s)) ELSE action_softdrop(s)

RECURSIVE action_ghost(_)
action_ghost(s) ==
  IF Falls(s) THEN action_ghost([s EXCEPT !.active = action_move(@, 0, 1)]) ELSE s.active

(* As if a swap took its piece from the queue. *)
action_hold_forgets(s) ==
  IF s.hold_used THEN s
  ELSE spawn_next([s EXCEPT !.hold_used = TRUE, !.hold = s.active.kind])

(* The first hold takes the next piece up; later ones swap, and a swap     *)
(* that does not fit leaves the slot as it was.                            *)
action_hold(s) ==
  LET used == [s EXCEPT !.hold_used = TRUE]
      swapped == board_spawn_piece(used, s.hold)
  IN  IF s.hold_used THEN s
      ELSE IF s.hold = None THEN spawn_next([used EXCEPT !.hold = s.active.kind])
      ELSE IF swapped.game_over THEN swapped ELSE [swapped EXCEPT !.hold = s.active.kind]

-----------------------------------------------------------------------------
(* tetrisbrain.c *)

tetrisbrain_init(seed) ==
  spawn_next([board |-> {}, active |-> Spawned(None), next |-> SubSeq(seed, 1, QUEUE_LEN),
              hold |-> None, hold_used |-> FALSE, score |-> 0, lines |-> 0, tick_count |-> 0,
              seed |-> seed, counter |-> QUEUE_LEN, game_over |-> FALSE, garbage_out |-> 0])

tetrisbrain_tick(s) ==
  IF s.tick_count + 1 >= GRAVITY_TICKS THEN action_softdrop(s)
  ELSE [s EXCEPT !.tick_count = @ + 1]

tetrisbrain_input(s, m) ==
  CASE m = "LEFT" -> action_try_move(s, -1, 0)
    [] m = "RIGHT" -> action_try_move(s, 1, 0)
    [] m = "ROT_RIGHT" -> action_try_rotate(s, 1)
    [] m = "ROT_LEFT" -> action_try_rotate(s, -1)
    [] m = "SOFT_DROP" -> action_softdrop(s)
    [] m = "HARD_DROP" -> action_harddrop(s)
    [] OTHER -> action_hold(s)

-----------------------------------------------------------------------------
(* The session drives one board; the game is followed until the seed's     *)
(* kinds run out.                                                          *)
Playing == ~g.game_over /\ g.counter < Len(g.seed)

BoardInit ==
  /\ game \in Games
  /\ g = tetrisbrain_init(game.seed)
  /\ locked = EmptyBag /\ raised = 0

(* A lock is seen by the cells it adds, or by the rows it clears. *)
Moves(s) ==
  /\ g' = s
  /\ locked' = IF <<s.board, s.lines>> = <<g.board, g.lines>> THEN locked
               ELSE locked (+) SetToBag({g.active.kind})
  /\ UNCHANGED <<game, raised>>

Tick == Playing /\ Moves(tetrisbrain_tick(g))

Input(m) == Playing /\ game.player /\ Moves(tetrisbrain_input(g, m))

(* ADMIN_RECV_GARBAGE, taken while the game is on. *)
RecvGarbage ==
  /\ Playing /\ game.garbage # <<>>
  /\ g' = board_add_garbage(g, Head(game.garbage))
  /\ raised' = raised + Head(game.garbage)
  /\ game' = [game EXCEPT !.garbage = Tail(@)]
  /\ UNCHANGED locked

Inputs == {"LEFT", "RIGHT", "ROT_RIGHT", "ROT_LEFT", "SOFT_DROP", "HARD_DROP", "HOLD"}

BoardNext == Tick \/ RecvGarbage \/ \E m \in Inputs : Input(m)

-----------------------------------------------------------------------------
(* Properties. *)

(* Whatever gravity, the player and rising garbage do in whatever order,   *)
(* no cell is lost or appears from nowhere: the falling piece is on free   *)
(* cells, every locked piece brought four, every garbage row all but its   *)
(* hole, every line took a row's worth, and no full row stays behind       *)
(* (board_collides, board_lock, board_clear_lines, board_add_garbage).     *)
CellsAccounted ==
  ~g.game_over =>
    /\ ~board_collides(g.board, g.active)
    /\ FullRows(g.board) = {}
    /\ Cardinality(g.board) = 4 * BagCardinality(locked) + (BOARD_WIDTH - 1) * raised
                                 - BOARD_WIDTH * g.lines

Count(kind, n) == Cardinality({k \in 1..n : g.seed[k] = kind})

(* Every player of a seed gets the same pieces: those dealt so far are the *)
(* locked ones, the falling one and the held one, each once, and the queue *)
(* shows those that follow, whatever was swapped with the hold slot.       *)
PiecesKept ==
  ~g.game_over =>
    /\ g.next = SubSeq(g.seed, g.counter - QUEUE_LEN + 1, g.counter)
    /\ \A kind \in DOMAIN PIECES :
         Count(kind, g.counter - QUEUE_LEN) =
           CopiesIn(kind, locked) + (IF g.active.kind = kind THEN 1 ELSE 0)
                                  + (IF g.hold = kind THEN 1 ELSE 0)

(* The row the piece would come to rest on: the last one it can reach      *)
(* without passing through anything.                                       *)
Landing ==
  LET At(y) == [g.active EXCEPT !.y = y]
      free == {y \in g.active.y..BOARD_HEIGHT : \A z \in g.active.y..y : ~board_collides(g.board, At(z))}
  IN  At(Max(free))

(* "these two must always agree": a hard drop locks the piece exactly      *)
(* where the landing preview shows it (action_ghost, action_harddrop).     *)
LandsWhereShown ==
  [][Input("HARD_DROP") => /\ action_ghost(g) = Landing
                           /\ g'.board = board_clear_lines(g.board \cup CellsOf(Landing))]_brainVars

(* A player cannot keep a piece up: moving, turning, holding or being      *)
(* pushed up, it lands and the next one comes, until the game is over or   *)
(* the kinds of the seed are dealt: no input postpones gravity.  A board   *)
(* nobody plays tops out, so its round ends.                               *)
PiecesLand == <>[](g.game_over \/ (game.player /\ g.counter = Len(g.seed)))
=============================================================================
