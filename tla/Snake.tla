-------------------------------- MODULE Snake --------------------------------
(***************************************************************************)
(* The game of Snake (src/src/tareas/taskSnake.c).  The whole snake lives  *)
(* in a map of cells, each with a type and the direction of the next cell  *)
(* towards the head; a turn scans the map row by row and moves the head    *)
(* and the tail where it meets them.                                       *)
(*                                                                         *)
(* A map has one tail, and one head while the snake has not been           *)
(* beheaded; the scan skips the cells that these move to.  So a turn is    *)
(* the move of the head and the move of the tail, in the order in which    *)
(* the scan meets them.                                                    *)
(***************************************************************************)
EXTENDS Integers, FiniteSets

CONSTANTS
    HEIGHT, WIDTH,
    MAX_SCORE       \* bound: apples eaten in a game

ASSUME BoardAssumption == HEIGHT \in Nat /\ HEIGHT >= 3 /\ WIDTH \in Nat \ {0}

VARIABLES
    playing,        \* a game is on
    snake,          \* score, remaining_growth, body_size, map
    spawning,       \* spawn_apple finds no empty cell and loops for ever
    beheaded        \* history: a turn of this game found no way for the head

vars == <<playing, snake, spawning, beheaded>>

Cells == [y : 0 .. HEIGHT - 1, x : 0 .. WIDTH - 1]

Directions == {"UP", "DOWN", "LEFT", "RIGHT"}

EMPTY_CELL == [type |-> "EMPTY", direction |-> "UP"]

cell(type, direction) == [type |-> type, direction |-> direction]

Apple == cell("APPLE", "UP")

Position(c) == c.y * WIDTH + c.x

Opposite(d) == CASE d = "UP" -> "DOWN" [] d = "DOWN" -> "UP"
                 [] d = "LEFT" -> "RIGHT" [] d = "RIGHT" -> "LEFT"

(* The cell next to c; outside the map there is none (NULL). *)
Step(c, d) == [y |-> IF d = "UP" THEN c.y - 1 ELSE IF d = "DOWN" THEN c.y + 1 ELSE c.y,
               x |-> IF d = "LEFT" THEN c.x - 1 ELSE IF d = "RIGHT" THEN c.x + 1 ELSE c.x]

OfType(m, type) == {c \in Cells : m[c].type = type}

EmptyCells(m) == {c \in Cells : m[c] = EMPTY_CELL}

Seeds == {"zero", "other"}

(* Where spawn_apple may put the apple.  task_random gives any numbers, but *)
(* from the seed 0, which tick_count is once in its range, it gives only 0. *)
AppleCells(m, seed) ==
    {c \in EmptyCells(m) : seed = "zero" => c = [y |-> 0, x |-> 0]}

-----------------------------------------------------------------------------
(* Mutant: the snake may bite what it takes to be its tail. *)
CanEnterTail(m, c) == c \in Cells /\ m[c].type \in {"EMPTY", "APPLE", "TAIL"}

CanEnter(m, c) == c \in Cells /\ m[c].type \in {"EMPTY", "APPLE"}

(* The old head becomes body; the head goes to the next cell, if that is    *)
(* empty or the apple, and is lost otherwise.  An apple that is eaten is    *)
(* replaced by another: the outcomes are a set, empty when there is no cell *)
(* for it.                                                                  *)
HeadMoves(s, seed) ==
    LET head == CHOOSE c \in Cells : s.map[c].type = "HEAD"
        d    == s.map[head].direction
        next == Step(head, d)
        dead == [s EXCEPT !.map[head] = cell("BODY", d)]
        went == [dead EXCEPT !.map[next] = cell("HEAD", d)]
        ate  == [went EXCEPT !.score = @ + 1, !.remaining_growth = @ + 4]
    IN  IF OfType(s.map, "HEAD") = {} THEN {s}
        ELSE IF ~CanEnter(s.map, next) THEN {dead}
        ELSE IF s.map[next].type = "EMPTY" THEN {went}
        ELSE {[ate EXCEPT !.map[c] = Apple] : c \in AppleCells(ate.map, seed)}

TailCell(m) == CHOOSE c \in Cells : m[c].type = "TAIL"

(* The tail moves when it has where to go and nothing is left to grow; what *)
(* it finds there keeps its direction.                                      *)
TailMove(s) ==
    LET tail == TailCell(s.map)
        next == Step(tail, s.map[tail].direction)
    IN  IF OfType(s.map, "TAIL") # {} /\ next \in Cells /\ s.remaining_growth = 0
          THEN [s EXCEPT !.map[tail] = EMPTY_CELL, !.map[next].type = "TAIL"]
          ELSE s

HeadFirst(m) == \E h \in OfType(m, "HEAD") : Position(h) < Position(TailCell(m))

Scan(s, seed) == IF HeadFirst(s.map) THEN {TailMove(h) : h \in HeadMoves(s, seed)}
                                     ELSE HeadMoves(TailMove(s), seed)

(* A key turns the head, but not back. *)
MaySteer(from, to) == to # Opposite(from)

Steered(s) ==
    LET heads == OfType(s.map, "HEAD")
    IN  IF heads = {} THEN {s}
        ELSE {[s EXCEPT !.map[h].direction = d] :
                 h \in heads, d \in {e \in Directions : \A c \in heads :
                                        MaySteer(s.map[c].direction, e)}}

(* Mutant: a beheaded snake does not shrink while it has to grow. *)
CountersStuck(s) ==
    LET lost == OfType(s.map, "HEAD") = {} /\ s.remaining_growth = 0
        grow == s.remaining_growth > 0 /\ OfType(s.map, "HEAD") # {}
    IN  [s EXCEPT !.remaining_growth = IF grow THEN @ - 1 ELSE @,
                  !.body_size = @ - (IF lost THEN 1 ELSE 0) + (IF grow THEN 1 ELSE 0)]

(* Mutant: the body that has grown is not counted. *)
CountersGrownForgotten(s) ==
    LET lost == OfType(s.map, "HEAD") = {}
        grow == s.remaining_growth > 0
    IN  [s EXCEPT !.remaining_growth = IF grow THEN @ - 1 ELSE @,
                  !.body_size = @ - (IF lost THEN 1 ELSE 0)]

(* A beheaded snake shrinks, and one that is to grow grows. *)
Counters(s) ==
    LET lost == OfType(s.map, "HEAD") = {}
        grow == s.remaining_growth > 0
    IN  [s EXCEPT !.remaining_growth = IF grow THEN @ - 1 ELSE @,
                  !.body_size = @ - (IF lost THEN 1 ELSE 0) + (IF grow THEN 1 ELSE 0)]

NewSnake ==
    LET middle == [y |-> HEIGHT \div 2, x |-> WIDTH \div 2]
    IN  [score |-> 0, remaining_growth |-> 0, body_size |-> 1,
         map |-> [c \in Cells |->
                    CASE c = Step(middle, "UP")   -> cell("HEAD", "UP")
                      [] c = middle               -> cell("BODY", "UP")
                      [] c = Step(middle, "DOWN") -> cell("TAIL", "UP")
                      [] OTHER                    -> EMPTY_CELL]]

-----------------------------------------------------------------------------
Init == /\ playing = FALSE
        /\ snake = NewSnake
        /\ spawning = FALSE /\ beheaded = FALSE

(* Enter starts a game, with an apple somewhere. *)
Start == /\ ~playing
         /\ playing' = TRUE
         /\ \E seed \in Seeds : \E c \in AppleCells(NewSnake.map, seed) :
               snake' = [NewSnake EXCEPT !.map[c] = Apple]
         /\ beheaded' = FALSE
         /\ UNCHANGED spawning

GoesOn == snake.body_size # 0

(* A turn of the game.  What it may do with the seed 0 it may do with       *)
(* another, or it stays in spawn_apple for ever.                            *)
snake_tick ==
    /\ playing /\ ~spawning /\ GoesOn
    /\ snake.score < MAX_SCORE \/ beheaded
    /\ \/ /\ \E s \in Scan(snake, "other") : \E t \in Steered(s) :
               /\ snake' = Counters(t)
               /\ beheaded' = (OfType(t.map, "HEAD") = {})
          /\ UNCHANGED spawning
       \/ /\ \E seed \in Seeds : Scan(snake, seed) = {}
          /\ spawning' = TRUE
          /\ UNCHANGED <<snake, beheaded>>
    /\ UNCHANGED playing

(* The game is over when body_size is 0, and on escape. *)
Over == /\ playing /\ ~spawning
        /\ playing' = FALSE
        /\ snake' = NewSnake /\ beheaded' = FALSE
        /\ UNCHANGED spawning

SpawnForever == spawning /\ UNCHANGED vars

Next == Start \/ snake_tick \/ Over \/ SpawnForever

(* task_sleep ends, for the turns of a game are far from the wrap of        *)
(* tick_count; escape need not be pressed while body_size is not 0.         *)
Spec == Init /\ [][Next]_vars /\ WF_vars(snake_tick)

-----------------------------------------------------------------------------
(* Properties *)

SnakeCells(m) == {c \in Cells : m[c].type \in {"HEAD", "BODY", "TAIL"}}

(* The cell n steps from the tail. *)
Along(m) ==
    LET walk[n \in 0 .. HEIGHT * WIDTH] ==
          IF n = 0 THEN TailCell(m)
          ELSE LET c == walk[n - 1]
               IN  IF c \in Cells THEN Step(c, m[c].direction) ELSE c
    IN  walk

(* Until it is beheaded the snake is one path from its only tail to its     *)
(* only head, wherever the scan meets them, and there is one apple.         *)
SnakeConnected ==
    playing /\ ~beheaded =>
      LET m    == snake.map
          last == Cardinality(SnakeCells(m)) - 1
          walk == Along(m)
      IN  /\ Cardinality(OfType(m, "HEAD")) = 1
          /\ Cardinality(OfType(m, "TAIL")) = 1
          /\ Cardinality(OfType(m, "APPLE")) = 1
          /\ {walk[n] : n \in 0 .. last} = SnakeCells(m)
          /\ m[walk[last]].type = "HEAD"

(* A beheaded snake shrinks until the game is over (lines 198-207, 227).    *)
BeheadedGameEnds == beheaded ~> (~playing \/ snake.body_size = 0)

(* body_size counts the cells between head and tail of a living snake, and   *)
(* at most one too many for each apple: the cell that the tail has left in   *)
(* the turn of an apple, when the scan meets the tail first (line 163).      *)
(* Never too few.  And what it counts with what is left to grow is four for  *)
(* each apple (lines 155, 204-207): no growth is lost or repeated.           *)
BodyCounted ==
    playing /\ ~beheaded =>
      /\ snake.body_size - (Cardinality(SnakeCells(snake.map)) - 2) \in 0 .. snake.score
      /\ snake.body_size + snake.remaining_growth = 1 + 4 * snake.score

(* While there are more cells than a snake of this score and its apple can   *)
(* fill, spawn_apple finds a cell: only a nearly full map, or the seed 0,    *)
(* stops a game for ever (lines 104-107).                                    *)
SpawnFindsRoom ==
    playing /\ 4 * snake.score + 4 < Cardinality(Cells) => Scan(snake, "other") # {}
==============================================================================
