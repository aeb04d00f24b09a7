-------------------------------- MODULE Pong --------------------------------
(***************************************************************************)
(* The rules of the game of Pong (src/src/tareas/taskPong.c), as operators *)
(* on the state of one game: the ball and its velocity, the top of each    *)
(* player's paddle, the scores, and who is to serve (saca), 0 while the    *)
(* ball is in play.  The names are the source's.                           *)
(***************************************************************************)
EXTENDS Integers

CONSTANTS WIDTH, HEIGHT, PLAYER_WIDTH

ASSUME BoardAssumption ==
    /\ WIDTH \in Nat /\ WIDTH >= 4
    /\ HEIGHT \in Nat
    /\ PLAYER_WIDTH \in Nat \ {0} /\ PLAYER_WIDTH <= HEIGHT

Players == 1 .. 2

Keys == [w : BOOLEAN, s : BOOLEAN, up : BOOLEAN, down : BOOLEAN, spacebar : BOOLEAN]

NewGame ==
    [x |-> 1, y |-> 0, dx |-> 0, dy |-> 0, saca |-> 1,
     player |-> [p \in Players |-> IF p = 1 THEN 0 ELSE HEIGHT - PLAYER_WIDTH],
     score |-> [p \in Players |-> 0]]

(* Mutant: the ball does not follow the player who is to serve. *)
CarryNothing(g, p, dy) == [g EXCEPT !.player[p] = @ + dy]

(* A player who is to serve takes the ball along. *)
Carry(g, p, dy) == [g EXCEPT !.player[p] = @ + dy,
                             !.y = IF g.saca = p THEN @ + dy ELSE @]

player_up(g, p) == IF g.player[p] > 0 THEN Carry(g, p, -1) ELSE g

player_down(g, p) == IF g.player[p] < HEIGHT - PLAYER_WIDTH THEN Carry(g, p, 1) ELSE g

(* The four keys are looked at in this order. *)
MovePlayers(g, keys) ==
    LET g1 == IF keys.w    THEN player_up(g, 1)    ELSE g
        g2 == IF keys.s    THEN player_down(g1, 1) ELSE g1
        g3 == IF keys.up   THEN player_up(g2, 2)   ELSE g2
    IN  IF keys.down THEN player_down(g3, 2) ELSE g3

Serve(g, keys) ==
    IF keys.spacebar /\ g.saca # 0
      THEN [g EXCEPT !.dx = IF g.saca = 1 THEN 1 ELSE -1,
                     !.dy = IF g.saca = 1 THEN -1 ELSE 1,
                     !.saca = 0]
      ELSE g

MoveBall(g) == [g EXCEPT !.x = @ + g.dx, !.y = @ + g.dy]

(* Mutant: the lower end of the paddle is one too long. *)
should_score_against_short(g, p) == g.y < g.player[p] \/ g.player[p] + PLAYER_WIDTH < g.y

should_score_against(g, p) == g.y < g.player[p] \/ g.player[p] + PLAYER_WIDTH <= g.y

(* The local part of score: the opponent gets the ball, one column back     *)
(* from the wall.                                                           *)
score(g, scorer, opponent) ==
    [g EXCEPT !.saca = opponent, !.x = @ - g.dx, !.y = g.player[opponent],
              !.dx = 0, !.dy = 0, !.score[scorer] = @ + 1]

(* The ball at the wall behind player p: the opponent's point, or a rebound.*)
Wall(g, column, p) ==
    IF g.x # column THEN g
    ELSE IF should_score_against(g, p) THEN score(g, 3 - p, p)
    ELSE [g EXCEPT !.dx = -g.dx, !.x = @ - g.dx]

Walls(g) == Wall(Wall(g, 0, 1), WIDTH - 1, 2)

(* Mutant: the ball turns round and is left outside. *)
ReboundOutside(g) == IF g.y = -1 \/ g.y = HEIGHT THEN [g EXCEPT !.dy = -g.dy] ELSE g

(* The walls above and below. *)
Rebound(g) == IF g.y = -1 \/ g.y = HEIGHT THEN [g EXCEPT !.dy = -g.dy, !.y = @ - g.dy] ELSE g

(* A turn up to the walls left and right. *)
Play(g, keys) == Walls(MoveBall(Serve(MovePlayers(g, keys), keys)))

-----------------------------------------------------------------------------
(* What a game is like between turns *)

Game == [x : Int, y : Int, dx : -1 .. 1, dy : -1 .. 1, saca : 0 .. 2,
         player : [Players -> Int], score : [Players -> Nat]]

(* The ball is in front of both paddles' columns, and all is on the board.  *)
OnScreen(g) ==
    /\ \A p \in Players : g.player[p] \in 0 .. HEIGHT - PLAYER_WIDTH
    /\ g.x \in 1 .. WIDTH - 2
    /\ g.y \in 0 .. HEIGHT - 1

(* The player who is to serve has the ball at the top of the paddle, and it *)
(* is still; while nobody is, it moves in both directions.                  *)
HeldOrMoving(g) ==
    /\ g.saca # 0 => /\ g.dx = 0 /\ g.dy = 0
                     /\ g.x = (IF g.saca = 1 THEN 1 ELSE WIDTH - 2)
                     /\ g.y = g.player[g.saca]
    /\ g.saca = 0 => g.dx # 0 /\ g.dy # 0
==============================================================================
