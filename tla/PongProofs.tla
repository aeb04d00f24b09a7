----------------------------- MODULE PongProofs -----------------------------
(***************************************************************************)
(* Proofs about Pong and PongTasks, for boards of any size, any number of  *)
(* tasks and games of any length.  Each operator of a turn takes a game to *)
(* a game: the lemmas follow the ball through a turn, and the theorems     *)
(* conclude that every game is on the screen between its turns.            *)
(***************************************************************************)
EXTENDS PongTasks, SequenceTheorems, TLAPS

GoodGame(g) == g \in Game /\ OnScreen(g) /\ HeldOrMoving(g)

(* After the walls left and right a ball in play may be one row outside, on *)
(* its way out.                                                             *)
GoodBeforeRebound(g) ==
    /\ g \in Game
    /\ \A p \in Players : g.player[p] \in 0 .. HEIGHT - PLAYER_WIDTH
    /\ g.x \in 1 .. WIDTH - 2
    /\ g.y \in -1 .. HEIGHT
    /\ g.y = -1 => g.dy = -1
    /\ g.y = HEIGHT => g.dy = 1
    /\ HeldOrMoving(g)

(* The first state of a game is good. *)
LEMMA NewGameGood == GoodGame(NewGame)
BY BoardAssumption DEF GoodGame, NewGame, Game, OnScreen, HeldOrMoving, Players

(* Moving one player one row, inside the board, keeps the game good: the    *)
(* ball goes along with a player who is to serve.                           *)
LEMMA CarryGood ==
  ASSUME NEW g, GoodGame(g), NEW p \in Players, NEW dy \in {-1, 1},
         g.player[p] + dy \in 0 .. HEIGHT - PLAYER_WIDTH
  PROVE  GoodGame(Carry(g, p, dy))
<1> DEFINE c == Carry(g, p, dy)
<1>1. c \in Game
  <2>1. g \in Game /\ [g.player EXCEPT ![p] = @ + dy] \in [Players -> Int]
    BY DEF GoodGame, Game, Players
  <2>2. (IF g.saca = p THEN g.y + dy ELSE g.y) \in Int
    BY DEF GoodGame, Game
  <2> QED BY <2>1, <2>2 DEF Carry, Game
<1>2. /\ c.x = g.x /\ c.dx = g.dx /\ c.dy = g.dy /\ c.saca = g.saca
      /\ c.player = [g.player EXCEPT ![p] = @ + dy]
      /\ c.y = IF g.saca = p THEN g.y + dy ELSE g.y
  BY DEF GoodGame, Carry, Game
<1>3. OnScreen(c)
  BY <1>2, BoardAssumption DEF GoodGame, OnScreen, HeldOrMoving, Game, Players
<1>4. HeldOrMoving(c)
  BY <1>2 DEF GoodGame, HeldOrMoving, Game, Players
<1> QED BY <1>1, <1>3, <1>4 DEF GoodGame

(* So the keys keep a game good. *)
LEMMA MovePlayersGood ==
  ASSUME NEW g, GoodGame(g), NEW keys \in Keys
  PROVE  GoodGame(MovePlayers(g, keys))
<1>1. ASSUME NEW h, GoodGame(h), NEW p \in Players PROVE GoodGame(player_up(h, p))
  BY <1>1, CarryGood, BoardAssumption DEF player_up, GoodGame, OnScreen
<1>2. ASSUME NEW h, GoodGame(h), NEW p \in Players PROVE GoodGame(player_down(h, p))
  BY <1>2, CarryGood, BoardAssumption DEF player_down, GoodGame, OnScreen
<1> DEFINE g1 == IF keys.w    THEN player_up(g, 1)    ELSE g
           g2 == IF keys.s    THEN player_down(g1, 1) ELSE g1
           g3 == IF keys.up   THEN player_up(g2, 2)   ELSE g2
           g4 == IF keys.down THEN player_down(g3, 2) ELSE g3
<1>3. 1 \in Players /\ 2 \in Players
  BY DEF Players
<1>4. GoodGame(g1)
  BY <1>1, <1>3
<1>5. GoodGame(g2)
  BY <1>2, <1>3, <1>4
<1>6. GoodGame(g3)
  BY <1>1, <1>3, <1>5
<1>7. GoodGame(g4)
  BY <1>2, <1>3, <1>6
<1> QED BY <1>7 DEF MovePlayers

(* A serve sets the ball in motion; a ball that is in motion goes on.       *)
LEMMA ServeGood ==
  ASSUME NEW g, GoodGame(g), NEW keys \in Keys
  PROVE  GoodGame(Serve(g, keys))
<1>1. CASE keys.spacebar /\ g.saca # 0
  <2> DEFINE s == [g EXCEPT !.dx = IF g.saca = 1 THEN 1 ELSE -1,
                            !.dy = IF g.saca = 1 THEN -1 ELSE 1,
                            !.saca = 0]
  <2>1. s \in Game
    <3>1. /\ (IF g.saca = 1 THEN 1 ELSE -1) \in -1 .. 1
          /\ (IF g.saca = 1 THEN -1 ELSE 1) \in -1 .. 1
          /\ 0 \in 0 .. 2
      OBVIOUS
    <3> QED BY <3>1 DEF GoodGame, Game
  <2>2. /\ s.x = g.x /\ s.y = g.y /\ s.player = g.player
        /\ s.saca = 0 /\ s.dx # 0 /\ s.dy # 0
    BY DEF GoodGame, Game
  <2> QED BY <1>1, <2>1, <2>2 DEF GoodGame, OnScreen, HeldOrMoving, Serve
<1>2. CASE ~(keys.spacebar /\ g.saca # 0)
  BY <1>2 DEF Serve
<1> QED BY <1>1, <1>2

(* A moved ball: at the left wall it came from the right, and at the right  *)
(* wall from the left; one row outside, it is on its way out.               *)
Moved(g) ==
    /\ g \in Game
    /\ \A p \in Players : g.player[p] \in 0 .. HEIGHT - PLAYER_WIDTH
    /\ g.x \in 0 .. WIDTH - 1
    /\ g.x = 0 => g.dx = -1
    /\ g.x = WIDTH - 1 => g.dx = 1
    /\ g.y \in -1 .. HEIGHT
    /\ g.y = -1 => g.dy = -1
    /\ g.y = HEIGHT => g.dy = 1
    /\ HeldOrMoving(g)

(* The move of a ball in a good game.                                       *)
LEMMA MoveBallMoved ==
  ASSUME NEW g, GoodGame(g)
  PROVE  Moved(MoveBall(g))
<1> DEFINE m == MoveBall(g)
<1>1. m \in Game
  <2>1. g \in Game /\ g.x + g.dx \in Int /\ g.y + g.dy \in Int
    BY DEF GoodGame, Game
  <2> QED BY <2>1 DEF Game, MoveBall
<1>2. /\ m.x = g.x + g.dx /\ m.y = g.y + g.dy /\ m.dx = g.dx /\ m.dy = g.dy
      /\ m.player = g.player /\ m.saca = g.saca
  BY DEF GoodGame, Game, MoveBall
<1>3. g.dx \in -1 .. 1 /\ g.dy \in -1 .. 1 /\ g.x \in Int /\ g.y \in Int
  BY DEF GoodGame, Game
<1>4. HeldOrMoving(m)
  BY <1>2, <1>3 DEF GoodGame, HeldOrMoving, OnScreen
<1>5. /\ m.x \in 0 .. WIDTH - 1 /\ (m.x = 0 => m.dx = -1) /\ (m.x = WIDTH - 1 => m.dx = 1)
      /\ m.y \in -1 .. HEIGHT /\ (m.y = -1 => m.dy = -1) /\ (m.y = HEIGHT => m.dy = 1)
  BY <1>2, <1>3, BoardAssumption DEF GoodGame, OnScreen
<1> QED BY <1>1, <1>2, <1>4, <1>5 DEF Moved, GoodGame, OnScreen

(* A point puts the ball in the hands of the player who lost it.            *)
LEMMA ScoreGood ==
  ASSUME NEW g, Moved(g), NEW p \in Players,
         g.x = IF p = 1 THEN 0 ELSE WIDTH - 1
  PROVE  LET s == score(g, 3 - p, p)
         IN  GoodGame(s) /\ s.score # g.score
<1> DEFINE s == score(g, 3 - p, p)
<1>1. 3 - p \in Players /\ g.score \in [Players -> Nat] /\ g.dx \in -1 .. 1 /\ g \in Game
  BY DEF Moved, Game, Players
<1>2. /\ s.x = g.x - g.dx /\ s.y = g.player[p] /\ s.dx = 0 /\ s.dy = 0 /\ s.saca = p
      /\ s.player = g.player
      /\ s.score = [g.score EXCEPT ![3 - p] = @ + 1]
  BY <1>1 DEF score, Game
<1>3. s \in Game
  <2>1. /\ g.x - g.dx \in Int /\ g.player[p] \in Int /\ p \in 0 .. 2
        /\ [g.score EXCEPT ![3 - p] = @ + 1] \in [Players -> Nat]
    BY <1>1 DEF Moved, Game, Players
  <2>2. 0 \in -1 .. 1
    OBVIOUS
  <2> QED BY <1>1, <2>1, <2>2 DEF score, Game
<1>4. s.score[3 - p] # g.score[3 - p]
  BY <1>1, <1>2
<1>5. s.x = IF p = 1 THEN 1 ELSE WIDTH - 2
  BY <1>1, <1>2, BoardAssumption DEF Moved, Players
<1>6. OnScreen(s) /\ HeldOrMoving(s)
  BY <1>1, <1>2, <1>5, BoardAssumption DEF Moved, OnScreen, HeldOrMoving, Players
<1> QED BY <1>3, <1>4, <1>6 DEF GoodGame

(* A rebound from a paddle puts the ball back in front of it.               *)
LEMMA PaddleRebound ==
  ASSUME NEW g, Moved(g), g.x \in {0, WIDTH - 1}
  PROVE  LET r == [g EXCEPT !.dx = -g.dx, !.x = g.x - g.dx]
         IN  /\ Moved(r) /\ r.x \in 1 .. WIDTH - 2
             /\ r.score = g.score
<1> DEFINE r == [g EXCEPT !.dx = -g.dx, !.x = g.x - g.dx]
<1>1. g \in Game /\ g.dx \in {-1, 1} /\ g.x \in Int
  BY BoardAssumption DEF Moved, Game
<1>2. r \in Game
  <2>1. -g.dx \in -1 .. 1 /\ g.x - g.dx \in Int
    BY <1>1
  <2> QED BY <1>1, <2>1 DEF Game
<1>3. /\ r.x = g.x - g.dx /\ r.dx = -g.dx /\ r.y = g.y /\ r.dy = g.dy
      /\ r.player = g.player /\ r.saca = g.saca /\ r.score = g.score
  BY <1>1 DEF Game
<1>4. r.x \in 1 .. WIDTH - 2
  BY <1>1, <1>3, BoardAssumption DEF Moved
<1>5. HeldOrMoving(r)
  BY <1>1, <1>3 DEF Moved, HeldOrMoving
<1>6. Moved(r)
  BY <1>2, <1>3, <1>4, <1>5, BoardAssumption DEF Moved
<1> QED BY <1>3, <1>4, <1>6

(* What the two walls do to a moved ball: a point, or a ball in play.       *)
LEMMA WallsGood ==
  ASSUME NEW g, Moved(g)
  PROVE  LET w == Walls(g)
         IN  /\ w.score = g.score => GoodBeforeRebound(w)
             /\ w.score # g.score => GoodGame(w)
<1> DEFINE w == Walls(g)
<1>0. 1 \in Players /\ 2 \in Players /\ 3 - 1 = 2 /\ 3 - 2 = 1 /\ 0 # WIDTH - 1
  BY BoardAssumption DEF Players
<1>1. ASSUME NEW h, GoodGame(h) PROVE Wall(h, WIDTH - 1, 2) = h
  BY <1>1, BoardAssumption DEF Wall, GoodGame, OnScreen
<1>2. ASSUME NEW h, Moved(h), h.x \in 1 .. WIDTH - 2
      PROVE  Wall(h, WIDTH - 1, 2) = h /\ GoodBeforeRebound(h)
  BY <1>2, BoardAssumption DEF Wall, Moved, GoodBeforeRebound
<1>3. CASE g.x = 0 /\ should_score_against(g, 1)
  <2> DEFINE s == score(g, 2, 1)
  <2>1. Wall(g, 0, 1) = s
    BY <1>0, <1>3 DEF Wall
  <2>2. GoodGame(s) /\ s.score # g.score
    BY <1>0, <1>3, ScoreGood
  <2>3. w = s
    BY <2>1, <2>2, <1>1 DEF Walls
  <2> QED BY <2>2, <2>3
<1>4. CASE g.x = 0 /\ ~should_score_against(g, 1)
  <2> DEFINE r == [g EXCEPT !.dx = -g.dx, !.x = g.x - g.dx]
  <2>1. Wall(g, 0, 1) = r
    BY <1>4 DEF Wall
  <2>2. Moved(r) /\ r.x \in 1 .. WIDTH - 2 /\ r.score = g.score
    BY <1>4, PaddleRebound
  <2>3. w = r /\ GoodBeforeRebound(r)
    BY <2>1, <2>2, <1>2 DEF Walls
  <2> QED BY <2>2, <2>3
<1>5. CASE g.x = WIDTH - 1 /\ should_score_against(g, 2)
  <2>1. Wall(g, 0, 1) = g
    BY <1>0, <1>5 DEF Wall
  <2>2. w = score(g, 1, 2)
    BY <1>0, <1>5, <2>1 DEF Wall, Walls
  <2> QED BY <1>0, <1>5, <2>2, ScoreGood
<1>6. CASE g.x = WIDTH - 1 /\ ~should_score_against(g, 2)
  <2> DEFINE r == [g EXCEPT !.dx = -g.dx, !.x = g.x - g.dx]
  <2>1. Wall(g, 0, 1) = g
    BY <1>0, <1>6 DEF Wall
  <2>2. w = r
    BY <1>6, <2>1 DEF Wall, Walls
  <2>3. Moved(r) /\ r.x \in 1 .. WIDTH - 2 /\ r.score = g.score
    BY <1>6, PaddleRebound
  <2> QED BY <2>2, <2>3, <1>2
<1>7. CASE g.x # 0 /\ g.x # WIDTH - 1
  <2>1. w = g
    BY <1>7 DEF Wall, Walls
  <2>2. g.x \in 1 .. WIDTH - 2
    BY <1>7, BoardAssumption DEF Moved
  <2> QED BY <2>1, <2>2, <1>2
<1> QED BY <1>3, <1>4, <1>5, <1>6, <1>7

(* Moving players, serving and moving the ball give no points.              *)
LEMMA NoPointsYet ==
  ASSUME NEW g, GoodGame(g), NEW keys \in Keys
  PROVE  MoveBall(Serve(MovePlayers(g, keys), keys)).score = g.score
<1>1. ASSUME NEW h, GoodGame(h), NEW p \in Players
      PROVE  player_up(h, p).score = h.score /\ player_down(h, p).score = h.score
  BY <1>1 DEF GoodGame, Game, player_up, player_down, Carry
<1>2. ASSUME NEW h, GoodGame(h), NEW p \in Players
      PROVE  GoodGame(player_up(h, p)) /\ GoodGame(player_down(h, p))
  BY <1>2, CarryGood, BoardAssumption DEF player_up, player_down, GoodGame, OnScreen
<1>3. MovePlayers(g, keys).score = g.score
  <2> DEFINE g1 == IF keys.w    THEN player_up(g, 1)    ELSE g
             g2 == IF keys.s    THEN player_down(g1, 1) ELSE g1
             g3 == IF keys.up   THEN player_up(g2, 2)   ELSE g2
             g4 == IF keys.down THEN player_down(g3, 2) ELSE g3
  <2>0. 1 \in Players /\ 2 \in Players
    BY DEF Players
  <2>1. GoodGame(g1) /\ g1.score = g.score
    BY <1>1, <1>2, <2>0
  <2>2. GoodGame(g2) /\ g2.score = g.score
    BY <1>1, <1>2, <2>0, <2>1
  <2>3. GoodGame(g3) /\ g3.score = g.score
    BY <1>1, <1>2, <2>0, <2>2
  <2>4. g4.score = g.score
    BY <1>1, <2>0, <2>3
  <2> QED BY <2>4 DEF MovePlayers
<1>4. ASSUME NEW h, GoodGame(h)
      PROVE  Serve(h, keys).score = h.score /\ MoveBall(h).score = h.score
  BY <1>4 DEF GoodGame, Game, Serve, MoveBall
<1> QED BY <1>3, <1>4, MovePlayersGood, ServeGood

(* A turn up to the walls.                                                  *)
LEMMA PlayGood ==
  ASSUME NEW g, GoodGame(g), NEW keys \in Keys
  PROVE  LET w == Play(g, keys)
         IN  /\ w.score = g.score => GoodBeforeRebound(w)
             /\ w.score # g.score => GoodGame(w)
<1> DEFINE m == MoveBall(Serve(MovePlayers(g, keys), keys))
<1>1. Moved(m)
  BY MovePlayersGood, ServeGood, MoveBallMoved
<1>2. m.score = g.score
  BY NoPointsYet
<1> QED BY <1>1, <1>2, WallsGood DEF Play

(* The walls above and below bring the ball back on the screen.             *)
LEMMA ReboundGood ==
  ASSUME NEW g, GoodBeforeRebound(g)
  PROVE  GoodGame(Rebound(g))
<1>1. CASE g.y = -1 \/ g.y = HEIGHT
  <2> DEFINE r == [g EXCEPT !.dy = -g.dy, !.y = g.y - g.dy]
  <2>1. g \in Game /\ g.dy \in {-1, 1} /\ g.y \in Int
    BY <1>1 DEF GoodBeforeRebound, Game
  <2>2. r \in Game
    <3>1. -g.dy \in -1 .. 1 /\ g.y - g.dy \in Int
      BY <2>1
    <3> QED BY <2>1, <3>1 DEF Game
  <2>3. /\ r.x = g.x /\ r.y = g.y - g.dy /\ r.dx = g.dx /\ r.dy = -g.dy
        /\ r.player = g.player /\ r.saca = g.saca
    BY <2>1 DEF Game
  <2>4. OnScreen(r)
    BY <1>1, <2>1, <2>3, BoardAssumption DEF GoodBeforeRebound, OnScreen
  <2>5. HeldOrMoving(r)
    BY <2>1, <2>3 DEF GoodBeforeRebound, HeldOrMoving
  <2> QED BY <1>1, <2>2, <2>4, <2>5 DEF GoodGame, Rebound
<1>2. CASE ~(g.y = -1 \/ g.y = HEIGHT)
  BY <1>2, BoardAssumption DEF GoodBeforeRebound, GoodGame, OnScreen, Rebound
<1> QED BY <1>1, <1>2

(* A ball that is on the screen is left alone.                              *)
LEMMA ReboundLeavesGood ==
  ASSUME NEW g, GoodGame(g)
  PROVE  Rebound(g) = g
BY BoardAssumption DEF GoodGame, OnScreen, Rebound

-----------------------------------------------------------------------------
(* The tasks *)

GoodGames == game \in [Pongs -> Game] /\ BallOnScreen /\ ServerHoldsBall

(* Every game starts good.                                                  *)
LEMMA GamesInit == Init => GoodGames
BY NewGameGood DEF Init, GoodGames, BallOnScreen, ServerHoldsBall, GoodGame

(* Every step of every task keeps every game good.                          *)
LEMMA GamesNext == GoodGames /\ [Next]_vars => GoodGames'
<1> SUFFICES ASSUME GoodGames, [Next]_vars PROVE GoodGames'
  OBVIOUS
<1>1. \A i \in Pongs : GoodGame(game[i])
  BY DEF GoodGames, BallOnScreen, ServerHoldsBall, GoodGame
<1>2. ASSUME NEW i \in Pongs, NEW g, GoodGame(g), game' = [game EXCEPT ![i] = g]
      PROVE  GoodGames'
  <2>1. game' \in [Pongs -> Game]
    BY <1>2 DEF GoodGames, GoodGame
  <2>2. \A j \in Pongs : GoodGame(game'[j])
    BY <1>1, <1>2 DEF GoodGames
  <2> QED BY <2>1, <2>2 DEF GoodGames, BallOnScreen, ServerHoldsBall, GoodGame
<1>3. CASE UNCHANGED game
  BY <1>3 DEF GoodGames, BallOnScreen, ServerHoldsBall
<1>4. ASSUME NEW i \in Pongs, StartPartida(i) PROVE GoodGames'
  BY <1>2, <1>4, NewGameGood DEF StartPartida
<1>5. ASSUME NEW i \in Pongs, NEW keys \in Keys, Turn(i, keys) PROVE GoodGames'
  <2> DEFINE w == Play(game[i], keys)
  <2>1. /\ w.score = game[i].score => GoodBeforeRebound(w)
        /\ w.score # game[i].score => GoodGame(w)
    BY <1>1, PlayGood
  <2>2. CASE w.score = game[i].score
    BY <1>2, <1>5, <2>1, <2>2, ReboundGood DEF Turn, EndTurn
  <2>3. CASE w.score # game[i].score
    BY <1>2, <1>5, <2>1, <2>3 DEF Turn
  <2> QED BY <2>2, <2>3
<1>6. ASSUME NEW i \in Pongs, StoreScore2(i) PROVE GoodGames'
  BY <1>1, <1>2, <1>6, ReboundLeavesGood DEF StoreScore2, EndTurn
<1>7. CASE Tick \/ ReadScore \/ DrawScores \/ UNCHANGED vars
  BY <1>3, <1>7 DEF Tick, ReadScore, DrawScores, vars, pong_vars
<1>8. ASSUME NEW i \in Pongs,
             EndPartida(i) \/ ReadTaskId(i) \/ StoreScore1(i) \/ Wake(i)
      PROVE  GoodGames'
  BY <1>3, <1>8 DEF EndPartida, ReadTaskId, StoreScore1, Wake
<1> QED BY <1>4, <1>5, <1>6, <1>7, <1>8 DEF Next

(* The ball and the paddles are on the screen after every turn of every     *)
(* game.                                                                    *)
THEOREM BallOnScreenHolds == Spec => []BallOnScreen
<1>1. GoodGames => BallOnScreen
  BY DEF GoodGames
<1> QED BY <1>1, GamesInit, GamesNext, PTL DEF Spec

(* The ball is with the player who is to serve, or moves.                   *)
THEOREM ServerHoldsBallHolds == Spec => []ServerHoldsBall
<1>1. GoodGames => ServerHoldsBall
  BY DEF GoodGames
<1> QED BY <1>1, GamesInit, GamesNext, PTL DEF Spec

-----------------------------------------------------------------------------
(* The scores in the on-demand page *)

(* Nobody reads a tick_count at boot from which a sleep would wrap.         *)
ClockFarFromWrap == \A b \in BootTicks : b + SLEEP < WORD

(* Task i runs and the shared page does not say so: this is its first turn  *)
(* of the processor, to which the clock handler did not return.             *)
FirstSlice(i) == current_task = i /\ i \in started /\ task_id # i

(* While not all slots have been dispatched no tick is counted.             *)
FirstRound ==
    /\ current_task \in Slots /\ task_id \in Slots /\ started \subseteq Slots
    /\ tick_count \in 0 .. WORD - 1
    /\ started # Slots => started = 1 .. current_task /\ tick_count \in BootTicks

(* In its first turn of the processor a game gets no further than to its    *)
(* first sleep, and has no points.                                          *)
NoPointYet(i) ==
    /\ pc[i] \in {"enter", "turn", "sleep"}
    /\ pc[i] = "turn" => game[i] = NewGame
    /\ pc[i] = "sleep" => /\ game[i].score = NewGame.score
                          /\ clock_time[i] = tick_count

(* A game writes its scores in its own place.                               *)
Publishes(i) ==
    /\ i \notin started => pc[i] = "enter"
    /\ FirstSlice(i) => tick_count \in BootTicks /\ NoPointYet(i)
    /\ pc[i] \in {"record1", "record2"} => id[i] = i
    /\ pc[i] = "record2" => record[i][1] = game[i].score[1]
    /\ pc[i] \in {"turn", "sleep"} /\ (\E p \in Players : game[i].score[p] > 0) =>
          record[i] = game[i].score

RecordInv ==
    /\ GoodGames /\ FirstRound
    /\ pc \in [Pongs -> {"enter", "turn", "task_id", "record1", "record2", "sleep"}]
    /\ record \in [Slots -> [Players -> Nat]]
    /\ DOMAIN id = Pongs /\ DOMAIN clock_time = Pongs
    /\ \A i \in Pongs : Publishes(i)

(* The first turn of a game: the ball is served from the left paddle, and   *)
(* does not reach a wall.                                                   *)
LEMMA FirstTurnScoresNothing ==
  ASSUME NEW keys \in Keys
  PROVE  Play(NewGame, keys).score = NewGame.score
<1>1. ASSUME NEW h, GoodGame(h), NEW p \in Players
      PROVE  /\ player_up(h, p).saca = h.saca /\ player_down(h, p).saca = h.saca
             /\ GoodGame(player_up(h, p)) /\ GoodGame(player_down(h, p))
  <2>1. player_up(h, p).saca = h.saca /\ player_down(h, p).saca = h.saca
    BY <1>1 DEF GoodGame, Game, player_up, player_down, Carry
  <2>2. GoodGame(player_up(h, p)) /\ GoodGame(player_down(h, p))
    BY <1>1, CarryGood, BoardAssumption DEF player_up, player_down, GoodGame, OnScreen
  <2> QED BY <2>1, <2>2
<1> DEFINE g1 == IF keys.w    THEN player_up(NewGame, 1) ELSE NewGame
           g2 == IF keys.s    THEN player_down(g1, 1) ELSE g1
           g3 == IF keys.up   THEN player_up(g2, 2)   ELSE g2
           g4 == IF keys.down THEN player_down(g3, 2) ELSE g3
           s  == Serve(g4, keys)
           m  == MoveBall(s)
<1>2. GoodGame(g4) /\ g4.saca = 1
  <2>0. 1 \in Players /\ 2 \in Players /\ GoodGame(NewGame) /\ NewGame.saca = 1
    BY NewGameGood DEF Players, NewGame
  <2>1. GoodGame(g1) /\ g1.saca = 1
    BY <1>1, <2>0
  <2>2. GoodGame(g2) /\ g2.saca = 1
    BY <1>1, <2>0, <2>1
  <2>3. GoodGame(g3) /\ g3.saca = 1
    BY <1>1, <2>0, <2>2
  <2> QED BY <1>1, <2>0, <2>3
<1>3. g4.x = 1 /\ g4.dx = 0
  BY <1>2 DEF GoodGame, HeldOrMoving
<1>4. s.x = 1 /\ s.dx \in {0, 1} /\ GoodGame(s)
  <2>1. s.x = 1 /\ s.dx \in {0, 1}
    BY <1>2, <1>3 DEF Serve, GoodGame, Game
  <2> QED BY <1>2, <2>1, ServeGood
<1>5. m.x \in {1, 2}
  BY <1>4 DEF MoveBall, GoodGame, Game
<1>6. Walls(m) = m
  BY <1>5, BoardAssumption DEF Walls, Wall
<1>7. Play(NewGame, keys) = m
  BY <1>6 DEF Play, MovePlayers
<1> QED BY <1>7, NewGameGood, NoPointsYet DEF MovePlayers

(* The walls above and below give no points.                                *)
LEMMA ReboundScore ==
  ASSUME NEW g \in Game
  PROVE  Rebound(g).score = g.score
BY DEF Rebound, Game

(* The rounds of the clock: a slot is dispatched for the first time after   *)
(* those before it, from a boot at which no tick has been counted.          *)
LEMMA FirstRoundNext ==
  FirstRound /\ [Next]_vars =>
    /\ FirstRound'
    /\ Tick => \/ started' = started /\ task_id' = current_task'
               \/ /\ current_task' \notin started /\ tick_count \in BootTicks
                  /\ started' = started \cup {current_task'}
                  /\ UNCHANGED <<tick_count, task_id>>
<1> SUFFICES ASSUME FirstRound, [Next]_vars
             PROVE  /\ FirstRound'
                    /\ Tick => \/ started' = started /\ task_id' = current_task'
                               \/ /\ current_task' \notin started /\ tick_count \in BootTicks
                                  /\ started' = started \cup {current_task'}
                                  /\ UNCHANGED <<tick_count, task_id>>
  OBVIOUS
<1>0. N \in Nat \ {0} /\ WORD \in Nat \ {0}
  BY TasksAssumption
<1>1. CASE Tick
  <2>1. current_task \in Nat /\ current_task < N /\ current_task' \in Slots
    BY <1>0, <1>1 DEF FirstRound, Slots, Tick
  <2>2. current_task' = IF current_task + 1 < N THEN current_task + 1 ELSE 0
    BY <1>0, <1>1, <2>1 DEF Tick
  <2>3. CASE current_task' \in started
    <3>1. started = Slots
      BY <2>1, <2>2, <2>3 DEF FirstRound
    <3>2. task_id' = current_task' /\ started' = started /\ tick_count' \in 0 .. WORD - 1
      BY <1>0, <1>1, <2>3 DEF Tick, tasks_tick, FirstRound
    <3> QED BY <2>1, <3>1, <3>2 DEF FirstRound
  <2>4. CASE current_task' \notin started
    <3>1. UNCHANGED <<tick_count, task_id>> /\ started' = started \cup {current_task'}
      BY <1>1, <2>4 DEF Tick
    <3>2. started # Slots /\ started = 1 .. current_task /\ tick_count \in BootTicks
      BY <2>1, <2>4 DEF FirstRound
    <3>3. CASE current_task + 1 < N
      BY <2>1, <2>2, <2>4, <3>1, <3>2, <3>3 DEF FirstRound
    <3>4. CASE ~(current_task + 1 < N)
      <4>1. started' = Slots
        BY <1>0, <2>1, <2>2, <3>1, <3>2, <3>4 DEF Slots
      <4> QED BY <2>1, <2>4, <3>1, <3>2, <4>1 DEF FirstRound
    <3> QED BY <3>3, <3>4
  <2> QED BY <2>3, <2>4
<1>2. CASE ~Tick
  <2>1. UNCHANGED clock_vars
    BY <1>2 DEF Next, vars, StartPartida, EndPartida, Turn, ReadTaskId, StoreScore1,
                StoreScore2, Wake, ReadScore, DrawScores
  <2> QED BY <1>2, <2>1 DEF FirstRound, clock_vars
<1> QED BY <1>1, <1>2

(* No game has points at the start, whatever the page holds.                *)
LEMMA RecordInit == Init => RecordInv
<1> SUFFICES ASSUME Init PROVE RecordInv
  OBVIOUS
<1>1. GoodGames
  BY GamesInit
<1>2. FirstRound
  BY TasksAssumption DEF Init, FirstRound, Slots
<1>3. \A i \in Pongs : Publishes(i)
  BY DEF Init, Publishes, FirstSlice, NoPointYet
<1>4. record \in [Slots -> [Players -> Nat]]
  BY TasksAssumption DEF Init
<1> QED BY <1>1, <1>2, <1>3, <1>4 DEF Init, RecordInv

(* A task that is past its first turn of the processor is the one the page  *)
(* names.                                                                   *)
LEMMA PageNames ==
  ASSUME RecordInv, NEW i \in Pongs, Runs(i), ~NoPointYet(i)
  PROVE  task_id = i
BY DEF RecordInv, Publishes, FirstSlice, Runs

(* What a step of task i leaves alone: the other tasks keep their places,   *)
(* as long as it does not write in them.                                    *)
LEMMA OthersPublish ==
  ASSUME RecordInv, NEW i \in Pongs, UNCHANGED clock_vars,
         \A j \in Pongs \ {i} : /\ pc'[j] = pc[j] /\ game'[j] = game[j]
                                /\ id'[j] = id[j] /\ clock_time'[j] = clock_time[j]
                                /\ record'[j] = record[j]
  PROVE  \A j \in Pongs \ {i} : Publishes(j)'
BY DEF RecordInv, Publishes, FirstSlice, NoPointYet, clock_vars

(* Every step of the clock and of the scoreboard.                           *)
LEMMA RecordTick ==
  ASSUME RecordInv, [Next]_vars, Tick \/ ReadScore \/ DrawScores \/ UNCHANGED vars
  PROVE  RecordInv'
<1>1. GoodGames' /\ FirstRound'
  BY GamesNext, FirstRoundNext DEF RecordInv
<1>2. UNCHANGED <<record, pong_vars>>
  BY DEF Tick, ReadScore, DrawScores, vars
<1>3. ASSUME NEW i \in Pongs PROVE Publishes(i)'
  <2>1. CASE Tick
    <3>1. CASE started' = started /\ task_id' = current_task'
      BY <1>2, <3>1 DEF RecordInv, Publishes, FirstSlice, pong_vars
    <3>2. CASE /\ current_task' \notin started /\ tick_count \in BootTicks
               /\ started' = started \cup {current_task'}
               /\ UNCHANGED <<tick_count, task_id>>
      <4>1. FirstSlice(i)' => NoPointYet(i)' /\ tick_count' \in BootTicks
        BY <1>2, <3>2 DEF RecordInv, Publishes, FirstSlice, NoPointYet, pong_vars
      <4> QED BY <1>2, <3>2, <4>1 DEF RecordInv, Publishes, pong_vars
    <3> QED BY <2>1, <3>1, <3>2, FirstRoundNext DEF RecordInv
  <2>2. CASE ~Tick
    <3>1. UNCHANGED clock_vars
      BY <2>2 DEF ReadScore, DrawScores, vars
    <3> QED BY <1>2, <3>1 DEF RecordInv, Publishes, FirstSlice, NoPointYet, clock_vars, pong_vars
  <2> QED BY <2>1, <2>2
<1> QED BY <1>1, <1>2, <1>3 DEF RecordInv, pong_vars

(* A game starts or ends: in either case it has nothing published to keep.  *)
LEMMA RecordPartida ==
  ASSUME RecordInv, [Next]_vars, NEW i \in Pongs, StartPartida(i) \/ EndPartida(i)
  PROVE  RecordInv'
<1>1. GoodGames' /\ FirstRound'
  BY GamesNext, FirstRoundNext DEF RecordInv
<1>2. \A j \in Pongs \ {i} : Publishes(j)'
  BY OthersPublish DEF RecordInv, GoodGames, StartPartida, EndPartida, clock_vars, score_vars
<1>3. CASE StartPartida(i)
  <2>1. pc'[i] = "turn" /\ game'[i] = NewGame /\ i \in started
        /\ UNCHANGED <<clock_vars, record, id, clock_time>>
    BY <1>3 DEF RecordInv, GoodGames, StartPartida, Runs
  <2>2. \A p \in Players : NewGame.score[p] = 0
    BY DEF NewGame
  <2>3. Publishes(i)'
    BY <2>1, <2>2 DEF RecordInv, Publishes, FirstSlice, NoPointYet, clock_vars
  <2>4. pc' \in [Pongs -> {"enter", "turn", "task_id", "record1", "record2", "sleep"}]
    BY <1>3 DEF RecordInv, StartPartida
  <2> QED BY <1>1, <1>2, <2>1, <2>3, <2>4 DEF RecordInv
<1>4. CASE EndPartida(i)
  <2>1. pc'[i] = "enter" /\ i \in started
        /\ UNCHANGED <<clock_vars, record, game, id, clock_time>>
    BY <1>4 DEF RecordInv, EndPartida, Runs
  <2>2. Publishes(i)'
    BY <2>1 DEF RecordInv, Publishes, FirstSlice, NoPointYet, clock_vars
  <2>3. pc' \in [Pongs -> {"enter", "turn", "task_id", "record1", "record2", "sleep"}]
    BY <1>4 DEF RecordInv, EndPartida
  <2> QED BY <1>1, <1>2, <2>1, <2>2, <2>3 DEF RecordInv
<1> QED BY <1>3, <1>4

(* A turn: either it keeps the scores, and what is published of them, or    *)
(* there is a point, which is not the case in the first turn of a game.     *)
LEMMA RecordTurn ==
  ASSUME RecordInv, [Next]_vars, NEW i \in Pongs, NEW keys \in Keys, Turn(i, keys)
  PROVE  RecordInv'
<1> DEFINE g == Play(game[i], keys)
<1>0. GoodGames' /\ FirstRound' /\ GoodGame(game[i])
  BY GamesNext, FirstRoundNext DEF RecordInv, GoodGames, GoodGame, BallOnScreen, ServerHoldsBall
<1>1. \A j \in Pongs \ {i} : Publishes(j)'
  BY OthersPublish DEF RecordInv, GoodGames, Turn, EndTurn, clock_vars, score_vars
<1>2. /\ i \in started /\ pc[i] = "turn"
      /\ UNCHANGED <<clock_vars, record, id>>
  BY DEF Turn, Runs
<1>3. CASE g.score = game[i].score
  <2>1. EndTurn(i, g)
    BY <1>3 DEF Turn
  <2>2. g \in Game
    BY <1>0, <1>3, PlayGood DEF GoodBeforeRebound
  <2>3. pc'[i] = "sleep" /\ game'[i].score = game[i].score /\ clock_time'[i] = tick_count
    BY <1>3, <2>1, <2>2, ReboundScore DEF EndTurn, RecordInv, GoodGames
  <2>4. FirstSlice(i) => game[i].score = NewGame.score
    BY <1>2 DEF RecordInv, Publishes, NoPointYet
  <2>5. Publishes(i)'
    BY <1>2, <2>3, <2>4 DEF RecordInv, Publishes, FirstSlice, NoPointYet, clock_vars
  <2>6. /\ pc' \in [Pongs -> {"enter", "turn", "task_id", "record1", "record2", "sleep"}]
        /\ DOMAIN clock_time' = Pongs
    BY <2>1 DEF RecordInv, EndTurn
  <2> QED BY <1>0, <1>1, <1>2, <2>5, <2>6 DEF RecordInv
<1>4. CASE g.score # game[i].score
  <2>1. game' = [game EXCEPT ![i] = g] /\ pc' = [pc EXCEPT ![i] = "task_id"]
        /\ UNCHANGED clock_time
    BY <1>4 DEF Turn
  <2>2. ~FirstSlice(i)
    BY <1>2, <1>4, FirstTurnScoresNothing DEF RecordInv, Publishes, NoPointYet
  <2>3. pc'[i] = "task_id"
    BY <2>1 DEF RecordInv
  <2>4. Publishes(i)'
    BY <1>2, <2>2, <2>3 DEF Publishes, FirstSlice, clock_vars
  <2>5. pc' \in [Pongs -> {"enter", "turn", "task_id", "record1", "record2", "sleep"}]
    BY <2>1 DEF RecordInv
  <2> QED BY <1>0, <1>1, <1>2, <2>1, <2>4, <2>5 DEF RecordInv
<1> QED BY <1>3, <1>4

(* The scores are published step by step: whose they are, one, the other.   *)
LEMMA RecordPublish ==
  ASSUME RecordInv, [Next]_vars, NEW i \in Pongs,
         ReadTaskId(i) \/ StoreScore1(i) \/ StoreScore2(i)
  PROVE  RecordInv'
<1>0. /\ GoodGames' /\ FirstRound' /\ GoodGame(game[i])
      /\ game[i].score \in [Players -> Nat] /\ 1 \in Players /\ 2 \in Players
  BY GamesNext, FirstRoundNext
     DEF RecordInv, GoodGames, GoodGame, BallOnScreen, ServerHoldsBall, Game, Players
<1>1. task_id = i /\ ~FirstSlice(i)
  BY PageNames DEF ReadTaskId, StoreScore1, StoreScore2, NoPointYet, FirstSlice
<1>2. i \in started /\ UNCHANGED clock_vars
  BY DEF ReadTaskId, StoreScore1, StoreScore2, Runs
<1>3. i \in Slots
  BY <1>2 DEF RecordInv, FirstRound
<1>4. CASE ReadTaskId(i)
  <2>1. pc' = [pc EXCEPT ![i] = "record1"] /\ id' = [id EXCEPT ![i] = task_id]
        /\ UNCHANGED <<clock_vars, record, game, clock_time>>
    BY <1>4 DEF ReadTaskId
  <2>2. pc'[i] = "record1" /\ id'[i] = i
    BY <1>1, <2>1 DEF RecordInv
  <2>3. Publishes(i)'
    BY <1>1, <1>2, <2>1, <2>2 DEF Publishes, FirstSlice, clock_vars
  <2>4. \A j \in Pongs \ {i} : Publishes(j)'
    BY <1>2, <2>1, OthersPublish DEF RecordInv
  <2>5. /\ pc' \in [Pongs -> {"enter", "turn", "task_id", "record1", "record2", "sleep"}]
        /\ DOMAIN id' = Pongs
    BY <2>1 DEF RecordInv
  <2> QED BY <1>0, <2>1, <2>3, <2>4, <2>5 DEF RecordInv
<1>5. CASE StoreScore1(i)
  <2>1. id[i] = i
    BY <1>5 DEF StoreScore1, RecordInv, Publishes
  <2>2. pc' = [pc EXCEPT ![i] = "record2"]
        /\ record' = [record EXCEPT ![i] = [record[i] EXCEPT ![1] = game[i].score[1]]]
        /\ UNCHANGED <<clock_vars, id, game, clock_time>>
    BY <1>5, <2>1 DEF StoreScore1, Store
  <2>3. record' \in [Slots -> [Players -> Nat]] /\ record'[i][1] = game[i].score[1]
    BY <1>0, <1>3, <2>2 DEF RecordInv
  <2>4. Publishes(i)'
    BY <1>1, <1>2, <2>1, <2>2, <2>3 DEF RecordInv, Publishes, FirstSlice, clock_vars
  <2>5. \A j \in Pongs \ {i} : Publishes(j)'
    BY <1>2, <2>2, OthersPublish DEF RecordInv
  <2>6. pc' \in [Pongs -> {"enter", "turn", "task_id", "record1", "record2", "sleep"}]
    BY <2>2 DEF RecordInv
  <2> QED BY <1>0, <2>2, <2>3, <2>4, <2>5, <2>6 DEF RecordInv
<1>6. CASE StoreScore2(i)
  <2>1. id[i] = i /\ record[i][1] = game[i].score[1]
    BY <1>6 DEF StoreScore2, RecordInv, Publishes
  <2>2. pc' = [pc EXCEPT ![i] = "sleep"] /\ game' = [game EXCEPT ![i] = Rebound(game[i])]
        /\ record' = [record EXCEPT ![i] = [record[i] EXCEPT ![2] = game[i].score[2]]]
        /\ clock_time' = [clock_time EXCEPT ![i] = tick_count]
        /\ UNCHANGED <<clock_vars, id>>
    BY <1>6, <2>1 DEF StoreScore2, Store, EndTurn
  <2>3. game' = game
    BY <1>0, <2>2, ReboundLeavesGood DEF RecordInv, GoodGames
  <2>4. record' \in [Slots -> [Players -> Nat]]
    BY <1>0, <1>3, <2>2 DEF RecordInv
  <2>5. record'[i] = game[i].score
    <3>1. /\ record'[i] = [record[i] EXCEPT ![2] = game[i].score[2]]
          /\ record[i] \in [Players -> Nat]
      BY <1>3, <2>2 DEF RecordInv
    <3>2. \A p \in Players : p = 1 \/ p = 2
      BY DEF Players
    <3> QED BY <1>0, <2>1, <3>1, <3>2
  <2>6. Publishes(i)'
    <3>1. pc'[i] = "sleep" /\ ~FirstSlice(i)'
      BY <1>1, <2>2 DEF RecordInv, FirstSlice, clock_vars
    <3> QED BY <1>2, <2>2, <2>3, <2>5, <3>1 DEF Publishes, clock_vars
  <2>7. \A j \in Pongs \ {i} : Publishes(j)'
    BY <1>2, <2>2, OthersPublish DEF RecordInv
  <2>8. /\ pc' \in [Pongs -> {"enter", "turn", "task_id", "record1", "record2", "sleep"}]
        /\ DOMAIN clock_time' = Pongs
    BY <2>2 DEF RecordInv
  <2> QED BY <1>0, <2>2, <2>4, <2>6, <2>7, <2>8 DEF RecordInv
<1> QED BY <1>4, <1>5, <1>6

(* A sleep does not end in the first turn of the processor: no tick has     *)
(* been counted since it began, and the sum does not wrap.                  *)
LEMMA RecordWake ==
  ASSUME ClockFarFromWrap, RecordInv, [Next]_vars, NEW i \in Pongs, Wake(i)
  PROVE  RecordInv'
<1>0. GoodGames' /\ FirstRound'
  BY GamesNext, FirstRoundNext DEF RecordInv
<1>1. /\ pc[i] = "sleep" /\ pc' = [pc EXCEPT ![i] = "turn"] /\ i \in started
      /\ UNCHANGED <<clock_vars, record, game, id, clock_time>>
  BY DEF Wake, Runs
<1>2. ~FirstSlice(i)
  <2>1. SUFFICES ASSUME FirstSlice(i) PROVE FALSE
    OBVIOUS
  <2>2. tick_count \in BootTicks /\ clock_time[i] = tick_count
    BY <1>1, <2>1 DEF RecordInv, Publishes, NoPointYet
  <2>3. /\ WORD \in Nat \ {0} /\ SLEEP \in Nat \ {0} /\ tick_count \in Nat
        /\ tick_count + SLEEP < WORD
    BY <2>2, TasksAssumption DEF ClockFarFromWrap
  <2>4. (tick_count + SLEEP) % WORD = tick_count + SLEEP
    BY <2>3
  <2>5. tick_count >= (tick_count + SLEEP) % WORD
    BY <2>2 DEF Wake, SleepOver
  <2> QED BY <2>3, <2>4, <2>5
<1>3. pc'[i] = "turn"
  BY <1>1 DEF RecordInv
<1>4. Publishes(i)'
  BY <1>1, <1>2, <1>3 DEF RecordInv, Publishes, FirstSlice, clock_vars
<1>5. \A j \in Pongs \ {i} : Publishes(j)'
  BY <1>1, OthersPublish DEF RecordInv
<1>6. pc' \in [Pongs -> {"enter", "turn", "task_id", "record1", "record2", "sleep"}]
  BY <1>1 DEF RecordInv
<1> QED BY <1>0, <1>1, <1>4, <1>5, <1>6 DEF RecordInv

(* The invariant is inductive.                                              *)
LEMMA RecordNext == ASSUME ClockFarFromWrap PROVE RecordInv /\ [Next]_vars => RecordInv'
BY RecordTick, RecordPartida, RecordTurn, RecordPublish, RecordWake DEF Next

(* A game that has had a point has its scores in the page, whole, whenever  *)
(* it is not publishing them: no other task overwrites them.  tick_count    *)
(* must not be at the end of its range at boot.                             *)
THEOREM RecordMatchesHolds == ASSUME ClockFarFromWrap PROVE Spec => []RecordMatches
<1>1. RecordInv => RecordMatches
  BY DEF RecordInv, Publishes, RecordMatches
<1> QED BY <1>1, RecordInit, RecordNext, PTL DEF Spec

(* A task writes its scores in its own place only, although it learns which *)
(* place that is from the shared page.                                      *)
THEOREM RecordsOwnedHolds == ASSUME ClockFarFromWrap PROVE Spec => RecordsOwned
<1>1. ASSUME RecordInv, [Next]_vars
      PROVE  [\A i \in Slots : record'[i] # record[i] => i \in Pongs /\ Runs(i)]_vars
  <2>1. SUFFICES ASSUME NEW i \in Slots, record'[i] # record[i]
                 PROVE  i \in Pongs /\ Runs(i)
    OBVIOUS
  <2>2. PICK j \in Pongs : StoreScore1(j) \/ StoreScore2(j)
    BY <1>1, <2>1 DEF Next, Tick, StartPartida, EndPartida, Turn, ReadTaskId, Wake,
                      ReadScore, DrawScores, vars
  <2>3. id[j] = j /\ Runs(j)
    BY <1>1, <2>2 DEF RecordInv, Publishes, StoreScore1, StoreScore2
  <2>4. \E s \in [Players -> Nat] : record' = [record EXCEPT ![j] = s]
    <3>1. /\ game[j].score \in [Players -> Nat] /\ 1 \in Players /\ 2 \in Players
          /\ j \in Slots /\ record[j] \in [Players -> Nat]
      BY <1>1, <2>3 DEF RecordInv, GoodGames, Game, Players, FirstRound, Runs
    <3>2. \E p \in Players :
             record' = [record EXCEPT ![j] = [record[j] EXCEPT ![p] = game[j].score[p]]]
      BY <2>2, <2>3, <3>1 DEF StoreScore1, StoreScore2, Store
    <3> QED BY <3>1, <3>2
  <2> QED BY <1>1, <2>1, <2>3, <2>4 DEF RecordInv
<1> QED BY <1>1, RecordInit, RecordNext, PTL DEF Spec, RecordsOwned


-----------------------------------------------------------------------------
(* The scoreboard *)

ScoreInv ==
    /\ GoodGames
    /\ record \in [Slots -> [Players -> Nat]]
    /\ reads \in Seq(Nat) /\ Len(reads) <= 2 * CANT_PONGS

(* The reads of a pass are the words of the games, in order.                *)
LEMMA WordIs ==
    ASSUME record \in [Slots -> [Players -> Nat]]
    PROVE  /\ \A n \in 0 .. 2 * CANT_PONGS - 1 : ReadWord(n) \in Nat
           /\ \A i \in 0 .. CANT_PONGS - 1, p \in Players :
                /\ 2 * i + p - 1 \in 0 .. 2 * CANT_PONGS - 1
                /\ ReadWord(2 * i + p - 1) = record[i][p]
<1>1. CANT_PONGS \in 0 .. N /\ N \in Nat
  BY TasksAssumption
<1>2. ASSUME NEW n \in 0 .. 2 * CANT_PONGS - 1 PROVE ReadWord(n) \in Nat
  <2>1. n \div 2 \in 0 .. N - 1 /\ (n % 2) + 1 \in 1 .. 2
    BY <1>1
  <2> QED BY <2>1 DEF ReadWord, Slots, Players
<1>3. ASSUME NEW i \in 0 .. CANT_PONGS - 1, NEW p \in Players
      PROVE  /\ 2 * i + p - 1 \in 0 .. 2 * CANT_PONGS - 1
             /\ ReadWord(2 * i + p - 1) = record[i][p]
  <2>1. p = 1 \/ p = 2
    BY DEF Players
  <2>2. /\ 2 * i + p - 1 \in 0 .. 2 * CANT_PONGS - 1
        /\ (2 * i + p - 1) \div 2 = i /\ ((2 * i + p - 1) % 2) + 1 = p
    BY <1>1, <2>1
  <2> QED BY <2>2 DEF ReadWord
<1> QED BY <1>2, <1>3

(* What the scoreboard has read is a part of a pass.                        *)
LEMMA ScoreInit == Init => ScoreInv
<1> SUFFICES ASSUME Init PROVE ScoreInv
  OBVIOUS
<1>1. record \in [Slots -> [Players -> Nat]]
  BY TasksAssumption DEF Init
<1>2. reads \in Seq(Nat) /\ Len(reads) <= 2 * CANT_PONGS
  BY TasksAssumption DEF Init
<1> QED BY <1>1, <1>2, GamesInit DEF ScoreInv

(* A word is read.                                                          *)
LEMMA ScoreRead ==
    ASSUME ScoreInv, ReadScore
    PROVE  /\ reads' \in Seq(Nat) /\ Len(reads') = Len(reads) + 1 /\ Len(reads') <= 2 * CANT_PONGS
           /\ \A n \in 0 .. Len(reads) - 1 : reads'[n + 1] = reads[n + 1]
           /\ reads'[Len(reads) + 1] = ReadWord(Len(reads))
<1> DEFINE L == Len(reads)
           word == ReadWord(L)
<1>1. /\ reads \in Seq(Nat) /\ L \in Nat /\ L < 2 * CANT_PONGS /\ reads' = Append(reads, word)
  BY LenProperties DEF ScoreInv, ReadScore
<1>2. CANT_PONGS \in Nat
  BY TasksAssumption
<1>3. L \in 0 .. 2 * CANT_PONGS - 1
  BY <1>1, <1>2
<1>4. word \in Nat
  BY <1>3, WordIs DEF ScoreInv
<1> HIDE DEF L, word
<1>5. /\ reads' \in Seq(Nat) /\ Len(reads') = Len(reads) + 1
      /\ \A n \in 1 .. Len(reads) : reads'[n] = reads[n]
      /\ reads'[Len(reads) + 1] = word
  BY <1>1, <1>4, AppendProperties
<1>6. \A n \in 0 .. L - 1 : n + 1 \in 1 .. L
  BY <1>1
<1> QED BY <1>1, <1>2, <1>5, <1>6 DEF L, word

(* No step breaks the invariant.                                            *)
LEMMA ScoreNext == ScoreInv /\ [Next]_vars => ScoreInv'
<1> SUFFICES ASSUME ScoreInv, [Next]_vars PROVE ScoreInv'
  OBVIOUS
<1>1. GoodGames'
  BY GamesNext DEF ScoreInv
<1>2. record' \in [Slots -> [Players -> Nat]]
  <2>1. ASSUME NEW i \in Pongs, NEW p \in Players, Store(i, p)
        PROVE  record' \in [Slots -> [Players -> Nat]]
    <3>1. game[i].score[p] \in Nat /\ record \in [Slots -> [Players -> Nat]]
      BY DEF ScoreInv, GoodGames, Game
    <3>2. record' = [record EXCEPT ![id[i]] = [record[id[i]] EXCEPT ![p] = game[i].score[p]]]
      BY <2>1 DEF Store
    <3>3. CASE id[i] \in Slots
      BY <3>1, <3>2, <3>3
    <3>4. CASE id[i] \notin Slots
      BY <3>1, <3>2, <3>4
    <3> QED BY <3>3, <3>4
  <2>2. ASSUME NEW i \in Pongs, StoreScore1(i) \/ StoreScore2(i)
        PROVE  record' \in [Slots -> [Players -> Nat]]
    BY <2>1, <2>2 DEF StoreScore1, StoreScore2, Players
  <2>3. CASE UNCHANGED record
    BY <2>3 DEF ScoreInv
  <2> QED BY <2>2, <2>3 DEF Next, Tick, StartPartida, EndPartida, Turn, ReadTaskId, Wake,
                            ReadScore, DrawScores, vars
<1>3. reads' \in Seq(Nat) /\ Len(reads') <= 2 * CANT_PONGS
  <2>1. CASE ReadScore
    BY <2>1, ScoreRead
  <2>2. CASE DrawScores
    BY <2>2, TasksAssumption DEF DrawScores
  <2>3. CASE UNCHANGED reads
    BY <2>3 DEF ScoreInv
  <2> QED BY <2>1, <2>2, <2>3 DEF Next, Tick, StartPartida, EndPartida, Turn, ReadTaskId,
                                  StoreScore1, StoreScore2, Wake, vars, score_vars
<1> QED BY <1>1, <1>2, <1>3 DEF ScoreInv

(* While no score is stored each read is one of the few left of the pass,   *)
(* and a pass that starts from there is drawn right: with the fairness of   *)
(* the clock, why the scoreboard catches up.  For any number of games, and  *)
(* whatever the page held at boot.                                          *)
THEOREM ScoreboardNearerHolds == Spec => ScoreboardNearer
<1> DEFINE Step == record' = record =>
         /\ reads' # reads => \/ reads' = <<>>
                              \/ Len(reads') = Len(reads) + 1 /\ Len(reads') <= 2 * CANT_PONGS
         /\ WordsRead => WordsRead'
         /\ WordsRead /\ (ScoresShown \/ (reads # <<>> /\ reads' = <<>>)) => ScoresShown'
<1>1. ASSUME ScoreInv, [Next]_vars, record' = record PROVE Step
  <2>0. \A n : ReadWord(n)' = ReadWord(n)
    BY <1>1 DEF ReadWord
  <2>1. CASE ReadScore
    <3>1. /\ Len(reads) \in Nat /\ Len(reads') = Len(reads) + 1 /\ Len(reads') <= 2 * CANT_PONGS
          /\ \A n \in 0 .. Len(reads) - 1 : reads'[n + 1] = reads[n + 1]
          /\ reads'[Len(reads) + 1] = ReadWord(Len(reads))
      BY <1>1, <2>1, ScoreRead, LenProperties DEF ScoreInv
    <3>2. WordsRead => WordsRead'
      <4>1. \A n \in 0 .. Len(reads') - 1 : n \in 0 .. Len(reads) - 1 \/ n = Len(reads)
        BY <3>1
      <4>2. WordsRead' <=> \A n \in 0 .. Len(reads') - 1 : reads'[n + 1] = ReadWord(n)
        BY <2>0 DEF WordsRead
      <4> QED BY <3>1, <4>1, <4>2 DEF WordsRead
    <3>3. reads' # <<>>
      BY <3>1
    <3>4. ScoresShown => ScoresShown'
      BY <1>1, <2>1 DEF ScoresShown, ReadScore
    <3> QED BY <3>1, <3>2, <3>3, <3>4
  <2>2. CASE DrawScores
    <3>1. reads' = <<>> /\ shown' = reads /\ Len(reads) = 2 * CANT_PONGS
      BY <2>2 DEF DrawScores
    <3>2. WordsRead'
      BY <3>1 DEF WordsRead
    <3>3. ASSUME WordsRead PROVE ScoresShown'
      <4>1. ASSUME NEW i \in 0 .. CANT_PONGS - 1, NEW p \in Players
            PROVE  reads[2 * i + p] = record[i][p]
        <5>1. /\ 2 * i + p - 1 \in 0 .. Len(reads) - 1
              /\ ReadWord(2 * i + p - 1) = record[i][p]
          BY <1>1, <3>1, WordIs DEF ScoreInv
        <5>2. (2 * i + p - 1) + 1 = 2 * i + p
          BY DEF Players
        <5>3. reads[(2 * i + p - 1) + 1] = ReadWord(2 * i + p - 1)
          BY <3>3, <5>1 DEF WordsRead
        <5> QED BY <5>1, <5>2, <5>3
      <4> QED BY <1>1, <3>1, <4>1 DEF ScoresShown
    <3> QED BY <3>1, <3>2, <3>3
  <2>3. CASE UNCHANGED <<reads, shown>>
    <3>1. (WordsRead' <=> WordsRead) /\ (ScoresShown' <=> ScoresShown)
      BY <1>1, <2>0, <2>3 DEF WordsRead, ScoresShown
    <3> QED BY <2>3, <3>1
  <2> QED BY <1>1, <2>1, <2>2, <2>3 DEF Next, Tick, StartPartida, EndPartida, Turn, ReadTaskId,
                                        StoreScore1, StoreScore2, Wake, vars, score_vars
<1>2. ScoreInv /\ [Next]_vars => [Step]_vars
  BY <1>1
<1> QED BY <1>2, ScoreInit, ScoreNext, PTL DEF Spec, ScoreboardNearer
=============================================================================
