------------------------------ MODULE PongTasks ------------------------------
(***************************************************************************)
(* The programs the kernel runs: games of Pong (tareas/taskPong.c) and the *)
(* scoreboard (tareas/taskPongScoreboard.c), which share the on-demand     *)
(* page.  The clock takes the processor from one to the next in turn, as   *)
(* Sched and Kernel do when every slot is runnable: the first dispatch of  *)
(* a task enters it at its code, and only the later ones count the tick    *)
(* and tell the shared page who runs.                                      *)
(*                                                                         *)
(* A program's own variables are private (Mmu, Isolation), so its step     *)
(* ends at each access to memory that another can change.  A key may       *)
(* change between any two reads: each read is an arbitrary boolean.        *)
(***************************************************************************)
EXTENDS Pong, Sequences

CONSTANTS
    N,              \* slots in use
    Pongs,          \* the slots that run taskPong
    Scoreboard,     \* the slot that runs taskPongScoreboard; the others run neither
    CANT_PONGS,
    SLEEP,          \* ticks between turns: 50
    WORD,           \* values of a uint32_t
    BootTicks,      \* tick_count at boot: the shared page is not cleared
    BootScores,     \* words of the on-demand page at boot: it is not cleared
    MAX_SCORE       \* bound: the points of a player in a game

ASSUME TasksAssumption ==
    /\ N \in Nat \ {0}
    /\ Pongs \subseteq 0 .. N - 1
    /\ Scoreboard \notin Pongs
    /\ CANT_PONGS \in 0 .. N
    /\ SLEEP \in Nat \ {0} /\ WORD \in Nat \ {0}
    /\ BootTicks \subseteq 0 .. WORD - 1
    /\ BootScores \subseteq Nat
    /\ MAX_SCORE \in Nat

VARIABLES
    current_task, started, \* the slot in turn; the slots dispatched so far
    tick_count, task_id,   \* the shared page
    record,                \* the scores in the on-demand page
    pc, game,              \* where each Pong is, and its game
    id,                    \* local of update_shared_record_score
    clock_time,            \* local of task_sleep
    reads, shown           \* what the scoreboard has read and last drew

clock_vars == <<current_task, started, tick_count, task_id>>
pong_vars == <<pc, game, id, clock_time>>
score_vars == <<reads, shown>>
vars == <<clock_vars, record, pong_vars, score_vars>>

Slots == 0 .. N - 1

Runs(i) == current_task = i /\ i \in started

Init ==
    /\ current_task = 0 /\ started = {}
    /\ tick_count \in BootTicks /\ task_id = 0
    /\ record \in [Slots -> [Players -> BootScores]]
    /\ pc = [i \in Pongs |-> "enter"]
    /\ game = [i \in Pongs |-> NewGame]
    /\ id = [i \in Pongs |-> 0]
    /\ clock_time = [i \in Pongs |-> 0]
    /\ reads = <<>> /\ shown = <<>>

(* Mutant: the tick is counted, and nobody is told who runs. *)
tasks_tick_count_only == /\ tick_count' = (tick_count + 1) % WORD
                         /\ task_id' = task_id

tasks_tick == /\ tick_count' = (tick_count + 1) % WORD
              /\ task_id' = current_task'

(* The clock handler. *)
Tick ==
    /\ current_task' = (current_task + 1) % N
    /\ \/ /\ current_task' \in started
          /\ tasks_tick
          /\ UNCHANGED started
       \/ /\ current_task' \notin started
          /\ started' = started \cup {current_task'}
          /\ UNCHANGED <<tick_count, task_id>>
    /\ UNCHANGED <<record, pong_vars, score_vars>>

-----------------------------------------------------------------------------
(* taskPong.c *)

(* Enter is pressed at the instructions: a game starts. *)
StartPartida(i) ==
    /\ Runs(i) /\ pc[i] = "enter"
    /\ pc' = [pc EXCEPT ![i] = "turn"]
    /\ game' = [game EXCEPT ![i] = NewGame]
    /\ UNCHANGED <<clock_vars, record, id, clock_time, score_vars>>

(* Escape ends the game. *)
EndPartida(i) ==
    /\ Runs(i) /\ pc[i] = "turn"
    /\ pc' = [pc EXCEPT ![i] = "enter"]
    /\ UNCHANGED <<clock_vars, record, game, id, clock_time, score_vars>>

(* The rest of a turn, and the start of task_sleep. *)
EndTurn(i, g) ==
    /\ game' = [game EXCEPT ![i] = Rebound(g)]
    /\ pc' = [pc EXCEPT ![i] = "sleep"]
    /\ clock_time' = [clock_time EXCEPT ![i] = tick_count]

(* A turn of the game; a point interrupts it to publish the scores. *)
Turn(i, keys) ==
    LET g == Play(game[i], keys)
    IN  /\ Runs(i) /\ pc[i] = "turn"
        /\ \A p \in Players : g.score[p] <= MAX_SCORE
        /\ \/ /\ g.score = game[i].score
              /\ EndTurn(i, g)
           \/ /\ g.score # game[i].score
              /\ game' = [game EXCEPT ![i] = g]
              /\ pc' = [pc EXCEPT ![i] = "task_id"]
              /\ UNCHANGED clock_time
        /\ UNCHANGED <<clock_vars, record, id, score_vars>>

(* update_shared_record_score asks the shared page who it is ... *)
ReadTaskId(i) ==
    /\ Runs(i) /\ pc[i] = "task_id"
    /\ id' = [id EXCEPT ![i] = task_id]
    /\ pc' = [pc EXCEPT ![i] = "record1"]
    /\ UNCHANGED <<clock_vars, record, game, clock_time, score_vars>>

(* Mutant: the first score is stored twice. *)
StoreFirst(i, p) == record' = [record EXCEPT ![id[i]][p] = game[i].score[1]]

Store(i, p) == record' = [record EXCEPT ![id[i]][p] = game[i].score[p]]

(* ... and stores one score ... *)
StoreScore1(i) ==
    /\ Runs(i) /\ pc[i] = "record1"
    /\ Store(i, 1)
    /\ pc' = [pc EXCEPT ![i] = "record2"]
    /\ UNCHANGED <<clock_vars, game, id, clock_time, score_vars>>

(* ... and then the other.  The turn goes on: a ball that was put in front  *)
(* of the left wall is not at the right one.                                *)
StoreScore2(i) ==
    /\ Runs(i) /\ pc[i] = "record2"
    /\ Store(i, 2)
    /\ EndTurn(i, game[i])
    /\ UNCHANGED <<clock_vars, id, score_vars>>

(* task_sleep: the sum wraps like a uint32_t. *)
SleepOver(i) == tick_count >= (clock_time[i] + SLEEP) % WORD

Wake(i) ==
    /\ Runs(i) /\ pc[i] = "sleep"
    /\ SleepOver(i)
    /\ pc' = [pc EXCEPT ![i] = "turn"]
    /\ UNCHANGED <<clock_vars, record, game, id, clock_time, score_vars>>

-----------------------------------------------------------------------------
(* taskPongScoreboard.c *)

(* Mutant: the scores of the first game are read for every game. *)
ReadFirstGame(n) == record[0][(n % 2) + 1]

(* The n-th of the reads: game 0, its two scores, game 1, ... *)
ReadWord(n) == record[n \div 2][(n % 2) + 1]

ReadScore ==
    /\ Runs(Scoreboard)
    /\ Len(reads) < 2 * CANT_PONGS
    /\ reads' = Append(reads, ReadWord(Len(reads)))
    /\ UNCHANGED <<clock_vars, record, pong_vars, shown>>

DrawScores ==
    /\ Runs(Scoreboard)
    /\ Len(reads) = 2 * CANT_PONGS
    /\ shown' = reads
    /\ reads' = <<>>
    /\ UNCHANGED <<clock_vars, record, pong_vars>>

-----------------------------------------------------------------------------
Next ==
    \/ Tick
    \/ \E i \in Pongs :
         \/ StartPartida(i) \/ EndPartida(i)
         \/ \E keys \in Keys : Turn(i, keys)
         \/ ReadTaskId(i) \/ StoreScore1(i) \/ StoreScore2(i) \/ Wake(i)
    \/ ReadScore \/ DrawScores

Spec == Init /\ [][Next]_vars

(* The clock is periodic, and a turn of a task is long enough for the       *)
(* instructions up to its next access to shared memory.                     *)
FairSpec ==
    /\ Spec
    /\ WF_vars(Tick)
    /\ \A i \in Pongs : SF_vars(Wake(i))
    /\ SF_vars(ReadScore) /\ SF_vars(DrawScores)

-----------------------------------------------------------------------------
(* Properties *)

(* Between turns the ball and the paddles are where pong_draw may put them: *)
(* it indexes the screen with their positions (taskPong.c, lines 53-56).    *)
BallOnScreen == \A i \in Pongs : OnScreen(game[i])

(* A player who is to serve carries the ball, whatever keys are pressed and *)
(* whoever scored; it is never left at rest (taskPong.c, lines 111-123).    *)
ServerHoldsBall == \A i \in Pongs : HeldOrMoving(game[i])

(* A game that has had a point has its scores in the page, whole, whenever  *)
(* it is not publishing them: no other task overwrites them.                *)
RecordMatches ==
    \A i \in Pongs :
      pc[i] \in {"turn", "sleep"} /\ (\E p \in Players : game[i].score[p] > 0) =>
          record[i] = game[i].score

(* A task writes its scores in its own place only, although it learns which *)
(* place that is from a page that the clock handler updates, and not at the *)
(* first dispatch of a task (taskPong.c, line 104).                         *)
RecordsOwned ==
    [][\A i \in Slots : record'[i] # record[i] => i \in Pongs /\ Runs(i)]_vars

ScoresShown ==
    /\ Len(shown) = 2 * CANT_PONGS
    /\ \A i \in 0 .. CANT_PONGS - 1, p \in Players : shown[2 * i + p] = record[i][p]

(* When no score is stored any more, the scoreboard comes to show the page. *)
ScoreboardCatchesUp == <>[][FALSE]_record => <>[]ScoresShown

WordsRead == \A n \in 0 .. Len(reads) - 1 : reads[n + 1] = ReadWord(n)

(* What ScoreboardCatchesUp rests on, step by step while no score is        *)
(* stored: each word that is read is one of the few that are left of the    *)
(* pass; the words of a pass that has read nothing stale stay right, and    *)
(* what is drawn from them is what the page holds, and goes on being so     *)
(* (taskPongScoreboard.c, lines 20-27).                                     *)
ScoreboardNearer ==
    [][record' = record =>
         /\ reads' # reads => \/ reads' = <<>>
                              \/ Len(reads') = Len(reads) + 1 /\ Len(reads') <= 2 * CANT_PONGS
         /\ WordsRead => WordsRead'
         /\ WordsRead /\ (ScoresShown \/ (reads # <<>> /\ reads' = <<>>)) => ScoresShown']_vars

(* task_lib.h, line 17: the ticks to wait before the execution goes on.     *)
(* It does not go on when tick_count wraps in another task's turn.          *)
SleepEnds == \A i \in Pongs : pc[i] = "sleep" ~> pc[i] = "turn"
==============================================================================
