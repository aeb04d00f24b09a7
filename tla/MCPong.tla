------------------------------- MODULE MCPong -------------------------------
(***************************************************************************)
(* Small instances of PongTasks.  MCPong.cfg: a game and the scoreboard on *)
(* the narrowest board on which a serve is not a point at once.            *)
(* MCPongSleepEnds.cfg: one game on a clock that wraps soon; SLEEP is 2    *)
(* modulo 4 and WORD is 0 modulo 4, as 50 and 2^32 are.                    *)
(***************************************************************************)
EXTENDS PongTasks

NoScoreboard == -1
==============================================================================
