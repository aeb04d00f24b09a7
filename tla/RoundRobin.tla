----------------------------- MODULE RoundRobin -----------------------------
(***************************************************************************)
(* What the comment on sched_next_task promises (src/src/sched.c, lines    *)
(* 94-99): a round-robin policy over the tasks that can run, and the idle  *)
(* task only when there is none.                                           *)
(*                                                                         *)
(* The tasks stand in a queue.  A dispatch gives the processor to the      *)
(* first ready task and turns the queue until that task is the last one:   *)
(* the tasks passed over were not ready, and queue up behind it again.     *)
(* Nothing here speaks of slots, indices or arithmetic modulo MAX_TASKS.   *)
(***************************************************************************)
EXTENDS Naturals

CONSTANTS Tasks, N

VARIABLES queue,   \* a permutation of Tasks, the next in turn first
          ready    \* the tasks that can run

Positions == 1 .. N

(* The queue after k places have moved from its head to its tail. *)
Turned(k) == [p \in Positions |->
                 IF p + k <= N THEN queue[p + k] ELSE queue[p + k - N]]

FirstReady(k) == /\ k \in Positions
                 /\ queue[k] \in ready
                 /\ \A p \in Positions : p < k => queue[p] \notin ready

Init == /\ queue \in [Positions -> Tasks]
        /\ \A t \in Tasks : \E p \in Positions : queue[p] = t
        /\ ready = {}

BecomeReady(t) == ready' = ready \cup {t} /\ UNCHANGED queue

Pause(t) == ready' = ready \ {t} /\ UNCHANGED queue

Dispatch == /\ \E k \in Positions : FirstReady(k) /\ queue' = Turned(k)
            /\ UNCHANGED ready

Next == \/ \E t \in Tasks : BecomeReady(t) \/ Pause(t)
        \/ Dispatch

Spec == Init /\ [][Next]_<<queue, ready>>
==============================================================================
