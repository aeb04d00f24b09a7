---------------------------- MODULE SchedWaiting ----------------------------
(***************************************************************************)
(* The scheduler of Sched.tla together with a history variable: for each   *)
(* slot, how many times in a row other tasks were dispatched while it was  *)
(* runnable.  The scheduler's own variables behave exactly as in Sched;    *)
(* waits only observes them.                                               *)
(***************************************************************************)
EXTENDS Sched

VARIABLE waits

vars == <<sched_vars, waits>>

(* A slot stops waiting when it is dispatched or cannot run; otherwise each *)
(* dispatch is one more it waited through.  The count saturates at          *)
(* MAX_TASKS, one more than the bound claimed for it.                       *)
WaitsAfterDispatch ==
    [i \in Slots |-> IF ~Runnable(i) \/ i = current_task' THEN 0
                     ELSE IF waits[i] < MAX_TASKS THEN waits[i] + 1
                     ELSE waits[i]]

Init == SchedInit /\ waits = [i \in Slots |-> 0]

Next ==
    \/ /\ \/ \E s \in Selectors \cup {NullSelector} : Add(s)
          \/ \E i \in Slots : Enable(i)
          \/ HaltLoop
       /\ UNCHANGED waits
    \/ \E i \in Slots : Disable(i) /\ waits' = [waits EXCEPT ![i] = 0]
    \/ Dispatch /\ waits' = WaitsAfterDispatch

Spec == Init /\ [][Next]_vars

(* The clock keeps interrupting, and its handler calls sched_next_task at  *)
(* every tick (isr.asm, line 197).                                          *)
FairSpec == Spec /\ WF_vars(Dispatch /\ waits' = WaitsAfterDispatch)

-----------------------------------------------------------------------------
TypeOK == SchedTypeOK /\ waits \in [Slots -> 0 .. MAX_TASKS]

(* A slot that is not free has the selector its creator registered, so that *)
(* the jump of the clock handler never goes through the null selector.      *)
RegisteredHaveSelector ==
    \A i \in Registered : sched_tasks[i].selector \in Selectors

(* The strengthening of BoundedWait: each dispatch a slot waits through     *)
(* brings the search at least one slot nearer to it.                        *)
WaitsBounded == \A i \in Slots : waits[i] + Distance(i) <= MAX_TASKS

IInv == TypeOK /\ RegisteredHaveSelector /\ WaitsBounded

(* No runnable task is passed over more than MAX_TASKS - 1 times in a row:  *)
(* whatever the other tasks do in between (being added, paused or resumed), *)
(* the search of sched_next_task (sched.c, lines 103-108) reaches it.       *)
BoundedWait == \A i \in Slots : Runnable(i) => waits[i] < MAX_TASKS

(* sched_next_task answers with the idle task exactly when no task can run  *)
(* (sched.c, lines 94-96), and otherwise with the selector of the task it   *)
(* leaves in current_task, which can run.                                   *)
IdleOnlyWhenNothingRuns ==
    [][Dispatch =>
          /\ next_selector' = IdleSelector <=> \A i \in Slots : ~Runnable(i)
          /\ next_selector' # IdleSelector =>
                /\ Runnable(current_task')
                /\ next_selector' = sched_tasks[current_task'].selector]_vars

(* A registered task keeps its identifier and its selector: adding a task   *)
(* never takes the slot of another one, paused ones included (sched.c,      *)
(* lines 52-61).                                                            *)
RegistrationsKept ==
    [][\A i \in Registered : /\ i \in Registered'
                             /\ sched_tasks'[i].selector = sched_tasks[i].selector]_vars

(* A task that stays runnable runs again and again. *)
NoStarvation ==
    \A i \in Slots : <>[](~halted /\ Runnable(i)) => []<>(current_task = i)
==============================================================================
