-------------------------------- MODULE Sched --------------------------------
(***************************************************************************)
(* The scheduler of the kernel (src/src/sched.c): a table of MAX_TASKS     *)
(* slots and the index of the slot that runs.  Each function of sched.c is *)
(* an action.  A failed kassert prints a message and loops for ever: the   *)
(* variable halted records that the machine has stopped there.             *)
(*                                                                         *)
(* The callers of this module keep one rule: an identifier they enable or  *)
(* disable is one that sched_add_task returned (tasks.c, lines 65-74).     *)
(***************************************************************************)
EXTENDS Integers

CONSTANTS
    MAX_TASKS,     \* slots of the table, task_defines.h
    Selectors,     \* the TSS selectors a caller may register
    NullSelector,  \* selector 0
    IdleSelector   \* GDT_IDX_TASK_IDLE << 3

(***************************************************************************)
(* The loop of sched_next_task counts up to current_task + MAX_TASKS in an *)
(* int8_t: more than 64 slots would overflow it.                           *)
(***************************************************************************)
ASSUME MaxTasksAssumption == MAX_TASKS \in 1 .. 64

ASSUME SelectorsAssumption == /\ NullSelector \notin Selectors
                              /\ IdleSelector \notin Selectors

VARIABLES
    sched_tasks,   \* sched_tasks[i]: selector and state of slot i
    current_task,  \* the slot that runs, or ran before the idle task
    next_selector, \* what the last call of sched_next_task returned
    halted         \* a kassert failed

sched_vars == <<sched_tasks, current_task, next_selector, halted>>

Slots == 0 .. MAX_TASKS - 1

TaskStates == {"TASK_SLOT_FREE", "TASK_RUNNABLE", "TASK_PAUSED"}

SchedEntries == [selector : Selectors \cup {NullSelector}, state : TaskStates]

FreeSlots == {i \in Slots : sched_tasks[i].state = "TASK_SLOT_FREE"}

Registered == Slots \ FreeSlots

Runnable(i) == sched_tasks[i].state = "TASK_RUNNABLE"

-----------------------------------------------------------------------------

(* Mutant: any slot that is not running a task counts as free. *)
FirstNotRunnable ==
    CHOOSE i \in Slots : /\ ~Runnable(i)
                         /\ \A j \in Slots : ~Runnable(j) => i <= j

(* The slot sched_add_task fills, and the identifier it returns. *)
FirstFree == CHOOSE i \in FreeSlots : \A j \in FreeSlots : i <= j

(* Mutant: the kassert on the null selector is missing. *)
sched_add_task_any_selector(selector) ==
    /\ FreeSlots # {}
    /\ sched_tasks' = [sched_tasks EXCEPT ![FirstFree] =
                         [selector |-> selector, state |-> "TASK_PAUSED"]]
    /\ UNCHANGED <<current_task, next_selector, halted>>

(* The first free slot is taken and starts paused; the null selector and a  *)
(* full table are failed kasserts.                                          *)
sched_add_task(selector) ==
    \/ /\ selector # NullSelector
       /\ FreeSlots # {}
       /\ sched_tasks' = [sched_tasks EXCEPT ![FirstFree] =
                            [selector |-> selector, state |-> "TASK_PAUSED"]]
       /\ UNCHANGED <<current_task, next_selector, halted>>
    \/ /\ selector = NullSelector \/ FreeSlots = {}
       /\ halted' = TRUE
       /\ UNCHANGED <<sched_tasks, current_task, next_selector>>

sched_disable_task(task_id) ==
    /\ sched_tasks' = [sched_tasks EXCEPT ![task_id].state = "TASK_PAUSED"]
    /\ UNCHANGED <<current_task, next_selector, halted>>

sched_enable_task(task_id) ==
    /\ sched_tasks' = [sched_tasks EXCEPT ![task_id].state = "TASK_RUNNABLE"]
    /\ UNCHANGED <<current_task, next_selector, halted>>

sched_init ==
    /\ sched_tasks' = [i \in Slots |->
                         [sched_tasks[i] EXCEPT !.state = "TASK_SLOT_FREE"]]
    /\ UNCHANGED <<current_task, next_selector, halted>>

-----------------------------------------------------------------------------
(* sched_next_task *)

(* The slot the loop looks at in its k-th turn. *)
SlotAfter(k) == (current_task + k) % MAX_TASKS

(* The slots the loop passes over without stopping in its first k turns. *)
NoneBefore(k) == \A n \in 1 .. k - 1 : ~Runnable(SlotAfter(n))

(* Mutant: the search starts at current_task itself, not after it. *)
StopTurnFromCurrent ==
    CHOOSE k \in 0 .. MAX_TASKS :
        /\ Runnable(SlotAfter(k)) \/ k = MAX_TASKS
        /\ \A n \in 0 .. k - 1 : ~Runnable(SlotAfter(n))

(* Mutant: the search starts one slot too far. *)
StopTurnSkipsOne ==
    CHOOSE k \in 2 .. MAX_TASKS :
        /\ Runnable(SlotAfter(k)) \/ k = MAX_TASKS
        /\ \A n \in 2 .. k - 1 : ~Runnable(SlotAfter(n))

(* The turn at which the loop ends: at the first runnable slot, or back at  *)
(* current_task after MAX_TASKS turns.                                      *)
StopTurn == CHOOSE k \in 1 .. MAX_TASKS :
                /\ Runnable(SlotAfter(k)) \/ k = MAX_TASKS
                /\ NoneBefore(k)

(* The index i after the loop and its reduction modulo MAX_TASKS. *)
NextSlot == SlotAfter(StopTurn)

(* Mutant: the slot found is returned but not remembered. *)
sched_next_task_keep_current ==
    /\ next_selector' = IF Runnable(NextSlot)
                          THEN sched_tasks[NextSlot].selector
                          ELSE IdleSelector
    /\ UNCHANGED <<sched_tasks, current_task, halted>>

(* The slot the loop stops at becomes current_task if it is runnable;       *)
(* otherwise nothing is, and the idle task is due.                          *)
sched_next_task ==
    /\ \/ /\ Runnable(NextSlot)
          /\ current_task' = NextSlot
          /\ next_selector' = sched_tasks[NextSlot].selector
       \/ /\ ~Runnable(NextSlot)
          /\ next_selector' = IdleSelector
          /\ UNCHANGED current_task
    /\ UNCHANGED <<sched_tasks, halted>>

-----------------------------------------------------------------------------

(* The static initialisers of sched.c; nothing has been dispatched yet. *)
SchedInit ==
    /\ sched_tasks = [i \in Slots |-> [selector |-> NullSelector,
                                       state |-> "TASK_SLOT_FREE"]]
    /\ current_task = 0
    /\ next_selector = IdleSelector
    /\ halted = FALSE

Add(selector) == ~halted /\ sched_add_task(selector)
Enable(i) == ~halted /\ i \in Registered /\ sched_enable_task(i)
Disable(i) == ~halted /\ i \in Registered /\ sched_disable_task(i)
Dispatch == ~halted /\ sched_next_task
HaltLoop == halted /\ UNCHANGED sched_vars

SchedNext ==
    \/ \E s \in Selectors \cup {NullSelector} : Add(s)
    \/ \E i \in Slots : Enable(i) \/ Disable(i)
    \/ Dispatch
    \/ HaltLoop

SchedTypeOK ==
    /\ sched_tasks \in [Slots -> SchedEntries]
    /\ current_task \in Slots
    /\ next_selector \in Selectors \cup {IdleSelector}
    /\ halted \in BOOLEAN

-----------------------------------------------------------------------------
(* How many turns a search that starts after slot c needs to reach slot i:  *)
(* MAX_TASKS when i is c.                                                   *)
DistanceFrom(c, i) == IF i > c THEN i - c ELSE i - c + MAX_TASKS

Distance(i) == DistanceFrom(current_task, i)

(* The table seen as the queue of RoundRobin: the slots in the order in     *)
(* which the search visits them, current_task last.                         *)
VisitOrder == [k \in 1 .. MAX_TASKS |-> SlotAfter(k)]

RunnableSlots == {i \in Slots : Runnable(i)}

RR == INSTANCE RoundRobin
          WITH Tasks <- Slots, N <- MAX_TASKS,
               queue <- VisitOrder, ready <- RunnableSlots

(* sched.c implements round robin. *)
ImplementsRoundRobin == RR!Spec
==============================================================================
