---------------------------- MODULE SchedProofs ----------------------------
(***************************************************************************)
(* Proofs about the scheduler for every number of slots and every set of   *)
(* selectors: its invariant, the bound on waiting, what sched_next_task    *)
(* returns, and that it implements RoundRobin.                             *)
(***************************************************************************)
EXTENDS SchedWaiting, SchedLemmas, TLAPS

(* When the search stops before slot i, the next one starts nearer to it. *)
LEMMA NearerAfterStop ==
    ASSUME NEW c \in Slots, NEW k \in 1 .. MAX_TASKS, NEW d \in Slots, NEW i \in Slots,
           d = IF c + k < MAX_TASKS THEN c + k ELSE c + k - MAX_TASKS,
           i # d, k <= DistanceFrom(c, i)
    PROVE  DistanceFrom(d, i) + k = DistanceFrom(c, i)
<1> USE MaxTasksAssumption DEF DistanceFrom, Slots
<1>1. CASE c + k < MAX_TASKS /\ i > c
  BY <1>1
<1>2. CASE c + k < MAX_TASKS /\ i <= c
  BY <1>2
<1>3. CASE c + k >= MAX_TASKS
  BY <1>3
<1> QED BY <1>1, <1>2, <1>3

(* The slot found is the nearest runnable one. *)
LEMMA NextSlotIsNearest ==
    ASSUME current_task \in Slots
    PROVE  /\ NextSlot \in Slots
           /\ \A i \in Slots : Runnable(i) => StopTurn <= Distance(i)
           /\ \A i \in Slots : Runnable(i) => Runnable(NextSlot)
<1>1. NextSlot \in Slots
  BY StopTurnEnds, SlotAfterValue, MaxTasksAssumption DEF NextSlot
<1>2. ASSUME NEW i \in Slots, Runnable(i)
      PROVE  StopTurn <= Distance(i) /\ Runnable(NextSlot)
  <2>1. Distance(i) \in 1 .. MAX_TASKS /\ SlotAfter(Distance(i)) = i
    BY DistanceReaches
  <2>2. StopTurn <= Distance(i)
    <3>1. CASE Distance(i) \in 1 .. StopTurn - 1
      BY <1>2, <2>1, <3>1, StopTurnEnds DEF NoneBefore
    <3>2. CASE Distance(i) \notin 1 .. StopTurn - 1
      BY <2>1, <3>2, StopTurnEnds, MaxTasksAssumption
    <3> QED BY <3>1, <3>2
  <2>3. CASE StopTurn = MAX_TASKS
    BY <1>2, <2>1, <2>2, <2>3, MaxTasksAssumption DEF NextSlot
  <2>4. CASE StopTurn # MAX_TASKS
    BY <2>2, <2>4, StopTurnEnds DEF NextSlot
  <2> QED BY <2>2, <2>3, <2>4
<1> QED BY <1>1, <1>2

-----------------------------------------------------------------------------
(* The inductive invariant *)

(* The invariant holds at the start. *)
LEMMA InvInit == Init => IInv
<1> SUFFICES ASSUME Init PROVE IInv
  OBVIOUS
<1>1. current_task \in Slots /\ 0 \in 0 .. MAX_TASKS
  BY MaxTasksAssumption DEF Init, SchedInit, Slots
<1>2. TypeOK
  BY <1>1 DEF Init, SchedInit, TypeOK, SchedTypeOK, SchedEntries, TaskStates
<1>3. RegisteredHaveSelector
  BY DEF Init, SchedInit, RegisteredHaveSelector, Registered, FreeSlots
<1>4. WaitsBounded
  BY <1>1, DistanceFromRange, MaxTasksAssumption
     DEF Init, WaitsBounded, Distance
<1> QED BY <1>2, <1>3, <1>4 DEF IInv

(* sched_add_task preserves the invariant. *)
LEMMA InvAdd ==
    ASSUME IInv, NEW s \in Selectors \cup {NullSelector}, Add(s), UNCHANGED waits
    PROVE  IInv'
<1>1. CASE halted' = TRUE /\ UNCHANGED <<sched_tasks, current_task, next_selector>>
  BY <1>1 DEF IInv, TypeOK, SchedTypeOK, RegisteredHaveSelector, Registered,
              FreeSlots, WaitsBounded, Distance
<1>2. CASE /\ s # NullSelector
           /\ FreeSlots # {}
           /\ sched_tasks' = [sched_tasks EXCEPT ![FirstFree] =
                                [selector |-> s, state |-> "TASK_PAUSED"]]
           /\ UNCHANGED <<current_task, next_selector, halted>>
  <2>1. FirstFree \in Slots /\ s \in Selectors
    BY <1>2, FirstFreeIsFree DEF FreeSlots
  <2>2. TypeOK'
    BY <1>2, <2>1 DEF IInv, TypeOK, SchedTypeOK, SchedEntries, TaskStates
  <2>3. RegisteredHaveSelector'
    BY <1>2, <2>1 DEF IInv, TypeOK, SchedTypeOK, RegisteredHaveSelector,
                      Registered, FreeSlots
  <2>4. WaitsBounded'
    BY <1>2 DEF IInv, WaitsBounded, Distance
  <2> QED BY <2>2, <2>3, <2>4 DEF IInv
<1> QED BY <1>1, <1>2 DEF Add, sched_add_task

(* sched_enable_task preserves the invariant. *)
LEMMA InvEnable ==
    ASSUME IInv, NEW i \in Slots, Enable(i), UNCHANGED waits
    PROVE  IInv'
<1>1. TypeOK'
  BY DEF Enable, sched_enable_task, IInv, TypeOK, SchedTypeOK, SchedEntries, TaskStates
<1>2. RegisteredHaveSelector'
  BY DEF Enable, sched_enable_task, IInv, TypeOK, SchedTypeOK, SchedEntries,
         RegisteredHaveSelector, Registered, FreeSlots
<1>3. WaitsBounded'
  BY DEF Enable, sched_enable_task, IInv, WaitsBounded, Distance
<1> QED BY <1>1, <1>2, <1>3 DEF IInv

(* sched_disable_task preserves the invariant. *)
LEMMA InvDisable ==
    ASSUME IInv, NEW i \in Slots, Disable(i), waits' = [waits EXCEPT ![i] = 0]
    PROVE  IInv'
<1>1. TypeOK'
  BY MaxTasksAssumption
     DEF Disable, sched_disable_task, IInv, TypeOK, SchedTypeOK, SchedEntries, TaskStates
<1>2. RegisteredHaveSelector'
  BY DEF Disable, sched_disable_task, IInv, TypeOK, SchedTypeOK, SchedEntries,
         RegisteredHaveSelector, Registered, FreeSlots
<1>3. WaitsBounded'
  <2>1. SUFFICES ASSUME NEW j \in Slots
                 PROVE  waits'[j] + Distance(j)' <= MAX_TASKS
    BY DEF WaitsBounded
  <2>2. waits[j] + Distance(j) <= MAX_TASKS /\ waits'[j] \in {0, waits[j]}
    BY DEF IInv, WaitsBounded, TypeOK
  <2>3. current_task' = current_task /\ current_task \in Slots
    BY DEF Disable, sched_disable_task, IInv, TypeOK, SchedTypeOK
  <2>4. Distance(j)' = Distance(j) /\ Distance(j) \in 1 .. MAX_TASKS
    BY <2>3, DistanceFromRange DEF Distance
  <2> QED BY <2>2, <2>4, MaxTasksAssumption
<1> QED BY <1>1, <1>2, <1>3 DEF IInv

(* sched_next_task preserves the invariant: whom it passes over gets nearer. *)
LEMMA InvDispatch ==
    ASSUME IInv, Dispatch, waits' = WaitsAfterDispatch
    PROVE  IInv'
<1> USE MaxTasksAssumption
<1>1. /\ current_task \in Slots
      /\ waits \in [Slots -> 0 .. MAX_TASKS]
      /\ sched_tasks \in [Slots -> SchedEntries]
      /\ UNCHANGED <<sched_tasks, halted>>
  BY DEF IInv, TypeOK, SchedTypeOK, Dispatch, sched_next_task
<1>2. NextSlot \in Slots
  BY <1>1, NextSlotIsNearest
<1>3. current_task' \in Slots
  BY <1>1, <1>2 DEF Dispatch, sched_next_task
<1>4. next_selector' \in Selectors \cup {IdleSelector}
  <2>1. Runnable(NextSlot) => NextSlot \in Registered
    BY <1>2 DEF Runnable, Registered, FreeSlots
  <2> QED BY <1>2, <2>1 DEF Dispatch, sched_next_task, IInv, RegisteredHaveSelector
<1>5. waits' \in [Slots -> 0 .. MAX_TASKS]
  BY <1>1 DEF WaitsAfterDispatch
<1>6. TypeOK'
  BY <1>1, <1>3, <1>4, <1>5 DEF IInv, TypeOK, SchedTypeOK
<1>7. RegisteredHaveSelector'
  BY <1>1 DEF IInv, RegisteredHaveSelector, Registered, FreeSlots
<1>8. WaitsBounded'
  <2>1. SUFFICES ASSUME NEW i \in Slots
                 PROVE  waits'[i] + Distance(i)' <= MAX_TASKS
    BY DEF WaitsBounded
  <2>2. /\ Distance(i)' = DistanceFrom(current_task', i)
        /\ Distance(i)' \in 1 .. MAX_TASKS
    BY <1>3, DistanceFromRange DEF Distance
  <2>3. CASE ~Runnable(i) \/ i = current_task'
    BY <2>2, <2>3 DEF WaitsAfterDispatch
  <2>4. CASE Runnable(i) /\ i # current_task'
    <3>1. current_task' = SlotAfter(StopTurn) /\ StopTurn <= Distance(i)
      BY <1>1, <2>4, NextSlotIsNearest DEF Dispatch, sched_next_task, NextSlot
    <3>2. StopTurn \in 1 .. MAX_TASKS
      BY StopTurnEnds
    <3>3. Distance(i)' + 1 <= Distance(i)
      <4>1. current_task' = IF current_task + StopTurn < MAX_TASKS
                              THEN current_task + StopTurn
                              ELSE current_task + StopTurn - MAX_TASKS
        BY <1>1, <3>1, <3>2, SlotAfterValue
      <4> QED BY <1>1, <1>3, <2>2, <2>4, <3>1, <3>2, <4>1, NearerAfterStop
              DEF Distance
    <3>4. waits[i] + Distance(i) <= MAX_TASKS
      BY DEF IInv, WaitsBounded
    <3>5. waits'[i] <= waits[i] + 1
      BY <1>1, <2>4 DEF WaitsAfterDispatch
    <3>6. Distance(i) \in Int /\ waits[i] \in Int /\ waits'[i] \in Int
      BY <1>1, <1>5, DistanceFromRange DEF Distance
    <3> QED BY <2>2, <3>3, <3>4, <3>5, <3>6
  <2> QED BY <2>3, <2>4
<1> QED BY <1>6, <1>7, <1>8 DEF IInv

(* Every step preserves the invariant. *)
LEMMA InvNext == IInv /\ [Next]_vars => IInv'
<1> SUFFICES ASSUME IInv, [Next]_vars PROVE IInv'
  OBVIOUS
<1>1. ASSUME NEW s \in Selectors \cup {NullSelector}, Add(s), UNCHANGED waits
      PROVE  IInv'
  BY <1>1, InvAdd
<1>2. ASSUME NEW i \in Slots, Enable(i), UNCHANGED waits
      PROVE  IInv'
  BY <1>2, InvEnable
<1>3. ASSUME NEW i \in Slots, Disable(i), waits' = [waits EXCEPT ![i] = 0]
      PROVE  IInv'
  BY <1>3, InvDisable
<1>4. CASE Dispatch /\ waits' = WaitsAfterDispatch
  BY <1>4, InvDispatch
<1>5. CASE UNCHANGED vars
  BY <1>5 DEF vars, sched_vars, IInv, TypeOK, SchedTypeOK, RegisteredHaveSelector,
              Registered, FreeSlots, WaitsBounded, Distance
<1>6. CASE HaltLoop /\ UNCHANGED waits
  BY <1>5, <1>6 DEF HaltLoop, vars
<1> QED BY <1>1, <1>2, <1>3, <1>4, <1>5, <1>6 DEF Next

(* The invariant of the scheduler: types, a real selector in every          *)
(* registered slot, and the bound that links waits to the search.           *)
THEOREM InvHolds == Spec => []IInv
BY InvInit, InvNext, PTL DEF Spec

-----------------------------------------------------------------------------
(* What follows from it *)

(* No runnable task is passed over more than MAX_TASKS - 1 times in a row,  *)
(* for every number of slots: sched_next_task does not starve a task.       *)
THEOREM BoundedWaitHolds == Spec => []BoundedWait
<1>1. IInv => BoundedWait
  <2> SUFFICES ASSUME IInv, NEW i \in Slots
               PROVE  waits[i] < MAX_TASKS
    BY DEF BoundedWait
  <2>1. waits[i] + Distance(i) <= MAX_TASKS /\ waits[i] \in 0 .. MAX_TASKS
    BY DEF IInv, WaitsBounded, TypeOK
  <2>2. Distance(i) \in 1 .. MAX_TASKS
    BY DistanceFromRange DEF IInv, TypeOK, SchedTypeOK, Distance
  <2> QED BY <2>1, <2>2, MaxTasksAssumption
<1> QED BY <1>1, InvHolds, PTL

(* The idle selector is returned exactly when no task can run; otherwise    *)
(* the selector is that of current_task, which can run.                     *)
THEOREM IdleOnlyWhenNothingRunsHolds == Spec => IdleOnlyWhenNothingRuns
<1> DEFINE Answer == Dispatch =>
               /\ next_selector' = IdleSelector <=> \A i \in Slots : ~Runnable(i)
               /\ next_selector' # IdleSelector =>
                     /\ Runnable(current_task')
                     /\ next_selector' = sched_tasks[current_task'].selector
<1>1. ASSUME IInv, Dispatch PROVE Answer
  <2>1. NextSlot \in Slots /\ \A i \in Slots : Runnable(i) => Runnable(NextSlot)
    BY <1>1, NextSlotIsNearest DEF IInv, TypeOK, SchedTypeOK
  <2>2. Runnable(NextSlot) => sched_tasks[NextSlot].selector \in Selectors
    BY <1>1, <2>1 DEF IInv, RegisteredHaveSelector, Registered, FreeSlots, Runnable
  <2> QED BY <1>1, <2>1, <2>2, SelectorsAssumption DEF Dispatch, sched_next_task
<1>2. IInv /\ [Next]_vars => [Answer]_vars
  BY <1>1
<1> QED BY <1>2, InvHolds, PTL DEF Spec, IdleOnlyWhenNothingRuns

(* A registered task keeps its identifier and its selector.                 *)
THEOREM RegistrationsKeptHolds == Spec => RegistrationsKept
<1> DEFINE Kept == \A i \in Registered :
                       /\ i \in Registered'
                       /\ sched_tasks'[i].selector = sched_tasks[i].selector
<1>1. ASSUME IInv, Next PROVE Kept
  <2>1. sched_tasks \in [Slots -> SchedEntries]
    BY <1>1 DEF IInv, TypeOK, SchedTypeOK
  <2>2. ASSUME NEW s \in Selectors \cup {NullSelector}, Add(s)
        PROVE  Kept
    BY <2>1, <2>2, FirstFreeIsFree DEF Add, sched_add_task, Registered, FreeSlots
  <2>3. ASSUME NEW i \in Slots, Enable(i) \/ Disable(i)
        PROVE  Kept
    BY <2>1, <2>3 DEF Enable, sched_enable_task, Disable, sched_disable_task,
                      Registered, FreeSlots, SchedEntries
  <2>4. CASE Dispatch \/ HaltLoop
    BY <2>4 DEF Dispatch, sched_next_task, HaltLoop, sched_vars, Registered, FreeSlots
  <2> QED BY <1>1, <2>2, <2>3, <2>4 DEF Next
<1>2. IInv /\ [Next]_vars => [Kept]_vars
  BY <1>1
<1> QED BY <1>2, InvHolds, PTL DEF Spec, RegistrationsKept

-----------------------------------------------------------------------------
(* Refinement of RoundRobin *)

(* Every step of the scheduler is a step of RoundRobin or none. *)
LEMMA StepsTurnQueue ==
    IInv /\ [Next]_vars => [RR!Next]_<<VisitOrder, RunnableSlots>>
<1> SUFFICES ASSUME IInv, [Next]_vars
             PROVE  RR!Next \/ UNCHANGED <<VisitOrder, RunnableSlots>>
  OBVIOUS
<1>1. sched_tasks \in [Slots -> SchedEntries]
  BY DEF IInv, TypeOK, SchedTypeOK
<1>2. ASSUME NEW s \in Selectors \cup {NullSelector}, Add(s)
      PROVE  UNCHANGED <<VisitOrder, RunnableSlots>>
  BY <1>1, <1>2, AddKeepsQueue DEF Add
<1>3. ASSUME NEW i \in Slots, Enable(i)
      PROVE  RR!Next
  BY <1>1, <1>3, EnableReadies DEF Enable, RR!Next
<1>4. ASSUME NEW i \in Slots, Disable(i)
      PROVE  RR!Next
  <2>1. current_task' = current_task
    BY <1>4 DEF Disable, sched_disable_task
  <2>2. \A j \in Slots : Runnable(j)' = (Runnable(j) /\ j # i)
    BY <1>1, <1>4 DEF Disable, sched_disable_task, Runnable, SchedEntries
  <2>3. RunnableSlots' = RunnableSlots \ {i}
    BY <2>2 DEF RunnableSlots
  <2> QED BY <2>1, <2>3 DEF RR!Next, RR!Pause, VisitOrder, SlotAfter
<1>5. CASE Dispatch
  BY <1>5, DispatchTurnsQueue DEF Dispatch, IInv, TypeOK, SchedTypeOK, RR!Next
<1>6. CASE HaltLoop \/ UNCHANGED vars
  BY <1>6 DEF HaltLoop, vars, sched_vars, VisitOrder, SlotAfter, RunnableSlots, Runnable
<1> QED BY <1>2, <1>3, <1>4, <1>5, <1>6 DEF Next

(* sched.c implements round robin: seen in the order in which the search    *)
(* visits them, its slots are the queue of RoundRobin.                      *)
THEOREM RoundRobinImplemented == Spec => ImplementsRoundRobin
<1>1. Init => RR!Init
  BY VisitOrderInit DEF Init
<1> QED BY <1>1, StepsTurnQueue, InvHolds, PTL DEF Spec, RR!Spec, ImplementsRoundRobin
=============================================================================
