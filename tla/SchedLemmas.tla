---------------------------- MODULE SchedLemmas ----------------------------
(***************************************************************************)
(* What the two searches of sched.c find, for every number of slots: the   *)
(* first free slot, and the slot at which the loop of sched_next_task      *)
(* stops; and what the functions of sched.c do to the queue of RoundRobin. *)
(***************************************************************************)
EXTENDS Sched, WellFoundedInduction, TLAPS

(* Every non-empty set of naturals has a least element. *)
LEMMA LeastNatural ==
    ASSUME NEW T \in SUBSET Nat, T # {}
    PROVE  \E m \in T : \A n \in T : m <= n
<1> DEFINE Less == OpToRel(<, Nat)
<1>1. PICK m \in T : \A n \in T : ~(<<n, m>> \in Less)
  BY NatLessThanWellFounded, WFMin
<1>2. \A n \in Nat : <<n, m>> \in Less <=> n < m
  BY DEF OpToRel
<1> HIDE DEF Less
<1>3. ASSUME NEW n \in T PROVE ~(n < m)
  <2>1. n \in Nat
    OBVIOUS
  <2>2. <<n, m>> \notin Less
    BY <1>1
  <2>3. <<n, m>> \in Less <=> n < m
    BY <1>2, <2>1
  <2> QED BY <2>2, <2>3
<1>4. m \in Nat /\ T \subseteq Nat
  OBVIOUS
<1> QED BY <1>3, <1>4

(* The remainder in the search is one subtraction at most, and a slot. *)
LEMMA SlotAfterValue ==
    ASSUME current_task \in Slots, NEW k \in 0 .. MAX_TASKS
    PROVE  /\ SlotAfter(k) = IF current_task + k < MAX_TASKS
                               THEN current_task + k
                               ELSE current_task + k - MAX_TASKS
           /\ SlotAfter(k) \in Slots
BY MaxTasksAssumption DEF SlotAfter, Slots

-----------------------------------------------------------------------------
(* What the searches of sched.c find *)

(* sched_add_task finds the first of the free slots, if there is one. *)
LEMMA FirstFreeIsFree ==
    ASSUME FreeSlots # {}
    PROVE  FirstFree \in FreeSlots /\ \A j \in FreeSlots : FirstFree <= j
<1>1. FreeSlots \in SUBSET Nat
  BY MaxTasksAssumption DEF FreeSlots, Slots
<1>2. \E m \in FreeSlots : \A n \in FreeSlots : m <= n
  BY <1>1, LeastNatural
<1> QED BY <1>2 DEF FirstFree

(* The loop of sched_next_task ends, at the first runnable slot or back at  *)
(* current_task.                                                            *)
LEMMA StopTurnEnds ==
    /\ StopTurn \in 1 .. MAX_TASKS
    /\ Runnable(SlotAfter(StopTurn)) \/ StopTurn = MAX_TASKS
    /\ NoneBefore(StopTurn)
<1> DEFINE Ends(k) == Runnable(SlotAfter(k)) \/ k = MAX_TASKS
           T == {k \in 1 .. MAX_TASKS : Ends(k)}
<1>1. T \in SUBSET Nat /\ MAX_TASKS \in T
  BY MaxTasksAssumption
<1>2. PICK m \in T : \A n \in T : m <= n
  <2> HIDE DEF T
  <2> QED BY <1>1, LeastNatural
<1>3. NoneBefore(m)
  <2>1. SUFFICES ASSUME NEW n \in 1 .. m - 1, Ends(n)
                 PROVE  FALSE
    BY DEF NoneBefore
  <2>2. n \in 1 .. MAX_TASKS /\ n < m
    BY MaxTasksAssumption
  <2>3. n \in T
    BY <2>1, <2>2
  <2> QED BY <1>2, <2>2, <2>3
<1>4. \E k \in 1 .. MAX_TASKS : Ends(k) /\ NoneBefore(k)
  BY <1>3
<1> QED BY <1>4 DEF StopTurn

(* The index left by the loop is one of a slot. *)
LEMMA NextSlotIsSlot ==
    ASSUME current_task \in Slots
    PROVE  NextSlot \in Slots
BY StopTurnEnds, SlotAfterValue, MaxTasksAssumption DEF NextSlot

-----------------------------------------------------------------------------
(* The table as a queue *)

(* A search reaches every slot within MAX_TASKS turns. *)
LEMMA DistanceFromRange ==
    ASSUME NEW c \in Slots, NEW i \in Slots
    PROVE  DistanceFrom(c, i) \in 1 .. MAX_TASKS
BY MaxTasksAssumption DEF DistanceFrom, Slots

(* Distance(i) is the turn in which the search looks at slot i. *)
LEMMA DistanceReaches ==
    ASSUME current_task \in Slots, NEW i \in Slots
    PROVE  Distance(i) \in 1 .. MAX_TASKS /\ SlotAfter(Distance(i)) = i
<1>1. Distance(i) \in 1 .. MAX_TASKS
  BY DistanceFromRange DEF Distance
<1> QED BY <1>1, SlotAfterValue, MaxTasksAssumption
        DEF Distance, DistanceFrom, Slots

(* The first visit order is a queue of all the slots, none of them ready. *)
LEMMA VisitOrderInit == SchedInit => RR!Init
<1> SUFFICES ASSUME SchedInit PROVE RR!Init
  OBVIOUS
<1>1. current_task \in Slots
  BY MaxTasksAssumption DEF SchedInit, Slots
<1>2. \A k \in 1 .. MAX_TASKS : SlotAfter(k) \in Slots
  BY <1>1, SlotAfterValue, MaxTasksAssumption
<1>3. VisitOrder \in [1 .. MAX_TASKS -> Slots]
  BY <1>2 DEF VisitOrder
<1>4. ASSUME NEW t \in Slots
      PROVE  \E p \in 1 .. MAX_TASKS : VisitOrder[p] = t
  BY <1>1, DistanceReaches DEF VisitOrder
<1>5. RunnableSlots = {}
  BY DEF SchedInit, RunnableSlots, Runnable
<1> QED BY <1>3, <1>4, <1>5 DEF RR!Init, RR!Positions

(* After a dispatch of the k-th slot in turn the visit order has turned by  *)
(* k places.                                                                *)
LEMMA VisitOrderTurns ==
    ASSUME current_task \in Slots, NEW k \in 1 .. MAX_TASKS,
           current_task' = SlotAfter(k)
    PROVE  VisitOrder' = RR!Turned(k)
<1> USE MaxTasksAssumption
<1>1. current_task' = IF current_task + k < MAX_TASKS
                        THEN current_task + k ELSE current_task + k - MAX_TASKS
  BY SlotAfterValue
<1>2. SUFFICES ASSUME NEW p \in 1 .. MAX_TASKS
               PROVE  (current_task' + p) % MAX_TASKS =
                        IF p + k <= MAX_TASKS THEN SlotAfter(p + k)
                                              ELSE SlotAfter(p + k - MAX_TASKS)
  <2>1. VisitOrder' = [p \in 1 .. MAX_TASKS |-> (current_task' + p) % MAX_TASKS]
    BY DEF VisitOrder, SlotAfter
  <2>2. ASSUME NEW p \in 1 .. MAX_TASKS
        PROVE  (IF p + k <= MAX_TASKS THEN VisitOrder[p + k]
                                      ELSE VisitOrder[p + k - MAX_TASKS]) =
               (IF p + k <= MAX_TASKS THEN SlotAfter(p + k)
                                      ELSE SlotAfter(p + k - MAX_TASKS))
    BY DEF VisitOrder
  <2> QED BY <2>1, <2>2 DEF RR!Turned, RR!Positions
<1>3. current_task' \in Slots
  BY SlotAfterValue
<1>4. (current_task' + p) % MAX_TASKS =
        IF current_task' + p < MAX_TASKS THEN current_task' + p
                                         ELSE current_task' + p - MAX_TASKS
  BY <1>3 DEF Slots
<1>5. CASE p + k <= MAX_TASKS
  <2>1. SlotAfter(p + k) = IF current_task + p + k < MAX_TASKS
                             THEN current_task + p + k
                             ELSE current_task + p + k - MAX_TASKS
    BY <1>5, SlotAfterValue DEF Slots
  <2> QED BY <1>1, <1>4, <1>5, <2>1 DEF Slots
<1>6. CASE p + k > MAX_TASKS
  <2>1. SlotAfter(p + k - MAX_TASKS) = IF current_task + p + k < 2 * MAX_TASKS
                                         THEN current_task + p + k - MAX_TASKS
                                         ELSE current_task + p + k - 2 * MAX_TASKS
    BY <1>6, SlotAfterValue DEF Slots
  <2> QED BY <1>1, <1>4, <1>6, <2>1 DEF Slots
<1> QED BY <1>5, <1>6

(* A dispatch serves the first ready task of the queue, or changes nothing. *)
LEMMA DispatchTurnsQueue ==
    ASSUME current_task \in Slots, sched_next_task
    PROVE  RR!Dispatch \/ UNCHANGED <<VisitOrder, RunnableSlots>>
<1>1. RunnableSlots' = RunnableSlots
  BY DEF sched_next_task, RunnableSlots, Runnable
<1>2. CASE Runnable(NextSlot)
  <2>1. VisitOrder' = RR!Turned(StopTurn)
    BY <1>2, StopTurnEnds, VisitOrderTurns
       DEF sched_next_task, NextSlot
  <2>2. VisitOrder[StopTurn] \in RunnableSlots
    BY <1>2, StopTurnEnds, NextSlotIsSlot
       DEF VisitOrder, RunnableSlots, NextSlot
  <2>3. \A p \in 1 .. MAX_TASKS : p < StopTurn => VisitOrder[p] \notin RunnableSlots
    BY StopTurnEnds, MaxTasksAssumption DEF NoneBefore, VisitOrder, RunnableSlots
  <2> QED BY <1>1, <2>1, <2>2, <2>3, StopTurnEnds
          DEF RR!Dispatch, RR!FirstReady, RR!Positions
<1>3. CASE ~Runnable(NextSlot)
  BY <1>1, <1>3 DEF sched_next_task, VisitOrder, SlotAfter
<1> QED BY <1>2, <1>3

(* A task that is added is not ready yet. *)
LEMMA AddKeepsQueue ==
    ASSUME sched_tasks \in [Slots -> SchedEntries], NEW s, sched_add_task(s)
    PROVE  UNCHANGED <<VisitOrder, RunnableSlots>>
<1>1. current_task' = current_task
  BY DEF sched_add_task
<1>2. \A i \in Slots : Runnable(i)' = Runnable(i)
  BY FirstFreeIsFree DEF sched_add_task, Runnable, FreeSlots
<1> QED BY <1>1, <1>2 DEF VisitOrder, SlotAfter, RunnableSlots

(* A task that is enabled becomes ready where it stands in the queue. *)
LEMMA EnableReadies ==
    ASSUME sched_tasks \in [Slots -> SchedEntries], NEW i \in Slots, sched_enable_task(i)
    PROVE  RR!BecomeReady(i)
<1>1. current_task' = current_task
  BY DEF sched_enable_task
<1>2. \A j \in Slots : Runnable(j)' = (Runnable(j) \/ j = i)
  BY DEF sched_enable_task, Runnable, SchedEntries
<1>3. RunnableSlots' = RunnableSlots \cup {i}
  BY <1>2 DEF RunnableSlots
<1> QED BY <1>1, <1>3 DEF RR!BecomeReady, VisitOrder, SlotAfter
=============================================================================
