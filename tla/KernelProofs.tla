---------------------------- MODULE KernelProofs ----------------------------
(***************************************************************************)
(* Proofs about the kernel for every number of slots, every size of the    *)
(* GDT and of the tick counter, and every number of tasks created at boot: *)
(* it is type correct, it never jumps to a descriptor that is absent or    *)
(* busy, and a task resumes with its own registers.                        *)
(***************************************************************************)
EXTENDS Kernel, SchedLemmas, FiniteSetTheorems, TLAPS

(* A descriptor's selector gives back its index. *)
LEMMA IndexOfSelector ==
    ASSUME NEW g \in Nat
    PROVE  Index(Selector(g)) = g
BY DEF Index, Selector

(* The numbers of the other owners are not slots. *)
LEMMA OwnersDistinct ==
    /\ TASK_IDLE \notin Slots /\ TASK_INITIAL \notin Slots
    /\ TASK_IDLE # TASK_INITIAL
    /\ Slots \subseteq Int
BY MaxTasksAssumption DEF TASK_IDLE, TASK_INITIAL, Slots

(* The invariant holds at power on. *)
LEMMA KernelInvInit == Init => IInv
<1> SUFFICES ASSUME Init PROVE IInv
  OBVIOUS
<1>1. SchedTypeOK
  <2>1. 0 \in Slots
    BY MaxTasksAssumption DEF Slots
  <2> QED BY <2>1 DEF Init, SchedInit, SchedTypeOK, SchedEntries, TaskStates
<1> USE MaxTasksAssumption DEF Init, SchedInit
<1>2. BootTypeOK
  BY BootAssumption DEF BootTypeOK, Slots
<1>3. ProcessorTypeOK
  <2>1. 0 \in Pages
    BY DEF Pages, PAGES_PER_TASK
  <2>2. tss_idle \in TssStates /\ NoDescriptor \in Descriptors
    BY <2>1 DEF tss_idle, TssStates, NoDescriptor, Descriptors, KERNEL_STACK
  <2>3. cpu \in [ctx : Owners \cup {NOBODY}, cr3 : Pages, esp : Pages,
                at : {"boot", "code", "fin", "fault"}]
    BY <2>1 DEF KERNEL_STACK, Owners
  <2> QED BY <2>2, <2>3 DEF ProcessorTypeOK
<1>4. DeviceTypeOK
  <2>1. env \in [tick_count : 0 .. WORD - 1, task_id : Int]
    BY BootAssumption
  <2>2. highlight \in Slots /\ isrNumber \in 0 .. 3
    BY DEF Slots
  <2>3. window \in [Slots -> Owners \cup {NOBODY}]
    OBVIOUS
  <2>4. irr \subseteq IRQs /\ in_service \subseteq IRQs /\ kbd_full \in BOOLEAN
    OBVIOUS
  <2> QED BY <2>1, <2>2, <2>3, <2>4 DEF DeviceTypeOK
<1>5. Layout
  <2>1. LayoutOf(0)
    BY DEF LayoutOf, PAGES_PER_TASK, NoDescriptor, GdtIndices, GDT_IDX_TASK_INITIAL,
           GDT_TSS_START, Slots, Owners, tss_idle
  <2> QED BY <2>1 DEF Layout
<1>6. Registers
  <2>1. \A g \in GdtIndices : tr # Selector(g)
    BY KernelSelectorsAssumption DEF GdtIndices, Selector, GDT_IDX_TASK_INITIAL
  <2>2. OneBusy
    BY <2>1 DEF OneBusy, NoDescriptor
  <2> QED BY <2>2 DEF Registers, Up, tss_idle
<1>7. Stacks
  BY DEF Stacks, Owners, tss_idle, Up
<1>8. ContextIntegrity /\ CurrentTaskRuns
  BY DEF ContextIntegrity, CurrentTaskRuns, Owners, tss_idle, Up
<1> QED BY <1>1, <1>2, <1>3, <1>4, <1>5, <1>6, <1>7, <1>8 DEF IInv, TypeOK

-----------------------------------------------------------------------------
(* The running task *)

(* The task register names the idle task, or one that tasks_init created.   *)
LEMMA CurrentIsDispatchable ==
    ASSUME IInv, Up, NEW n \in 0 .. MAX_TASKS, LayoutOf(n)
    PROVE  /\ Index(tr) \in GdtIndices
           /\ \/ Current = TASK_IDLE /\ tr = Selector(GDT_IDX_TASK_IDLE)
              \/ Current \in 0 .. n - 1 /\ tr = Selector(GDT_TSS_START + Current)
<1>1. PICK g \in GdtIndices : tr = Selector(g) /\ gdt[g].p /\ g # GDT_IDX_TASK_INITIAL
  BY DEF IInv, Registers
<1>2. g \in Nat /\ GDT_COUNT \in Nat
  BY <1>1, GdtAssumption DEF GdtIndices, GDT_IDX_TASK_INITIAL
<1>3. Index(tr) = g
  BY <1>1, <1>2, IndexOfSelector
<1>4. CASE g = GDT_IDX_TASK_IDLE
  BY <1>1, <1>3, <1>4 DEF IInv, Registers, Up, Current
<1>5. CASE g # GDT_IDX_TASK_IDLE
  <2>1. g \in GDT_TSS_START .. GDT_COUNT - 1
    BY <1>1, <1>2, <1>5
       DEF GdtIndices, GDT_IDX_TASK_INITIAL, GDT_IDX_TASK_IDLE, GDT_TSS_START
  <2>2. g < GDT_TSS_START + n
    BY <1>1, <2>1 DEF LayoutOf
  <2>3. g - GDT_TSS_START \in 0 .. n - 1 /\ GDT_TSS_START + (g - GDT_TSS_START) = g
    BY <1>2, <2>1, <2>2 DEF GDT_TSS_START
  <2>4. gdt[g].base = g - GDT_TSS_START
    BY <2>3 DEF LayoutOf
  <2> QED BY <1>1, <1>3, <2>3, <2>4 DEF Current
<1> QED BY <1>1, <1>3, <1>4, <1>5

(* The stack a handler of the running task pushes on is not the one on      *)
(* which another task is suspended.                                         *)
LEMMA StacksDistinct ==
    ASSUME IInv, Up, NEW i \in Slots \cup {TASK_IDLE}, tss[i].at = "fin", i # Current
    PROVE  tss[i].esp # tss[Current].esp0
<1>1. PICK n \in 0 .. MAX_TASKS : LayoutOf(n)
  BY DEF IInv, Layout
<1>2. tss[i].esp = tss[i].esp0 /\ tss[TASK_IDLE].esp0 = 0
  BY DEF IInv, Stacks, KERNEL_STACK
<1>3. \A j \in 0 .. n - 1 : tss[j].esp0 = 4 * j + 4
  BY <1>1 DEF LayoutOf, PAGES_PER_TASK
<1>4. i = TASK_IDLE \/ i \in 0 .. n - 1
  BY <1>1, OwnersDistinct, MaxTasksAssumption DEF LayoutOf, Slots
<1>5. Current = TASK_IDLE \/ Current \in 0 .. n - 1
  BY <1>1, CurrentIsDispatchable
<1>6. CASE i = TASK_IDLE
  BY <1>2, <1>3, <1>5, <1>6
<1>7. CASE i \in 0 .. n - 1 /\ Current = TASK_IDLE
  BY <1>2, <1>3, <1>7
<1>8. CASE i \in 0 .. n - 1 /\ Current \in 0 .. n - 1
  BY <1>2, <1>3, <1>8
<1> QED BY <1>4, <1>5, <1>6, <1>7, <1>8

(* The running task, its descriptor and the page of its stack are in range. *)
LEMMA CurrentTypes ==
    ASSUME IInv, Up
    PROVE  /\ Index(tr) \in GdtIndices
           /\ Current \in Slots \cup {TASK_IDLE}
           /\ HandlerStack \in Pages
<1>1. PICK n \in 0 .. MAX_TASKS : LayoutOf(n)
  BY DEF IInv, Layout
<1>2. Index(tr) \in GdtIndices /\ Current \in Slots \cup {TASK_IDLE}
  BY <1>1, CurrentIsDispatchable, MaxTasksAssumption DEF Slots
<1> QED BY <1>2 DEF IInv, TypeOK, ProcessorTypeOK, TssStates, HandlerStack, Owners

-----------------------------------------------------------------------------
(* Steps that leave the tasks and the processor as they are *)

core_vars == <<sched_tasks, current_task, next_selector, boot_vars, gdt, tss, tr, cpu>>

(* A step of the devices, a system call, a stop, or no step: if only the    *)
(* frame on the running task's stack changes, the tasks stay sound.         *)
LEMMA CoreUnchanged ==
    ASSUME IInv, UNCHANGED core_vars, halted' \in BOOLEAN,
           \/ kstack' = kstack
           \/ InterruptsOn /\ kstack' = Pushed,
           DeviceTypeOK'
    PROVE  IInv'
<1> USE DEF core_vars, boot_vars
<1>1. kstack' \in [Pages -> Owners \cup {NOBODY}]
  BY CurrentTypes DEF IInv, TypeOK, ProcessorTypeOK, Pushed, InterruptsOn
<1>2. TypeOK'
  BY <1>1 DEF IInv, TypeOK, SchedTypeOK, BootTypeOK, ProcessorTypeOK
<1>3. Layout'
  BY DEF IInv, Layout, LayoutOf
<1>4. Registers' /\ Stacks' /\ CurrentTaskRuns' /\ Current' = Current
  BY DEF IInv, Registers, OneBusy, Stacks, CurrentTaskRuns, Up, Current
<1>5. ContextIntegrity'
  <2>1. CASE kstack' = kstack
    BY <1>4, <2>1 DEF IInv, ContextIntegrity, Up
  <2>2. CASE InterruptsOn /\ kstack' = Pushed
    <3>1. \A i \in Slots \cup {TASK_IDLE} :
            tss[i].at = "fin" /\ Current # i => kstack'[tss[i].esp] = kstack[tss[i].esp]
      BY <2>2, StacksDistinct, CurrentTypes
         DEF IInv, TypeOK, ProcessorTypeOK, TssStates, Owners, Pushed, HandlerStack,
             InterruptsOn, Up
    <3> QED BY <1>4, <2>2, <3>1 DEF IInv, ContextIntegrity, Up, InterruptsOn
  <2> QED BY <2>1, <2>2
<1> QED BY <1>2, <1>3, <1>4, <1>5 DEF IInv

(* The devices, the keyboard handler, the system calls and the stops        *)
(* preserve the invariant.                                                  *)
LEMMA QuietStepsPreserve ==
    ASSUME IInv,
           \/ RaiseTimer \/ KeyEvent \/ isr33 \/ Exception \/ Stopped
           \/ \E in_bounds \in BOOLEAN : isr88(in_bounds)
           \/ UNCHANGED vars
    PROVE  IInv'
<1> USE DEF core_vars, sched_vars
<1>1. DeviceTypeOK /\ halted \in BOOLEAN
  BY DEF IInv, TypeOK, SchedTypeOK
<1>2. CASE RaiseTimer \/ KeyEvent
  <2>1. DeviceTypeOK'
    BY <1>1, <1>2 DEF RaiseTimer, KeyEvent, DeviceTypeOK, IRQs
  <2> QED BY <1>1, <1>2, <2>1, CoreUnchanged DEF RaiseTimer, KeyEvent
<1>3. CASE isr33
  <2>1. DeviceTypeOK'
    BY <1>1, <1>3 DEF isr33, Acknowledge, pic_finish1, PortRead, DeviceTypeOK, IRQs
  <2>2. InterruptsOn
    BY <1>3 DEF isr33, Raised
  <2> QED BY <1>1, <1>3, <2>1, <2>2, CoreUnchanged DEF isr33
<1>4. CASE \E in_bounds \in BOOLEAN : isr88(in_bounds)
  <2>1. cpu.ctx \in Owners \cup {NOBODY} /\ current_task \in Slots
    BY DEF IInv, TypeOK, SchedTypeOK, ProcessorTypeOK
  <2>2. DeviceTypeOK'
    BY <1>1, <1>4, <2>1 DEF isr88, DeviceTypeOK
  <2> QED BY <1>1, <1>4, <2>2, CoreUnchanged DEF isr88
<1>5. CASE Exception \/ Stopped \/ UNCHANGED vars
  <2>1. DeviceTypeOK'
    BY <1>1, <1>5 DEF Exception, Stopped, vars, kernel_vars, DeviceTypeOK
  <2> QED BY <1>1, <1>5, <2>1, CoreUnchanged
          DEF Exception, Stopped, vars, kernel_vars, boot_vars
<1> QED BY <1>2, <1>3, <1>4, <1>5

-----------------------------------------------------------------------------
(* Boot *)

(* Before the jump to the idle task nothing has run. *)
LEMMA NothingRunsAtBoot ==
    ASSUME IInv, ~Up
    PROVE  cpu.at = "boot" /\ \A i \in Slots \cup {TASK_IDLE} : tss[i].at = "code"
BY DEF IInv, Registers, Owners

(* While nothing runs, the parts of the invariant about running tasks hold. *)
LEMMA BootPartsHold ==
    ASSUME IInv, ~Up, ~Up', cpu' = cpu,
           \A i \in Slots \cup {TASK_IDLE} : tss'[i].at = "code",
           tss'[TASK_IDLE].esp0 = KERNEL_STACK
    PROVE  Stacks' /\ ContextIntegrity' /\ CurrentTaskRuns'
<1>1. cpu'.at = "boot"
  BY NothingRunsAtBoot
<1> QED BY <1>1 DEF Stacks, ContextIntegrity, CurrentTaskRuns

(* Describing the two fixed tasks keeps the invariant. *)
LEMMA TssInitPreserves ==
    ASSUME IInv, tss_init
    PROVE  IInv'
<1> USE DEF tss_init, Booting, sched_vars, Up
<1>1. TypeOK'
  BY DEF IInv, TypeOK, SchedTypeOK, BootTypeOK, ProcessorTypeOK, DeviceTypeOK,
         tss_gdt_entry_for_task, Descriptors, Owners
<1>2. Layout'
  <2>1. \A g \in GdtIndices : g # GDT_IDX_TASK_IDLE /\ g # GDT_IDX_TASK_INITIAL =>
           gdt'[g] = gdt[g]
    BY DEF IInv, TypeOK, ProcessorTypeOK
  <2>2. PICK n \in 0 .. MAX_TASKS : LayoutOf(n)
    BY DEF IInv, Layout
  <2>3. n = 0
    BY <2>2 DEF LayoutOf
  <2>4. ASSUME NEW g \in GDT_TSS_START .. GDT_COUNT - 1
        PROVE  gdt'[g] = gdt[g]
    <3>1. g \in GdtIndices /\ g # GDT_IDX_TASK_IDLE /\ g # GDT_IDX_TASK_INITIAL
      BY GdtAssumption
         DEF GdtIndices, GDT_TSS_START, GDT_IDX_TASK_IDLE, GDT_IDX_TASK_INITIAL
    <3> QED BY <2>1, <3>1
  <2>5. LayoutOf(0)'
    <3>1. \A g \in GDT_TSS_START .. GDT_COUNT - 1 : ~gdt'[g].p \/ g < GDT_TSS_START + 0
      BY <2>2, <2>3, <2>4 DEF LayoutOf
    <3>2. /\ next_page' = PAGES_PER_TASK * 0 + 1
          /\ \A i \in Slots : sched_tasks'[i].state = "TASK_SLOT_FREE" <=> 0 <= i
          /\ \A i \in Slots : 0 <= i => tss'[i].at = "code"
      BY <2>2, <2>3 DEF LayoutOf
    <3>3. \A i \in 0 .. 0 - 1 : FALSE
      OBVIOUS
    <3>4. stage' = "sched_init"
      OBVIOUS
    <3> HIDE DEF tss_init
    <3> QED BY <3>1, <3>2, <3>3, <3>4 DEF LayoutOf
  <2> QED BY <2>5, MaxTasksAssumption DEF Layout
<1>3. Registers'
  <2>1. GDT_IDX_TASK_IDLE \in GdtIndices /\ GDT_IDX_TASK_INITIAL \in GdtIndices
    BY GdtAssumption DEF GdtIndices, GDT_IDX_TASK_IDLE, GDT_IDX_TASK_INITIAL, GDT_TSS_START
  <2>2. \A g \in GdtIndices : tr # Selector(g)
    BY KernelSelectorsAssumption
       DEF IInv, Registers, GdtIndices, Selector, GDT_IDX_TASK_INITIAL
  <2>3. \A g \in GdtIndices : ~gdt'[g].busy
    BY <2>1, <2>2 DEF IInv, Registers, OneBusy, TypeOK, ProcessorTypeOK,
                       tss_gdt_entry_for_task
  <2> QED BY <2>1, <2>2, <2>3
          DEF IInv, Registers, OneBusy, TypeOK, ProcessorTypeOK, tss_gdt_entry_for_task,
              GDT_IDX_TASK_IDLE, GDT_IDX_TASK_INITIAL
<1>4. Stacks' /\ ContextIntegrity' /\ CurrentTaskRuns'
  BY NothingRunsAtBoot, BootPartsHold DEF IInv, Stacks
<1> QED BY <1>1, <1>2, <1>3, <1>4 DEF IInv

(* Emptying the slots keeps the invariant. *)
LEMMA InitSchedulerPreserves ==
    ASSUME IInv, InitScheduler
    PROVE  IInv'
<1> USE DEF InitScheduler, Booting, sched_init, Up
<1>1. TypeOK'
  BY DEF IInv, TypeOK, SchedTypeOK, SchedEntries, TaskStates, BootTypeOK,
         ProcessorTypeOK, DeviceTypeOK
<1>2. Layout'
  <2>1. PICK n \in 0 .. MAX_TASKS : LayoutOf(n)
    BY DEF IInv, Layout
  <2>2. n = 0
    BY <2>1 DEF LayoutOf
  <2>3. \A i \in Slots : sched_tasks'[i].state = "TASK_SLOT_FREE" /\ 0 <= i
    BY MaxTasksAssumption DEF IInv, TypeOK, SchedTypeOK, SchedEntries, Slots
  <2>4. LayoutOf(0)'
    <3>1. \A g \in GDT_TSS_START .. GDT_COUNT - 1 : gdt'[g].p => g < GDT_TSS_START + 0
      BY <2>1, <2>2 DEF LayoutOf
    <3>2. next_page' = PAGES_PER_TASK * 0 + 1
      BY <2>1, <2>2 DEF LayoutOf
    <3>3. \A i \in Slots : 0 <= i => tss'[i].at = "code"
      BY <2>1, <2>2 DEF LayoutOf
    <3>4. /\ stage' # "sched_enable_task"
          /\ stage' = "create_task" => to_create' > 0
      BY DEF IInv, TypeOK, BootTypeOK
    <3>5. \A i \in 0 .. 0 - 1 : FALSE
      OBVIOUS
    <3> HIDE DEF InitScheduler, sched_init
    <3> QED BY <2>3, <3>1, <3>2, <3>3, <3>4, <3>5 DEF LayoutOf
  <2> QED BY <2>4, MaxTasksAssumption DEF Layout
<1>3. Registers'
  BY DEF IInv, Registers, OneBusy
<1>4. Stacks' /\ ContextIntegrity' /\ CurrentTaskRuns'
  BY NothingRunsAtBoot, BootPartsHold DEF IInv, Stacks
<1> QED BY <1>1, <1>2, <1>3, <1>4 DEF IInv

(* The slot and the descriptor that create_task finds are the next ones. *)
LEMMA NextFreeOnes ==
    ASSUME IInv, NEW n \in 0 .. MAX_TASKS, LayoutOf(n),
           FreeSlots # {}, FreeDescriptors # {}
    PROVE  /\ n < MAX_TASKS
           /\ FirstFree = n
           /\ FirstDescriptor = GDT_TSS_START + n
           /\ GDT_TSS_START + n < GDT_COUNT
<1> USE MaxTasksAssumption
<1>1. FirstFree \in FreeSlots /\ \A j \in FreeSlots : FirstFree <= j
  BY FirstFreeIsFree
<1>2. FreeSlots = n .. MAX_TASKS - 1
  BY DEF LayoutOf, FreeSlots, Slots
<1>3. n < MAX_TASKS /\ FirstFree = n
  BY <1>1, <1>2
<1>4. \A g \in GDT_TSS_START .. GDT_COUNT - 1 : gdt[g].p <=> g < GDT_TSS_START + n
  <2> SUFFICES ASSUME NEW g \in GDT_TSS_START .. GDT_COUNT - 1, g < GDT_TSS_START + n
               PROVE  gdt[g].p
    BY DEF LayoutOf
  <2>1. g - GDT_TSS_START \in 0 .. n - 1 /\ GDT_TSS_START + (g - GDT_TSS_START) = g
    BY GdtAssumption DEF GDT_TSS_START
  <2> QED BY <2>1 DEF LayoutOf
<1>5. FreeDescriptors = GDT_TSS_START + n .. GDT_COUNT - 1
  BY <1>4, GdtAssumption DEF FreeDescriptors, GDT_TSS_START
<1>6. GDT_TSS_START + n < GDT_COUNT
  BY <1>5, GdtAssumption DEF GDT_TSS_START
<1>7. FirstDescriptor = GDT_TSS_START + n
  <2>1. /\ GDT_TSS_START + n \in FreeDescriptors
        /\ \A h \in FreeDescriptors : GDT_TSS_START + n <= h
    BY <1>5, <1>6, GdtAssumption DEF GDT_TSS_START
  <2>2. \A g \in FreeDescriptors : g \in Int
    BY <1>5, GdtAssumption DEF GDT_TSS_START
  <2>3. /\ FirstDescriptor \in FreeDescriptors
        /\ \A h \in FreeDescriptors : FirstDescriptor <= h
    BY <2>1 DEF FirstDescriptor
  <2> QED BY <2>1, <2>2, <2>3
<1> QED BY <1>3, <1>6, <1>7

(* Creating a task, or failing for want of room, keeps the invariant. *)
LEMMA CreateTaskPreserves ==
    ASSUME IInv, create_task
    PROVE  IInv'
<1> USE DEF create_task, Booting, Up
<1>1. CASE halted' = TRUE /\ UNCHANGED <<sched_tasks, current_task, next_selector,
                                          task_id, tss, next_page, gdt, stage>>
  <2>1. DeviceTypeOK'
    BY DEF IInv, TypeOK, DeviceTypeOK
  <2> QED BY <1>1, <2>1, CoreUnchanged DEF core_vars, boot_vars
<1>2. CASE /\ FreeDescriptors # {}
           /\ FreeSlots # {}
           /\ sched_add_task(Selector(FirstDescriptor))
           /\ task_id' = FirstFree
           /\ tss' = [tss EXCEPT ![FirstFree] = tss_create_user_task]
           /\ next_page' = next_page + PAGES_PER_TASK
           /\ gdt' = [gdt EXCEPT ![FirstDescriptor] = tss_gdt_entry_for_task(FirstFree)]
           /\ stage' = "sched_enable_task"
  <2>1. PICK n \in 0 .. MAX_TASKS : LayoutOf(n)
    BY DEF IInv, Layout
  <2>2. /\ n \in Slots /\ FirstFree = n
        /\ GDT_TSS_START + n \in GDT_TSS_START .. GDT_COUNT - 1
        /\ FirstDescriptor = GDT_TSS_START + n
    BY <1>2, <2>1, NextFreeOnes, MaxTasksAssumption, GdtAssumption
       DEF Slots, GDT_TSS_START
  <2>3. GDT_TSS_START + n \in GdtIndices
    BY <2>2, GdtAssumption DEF GdtIndices, GDT_TSS_START, GDT_IDX_TASK_INITIAL
  <2>4. Selector(GDT_TSS_START + n) \in Selectors
    BY <2>2, KernelSelectorsAssumption
  <2>5. /\ sched_tasks' = [sched_tasks EXCEPT ![n] =
                              [selector |-> Selector(GDT_TSS_START + n),
                               state |-> "TASK_PAUSED"]]
        /\ UNCHANGED <<current_task, next_selector, halted>>
    BY <1>2, <2>2, <2>4, SelectorsAssumption, KernelSelectorsAssumption
       DEF sched_add_task
  <2>6. tss_create_user_task = [cr3 |-> 4 * n + 1, esp0 |-> 4 * n + 4,
                                at |-> "code", esp |-> 4 * n + 4]
    BY <2>1 DEF LayoutOf, tss_create_user_task, PAGES_PER_TASK
  <2>7. 4 * n + 1 \in Pages /\ 4 * n + 4 \in Pages
    BY <2>2, MaxTasksAssumption DEF Pages, PAGES_PER_TASK, Slots
  <2>8. tss_create_user_task \in TssStates
    BY <2>6, <2>7 DEF TssStates
  <2>9. tss_gdt_entry_for_task(n) \in Descriptors
    BY <2>2 DEF tss_gdt_entry_for_task, Descriptors, Owners
  <2>10. TypeOK'
    <3>1. SchedTypeOK'
      BY <2>2, <2>4, <2>5 DEF IInv, TypeOK, SchedTypeOK, SchedEntries, TaskStates
    <3>2. BootTypeOK'
      BY <1>2, <2>2 DEF IInv, TypeOK, BootTypeOK, PAGES_PER_TASK
    <3>3. ProcessorTypeOK'
      BY <1>2, <2>2, <2>3, <2>8, <2>9 DEF IInv, TypeOK, ProcessorTypeOK, Owners
    <3>4. DeviceTypeOK'
      BY DEF IInv, TypeOK, DeviceTypeOK
    <3> QED BY <3>1, <3>2, <3>3, <3>4 DEF TypeOK
  <2>11. Layout'
    <3>1. n + 1 \in 0 .. MAX_TASKS
      BY <2>2, MaxTasksAssumption DEF Slots
    <3>2. next_page' = PAGES_PER_TASK * (n + 1) + 1
      BY <1>2, <2>1 DEF LayoutOf, PAGES_PER_TASK
    <3>3. \A i \in Slots : sched_tasks'[i].state = "TASK_SLOT_FREE" <=> n + 1 <= i
      BY <2>1, <2>2, <2>5, MaxTasksAssumption
         DEF LayoutOf, Slots, IInv, TypeOK, SchedTypeOK
    <3>4. ASSUME NEW i \in 0 .. n
          PROVE  /\ sched_tasks'[i].selector = Selector(GDT_TSS_START + i)
                 /\ GDT_TSS_START + i < GDT_COUNT
                 /\ gdt'[GDT_TSS_START + i].p
                 /\ gdt'[GDT_TSS_START + i].base = i
                 /\ tss'[i].esp0 = PAGES_PER_TASK * i + PAGES_PER_TASK
      <4>1. i \in Slots /\ i \in Owners
        BY <2>2, MaxTasksAssumption DEF Slots, Owners
      <4>2. CASE i = n
        BY <1>2, <2>2, <2>3, <2>5, <2>6, <4>1, <4>2, GdtAssumption
           DEF IInv, TypeOK, SchedTypeOK, ProcessorTypeOK, tss_gdt_entry_for_task,
               GDT_TSS_START, PAGES_PER_TASK
      <4>3. CASE i # n
        <5>1. i \in 0 .. n - 1
          BY <4>3
        <5>2. /\ GDT_TSS_START + i < GDT_COUNT
              /\ GDT_TSS_START + i \in GdtIndices
              /\ GDT_TSS_START + i # GDT_TSS_START + n
          BY <2>1, <5>1, GdtAssumption
             DEF LayoutOf, GdtIndices, GDT_TSS_START, GDT_IDX_TASK_INITIAL
        <5> QED BY <1>2, <2>1, <2>2, <2>5, <4>1, <4>3, <5>1, <5>2
                DEF LayoutOf, IInv, TypeOK, SchedTypeOK, ProcessorTypeOK
      <4> QED BY <4>2, <4>3
    <3>5. \A g \in GDT_TSS_START .. GDT_COUNT - 1 :
             gdt'[g].p => g < GDT_TSS_START + (n + 1)
      BY <1>2, <2>1, <2>2, GdtAssumption
         DEF LayoutOf, IInv, TypeOK, ProcessorTypeOK, GDT_TSS_START, GdtIndices,
             GDT_IDX_TASK_INITIAL
    <3>6. \A i \in Slots : n + 1 <= i => tss'[i].at = "code"
      BY <1>2, <2>1, <2>2 DEF LayoutOf, IInv, TypeOK, ProcessorTypeOK, Owners, Slots
    <3>7. /\ stage' = "sched_enable_task" /\ task_id' < n + 1
          /\ to_create' > 0
      BY <1>2, <2>1, <2>2 DEF LayoutOf, Slots
    <3>8. LayoutOf(n + 1)'
      <4> HIDE DEF create_task
      <4>1. (n + 1) - 1 = n
        BY <2>2, MaxTasksAssumption DEF Slots
      <4> QED BY <3>2, <3>3, <3>4, <3>5, <3>6, <3>7, <4>1 DEF LayoutOf
    <3> QED BY <3>1, <3>8 DEF Layout
  <2>12. Registers'
    <3>1. \A g \in GdtIndices : g # GDT_TSS_START + n => gdt'[g] = gdt[g]
      BY <1>2, <2>2, <2>3 DEF IInv, TypeOK, ProcessorTypeOK
    <3>2. ~gdt'[GDT_TSS_START + n].busy /\ ~gdt[GDT_TSS_START + n].busy
      <4>1. tr = NullSelector
        BY DEF IInv, Registers
      <4>2. Selector(GDT_TSS_START + n) # NullSelector
        BY <2>2, KernelSelectorsAssumption DEF Selector, GDT_TSS_START
      <4> QED BY <1>2, <2>2, <2>3, <4>1, <4>2
              DEF IInv, TypeOK, ProcessorTypeOK, Registers, OneBusy, tss_gdt_entry_for_task
    <3>3. OneBusy'
      BY <3>1, <3>2 DEF IInv, Registers, OneBusy
    <3>4. /\ GDT_IDX_TASK_IDLE \in GdtIndices /\ GDT_IDX_TASK_INITIAL \in GdtIndices
          /\ GDT_IDX_TASK_IDLE # GDT_TSS_START + n
          /\ GDT_IDX_TASK_INITIAL # GDT_TSS_START + n
      BY <2>2, GdtAssumption
         DEF GdtIndices, GDT_IDX_TASK_IDLE, GDT_IDX_TASK_INITIAL, GDT_TSS_START
    <3>5. \A i \in Owners : tss'[i].at = "code"
      BY <1>2, <2>2, <2>6 DEF IInv, Registers, TypeOK, ProcessorTypeOK
    <3> QED BY <1>2, <3>1, <3>3, <3>4, <3>5 DEF IInv, Registers
  <2>13. Stacks' /\ ContextIntegrity' /\ CurrentTaskRuns'
    <3>1. tss'[TASK_IDLE] = tss[TASK_IDLE]
      BY <1>2, <2>2, OwnersDistinct DEF IInv, TypeOK, ProcessorTypeOK, Owners
    <3>2. \A i \in Slots \cup {TASK_IDLE} : tss'[i].at = "code"
      BY <1>2, <2>2, <2>6, NothingRunsAtBoot DEF IInv, TypeOK, ProcessorTypeOK, Owners
    <3> QED BY <1>2, <3>1, <3>2, BootPartsHold DEF IInv, Stacks
  <2> QED BY <2>10, <2>11, <2>12, <2>13 DEF IInv
<1> QED BY <1>1, <1>2

(* Enabling the task just created keeps the invariant. *)
LEMMA EnableCreatedPreserves ==
    ASSUME IInv, EnableCreated
    PROVE  IInv'
<1> USE DEF EnableCreated, Booting, sched_enable_task, Up
<1>1. PICK n \in 0 .. MAX_TASKS : LayoutOf(n)
  BY DEF IInv, Layout
<1>2. task_id \in Slots /\ task_id < n
  BY <1>1 DEF IInv, TypeOK, BootTypeOK, LayoutOf
<1>3. TypeOK'
  <2>1. to_create' \in Nat
    BY <1>1 DEF IInv, TypeOK, BootTypeOK, LayoutOf
  <2>2. SchedTypeOK'
    BY <1>2 DEF IInv, TypeOK, SchedTypeOK, SchedEntries, TaskStates
  <2> QED BY <2>1, <2>2 DEF IInv, TypeOK, BootTypeOK, ProcessorTypeOK, DeviceTypeOK
<1>4. Layout'
  <2>1. \A i \in Slots : /\ sched_tasks'[i].selector = sched_tasks[i].selector
                         /\ sched_tasks'[i].state = "TASK_SLOT_FREE" <=>
                              sched_tasks[i].state = "TASK_SLOT_FREE"
    <3>1. sched_tasks[task_id].state # "TASK_SLOT_FREE"
      BY <1>1, <1>2, MaxTasksAssumption DEF LayoutOf, Slots
    <3> QED BY <1>2, <3>1 DEF IInv, TypeOK, SchedTypeOK, SchedEntries
  <2>2. \A i \in 0 .. n - 1 : i \in Slots
    BY MaxTasksAssumption DEF Slots
  <2>3. stage' = "create_task" => to_create' > 0
    BY <1>1 DEF IInv, TypeOK, BootTypeOK, LayoutOf
  <2>4. LayoutOf(n)'
    BY <1>1, <2>1, <2>2, <2>3 DEF LayoutOf
  <2> QED BY <2>4 DEF Layout
<1>5. Registers'
  BY DEF IInv, Registers, OneBusy
<1>6. Stacks' /\ ContextIntegrity' /\ CurrentTaskRuns'
  BY NothingRunsAtBoot, BootPartsHold DEF IInv, Stacks
<1> QED BY <1>3, <1>4, <1>5, <1>6 DEF IInv

(* Unmasking the interrupts keeps the invariant. *)
LEMMA PicEnablePreserves ==
    ASSUME IInv, pic_enable
    PROVE  IInv'
<1> USE DEF pic_enable, Booting, sched_vars, Up
<1>1. TypeOK'
  BY DEF IInv, TypeOK, SchedTypeOK, BootTypeOK, ProcessorTypeOK, DeviceTypeOK
<1>2. Layout'
  BY DEF IInv, Layout, LayoutOf
<1>3. Registers'
  BY DEF IInv, Registers, OneBusy
<1>4. Stacks' /\ ContextIntegrity' /\ CurrentTaskRuns'
  BY NothingRunsAtBoot, BootPartsHold DEF IInv, Stacks
<1> QED BY <1>1, <1>2, <1>3, <1>4 DEF IInv

(* Setting or clearing busy bits disturbs nothing that Layout says. *)
LEMMA BusyBitsKeepLayout ==
    ASSUME IInv, gdt' \in [GdtIndices -> Descriptors],
           \A g \in GdtIndices : gdt'[g].p = gdt[g].p /\ gdt'[g].base = gdt[g].base,
           UNCHANGED <<sched_tasks, next_page, task_id, to_create>>,
           \A i \in Slots : tss'[i].esp0 = tss[i].esp0,
           NEW n \in 0 .. MAX_TASKS, LayoutOf(n),
           \A i \in Slots : n <= i => tss'[i].at = "code",
           stage \in {"ltr", "jmp_idle", "up"}, stage' \in {"jmp_idle", "up"}
    PROVE  Layout'
<1>1. ASSUME NEW i \in 0 .. n - 1
      PROVE  i \in Slots /\ GDT_TSS_START + i \in GdtIndices
  <2>1. i \in Slots
    BY MaxTasksAssumption DEF Slots
  <2>2. GDT_TSS_START + i < GDT_COUNT
    BY DEF LayoutOf
  <2> QED BY <2>1, <2>2, GdtAssumption
          DEF GdtIndices, GDT_TSS_START, GDT_IDX_TASK_INITIAL
<1>2. \A g \in GDT_TSS_START .. GDT_COUNT - 1 : g \in GdtIndices
  BY GdtAssumption DEF GdtIndices, GDT_TSS_START, GDT_IDX_TASK_INITIAL
<1>3. LayoutOf(n)'
  BY <1>1, <1>2 DEF LayoutOf
<1> QED BY <1>3 DEF Layout

(* The entries of the initial and of the idle task, and their selectors.    *)
LEMMA FixedEntries ==
    /\ GDT_IDX_TASK_IDLE \in GdtIndices /\ GDT_IDX_TASK_INITIAL \in GdtIndices
    /\ GDT_IDX_TASK_IDLE # GDT_IDX_TASK_INITIAL
    /\ IdleSelector = Selector(GDT_IDX_TASK_IDLE)
    /\ \A g, h \in GdtIndices : /\ g \in Nat
                                /\ Selector(g) = Selector(h) => g = h
                                /\ Selector(g) # NullSelector
                                /\ Index(Selector(g)) = g
<1>1. \A g \in GdtIndices : g \in Nat /\ g > 0
  BY GdtAssumption DEF GdtIndices, GDT_IDX_TASK_INITIAL
<1>2. GDT_IDX_TASK_IDLE \in GdtIndices /\ GDT_IDX_TASK_INITIAL \in GdtIndices
  BY GdtAssumption DEF GdtIndices, GDT_IDX_TASK_INITIAL, GDT_IDX_TASK_IDLE, GDT_TSS_START
<1> QED BY <1>1, <1>2, IndexOfSelector, KernelSelectorsAssumption
        DEF Selector, GDT_IDX_TASK_INITIAL, GDT_IDX_TASK_IDLE

(* A task switch changes two busy bits and nothing else of the table. *)
LEMMA BusyBitsTyped ==
    ASSUME gdt \in [GdtIndices -> Descriptors],
           NEW g \in GdtIndices, NEW h \in GdtIndices, g # h,
           gdt' = [gdt EXCEPT ![g].busy = FALSE, ![h].busy = TRUE]
    PROVE  /\ gdt' \in [GdtIndices -> Descriptors]
           /\ \A i \in GdtIndices :
                 /\ gdt'[i].p = gdt[i].p /\ gdt'[i].base = gdt[i].base
                 /\ gdt'[i].busy <=> i = h \/ (i # g /\ gdt[i].busy)
<1>1. /\ [gdt[g] EXCEPT !.busy = FALSE] \in Descriptors
      /\ [gdt[h] EXCEPT !.busy = TRUE] \in Descriptors
  BY DEF Descriptors
<1>2. \A i \in GdtIndices :
        gdt'[i] = IF i = h THEN [gdt[h] EXCEPT !.busy = TRUE]
                  ELSE IF i = g THEN [gdt[g] EXCEPT !.busy = FALSE] ELSE gdt[i]
  OBVIOUS
<1>3. gdt' \in [GdtIndices -> Descriptors]
  BY <1>1, <1>2
<1>4. \A d \in Descriptors : \A v \in BOOLEAN :
        LET e == [d EXCEPT !.busy = v]
        IN  e.p = d.p /\ e.base = d.base /\ e.busy = v
  BY DEF Descriptors
<1> QED BY <1>2, <1>3, <1>4

(* Loading the task register keeps the invariant. *)
LEMMA LoadTaskRegisterPreserves ==
    ASSUME IInv, LoadTaskRegister
    PROVE  IInv'
<1> USE DEF LoadTaskRegister, Booting, sched_vars, Up
<1>1. gdt' \in [GdtIndices -> Descriptors]
  <2>1. \A d \in Descriptors : [d EXCEPT !.busy = TRUE] \in Descriptors
    BY DEF Descriptors
  <2>2. gdt \in [GdtIndices -> Descriptors] /\ GDT_IDX_TASK_INITIAL \in GdtIndices
    BY FixedEntries DEF IInv, TypeOK, ProcessorTypeOK
  <2> QED BY <2>1, <2>2
<1>2. TypeOK'
  BY <1>1, FixedEntries
     DEF IInv, TypeOK, SchedTypeOK, BootTypeOK, ProcessorTypeOK, DeviceTypeOK, tasks_screen_draw
<1>3. Layout'
  <2>1. PICK n \in 0 .. MAX_TASKS : LayoutOf(n)
    BY DEF IInv, Layout
  <2>2. \A g \in GdtIndices : gdt'[g].p = gdt[g].p /\ gdt'[g].base = gdt[g].base
    BY FixedEntries DEF IInv, TypeOK, ProcessorTypeOK, Descriptors
  <2>3. \A i \in Slots : n <= i => tss'[i].at = "code"
    BY <2>1 DEF LayoutOf
  <2> QED BY <1>1, <2>1, <2>2, <2>3, BusyBitsKeepLayout
<1>4. Registers'
  <2>1. \A g \in GdtIndices : gdt'[g].busy <=> g = GDT_IDX_TASK_INITIAL
    BY FixedEntries DEF IInv, TypeOK, ProcessorTypeOK, Descriptors, Registers, OneBusy
  <2>2. OneBusy'
    BY <2>1, FixedEntries DEF OneBusy
  <2> QED BY <2>2, FixedEntries
          DEF IInv, TypeOK, ProcessorTypeOK, Descriptors, Registers
<1>5. Stacks' /\ ContextIntegrity' /\ CurrentTaskRuns'
  BY NothingRunsAtBoot, BootPartsHold DEF IInv, Stacks
<1> QED BY <1>2, <1>3, <1>4, <1>5 DEF IInv

(* The jump to the idle task ends the boot: idle runs its code and nothing  *)
(* else does.                                                               *)
LEMMA StartIdleRunsIdle ==
    ASSUME IInv, StartIdle
    PROVE  /\ Current' = TASK_IDLE /\ cpu'.at = "code" /\ tr' = IdleSelector
           /\ \A i \in Slots \cup {TASK_IDLE} : tss'[i] = tss[i]
<1> USE DEF StartIdle, Booting, sched_vars, Up
<1>1. /\ tr = Selector(GDT_IDX_TASK_INITIAL)
      /\ Index(tr) = GDT_IDX_TASK_INITIAL /\ Current = TASK_INITIAL
      /\ Index(IdleSelector) = GDT_IDX_TASK_IDLE
  BY FixedEntries DEF IInv, Registers, Current
<1>2. /\ gdt[GDT_IDX_TASK_IDLE].p /\ ~gdt[GDT_IDX_TASK_IDLE].busy
      /\ gdt[GDT_IDX_TASK_IDLE].base = TASK_IDLE
  BY <1>1, FixedEntries DEF IInv, Registers, OneBusy
<1>3. /\ tss' = [tss EXCEPT ![TASK_INITIAL].at = "boot", ![TASK_INITIAL].esp = KERNEL_STACK]
      /\ gdt' = [gdt EXCEPT ![GDT_IDX_TASK_INITIAL].busy = FALSE,
                            ![GDT_IDX_TASK_IDLE].busy = TRUE]
      /\ tr' = Selector(GDT_IDX_TASK_IDLE)
      /\ cpu' = [ctx |-> TASK_IDLE, cr3 |-> tss[TASK_IDLE].cr3,
                 esp |-> tss[TASK_IDLE].esp, at |-> "code"]
  <2>1. tss[TASK_IDLE].at = "code"
    BY DEF IInv, Registers, Owners
  <2> QED BY <1>1, <1>2, <2>1, FixedEntries DEF JumpFar
<1>7. \A i \in Slots \cup {TASK_IDLE} : tss'[i] = tss[i]
  BY <1>3, OwnersDistinct DEF IInv, TypeOK, ProcessorTypeOK, Owners
<1>10. Current' = TASK_IDLE
  BY <1>2, <1>3, FixedEntries DEF Current, IInv, TypeOK, ProcessorTypeOK, Descriptors
<1> QED BY <1>3, <1>7, <1>10, KernelSelectorsAssumption

(* The jump to the idle task keeps the invariant. *)
LEMMA StartIdlePreserves ==
    ASSUME IInv, StartIdle
    PROVE  IInv'
<1> USE DEF StartIdle, Booting, sched_vars, Up
<1>1. /\ tr = Selector(GDT_IDX_TASK_INITIAL)
      /\ Index(tr) = GDT_IDX_TASK_INITIAL /\ Current = TASK_INITIAL
      /\ Index(IdleSelector) = GDT_IDX_TASK_IDLE
  BY FixedEntries DEF IInv, Registers, Current
<1>2. /\ gdt[GDT_IDX_TASK_IDLE].p /\ ~gdt[GDT_IDX_TASK_IDLE].busy
      /\ gdt[GDT_IDX_TASK_IDLE].base = TASK_IDLE
  BY <1>1, FixedEntries DEF IInv, Registers, OneBusy
<1>3. /\ tss' = [tss EXCEPT ![TASK_INITIAL].at = "boot", ![TASK_INITIAL].esp = KERNEL_STACK]
      /\ gdt' = [gdt EXCEPT ![GDT_IDX_TASK_INITIAL].busy = FALSE,
                            ![GDT_IDX_TASK_IDLE].busy = TRUE]
      /\ tr' = Selector(GDT_IDX_TASK_IDLE)
      /\ cpu' = [ctx |-> TASK_IDLE, cr3 |-> tss[TASK_IDLE].cr3,
                 esp |-> tss[TASK_IDLE].esp, at |-> "code"]
  <2>1. tss[TASK_IDLE].at = "code"
    BY DEF IInv, Registers, Owners
  <2> QED BY <1>1, <1>2, <2>1, FixedEntries DEF JumpFar
<1>4. gdt' \in [GdtIndices -> Descriptors]
  BY <1>3, FixedEntries, BusyBitsTyped DEF IInv, TypeOK, ProcessorTypeOK
<1>5. tss' \in [Owners -> TssStates]
  <2>1. KERNEL_STACK \in Pages
    BY MaxTasksAssumption DEF KERNEL_STACK, Pages, PAGES_PER_TASK
  <2> QED BY <1>3, <2>1 DEF IInv, TypeOK, ProcessorTypeOK, TssStates
<1>6. TypeOK'
  <2>1. ProcessorTypeOK'
    BY <1>3, <1>4, <1>5, FixedEntries DEF IInv, TypeOK, ProcessorTypeOK, TssStates, Owners
  <2> QED BY <2>1 DEF IInv, TypeOK, SchedTypeOK, BootTypeOK, DeviceTypeOK
<1>7. \A i \in Slots \cup {TASK_IDLE} : tss'[i] = tss[i]
  BY StartIdleRunsIdle
<1>8. Layout'
  <2>1. PICK n \in 0 .. MAX_TASKS : LayoutOf(n)
    BY DEF IInv, Layout
  <2>2. \A g \in GdtIndices : gdt'[g].p = gdt[g].p /\ gdt'[g].base = gdt[g].base
    BY <1>3, FixedEntries DEF IInv, TypeOK, ProcessorTypeOK, Descriptors
  <2>3. \A i \in Slots : n <= i => tss'[i].at = "code"
    BY <1>7, <2>1 DEF LayoutOf
  <2> QED BY <1>4, <1>7, <2>1, <2>2, <2>3, BusyBitsKeepLayout
<1>9. Registers'
  <2>1. \A g \in GdtIndices : gdt'[g].busy <=> g = GDT_IDX_TASK_IDLE
    BY <1>1, <1>3, FixedEntries
       DEF IInv, TypeOK, ProcessorTypeOK, Descriptors, Registers, OneBusy
  <2>2. OneBusy'
    BY <1>3, <2>1, FixedEntries DEF OneBusy
  <2> QED BY <1>3, <2>2, FixedEntries
          DEF IInv, TypeOK, ProcessorTypeOK, Descriptors, Registers
<1>10. Current' = TASK_IDLE
  BY StartIdleRunsIdle
<1>11. Stacks' /\ ContextIntegrity' /\ CurrentTaskRuns'
  BY <1>3, <1>7, <1>10, NothingRunsAtBoot, OwnersDistinct
     DEF IInv, Stacks, ContextIntegrity, CurrentTaskRuns
<1> QED BY <1>6, <1>8, <1>9, <1>11 DEF IInv

-----------------------------------------------------------------------------
(* The clock *)

(* The selector that sched_next_task returns names the idle task or the     *)
(* task of the slot it has just made current.                               *)
LEMMA DispatchTarget ==
    ASSUME IInv, Up, sched_next_task, NEW n \in 0 .. MAX_TASKS, LayoutOf(n)
    PROVE  /\ next_selector' \in Selectors \cup {IdleSelector}
           /\ current_task' \in Slots
           /\ \E g \in GdtIndices :
                 /\ next_selector' = Selector(g) /\ gdt[g].p
                 /\ g # GDT_IDX_TASK_INITIAL
                 /\ \/ g = GDT_IDX_TASK_IDLE /\ gdt[g].base = TASK_IDLE
                    \/ /\ gdt[g].base \in 0 .. n - 1
                       /\ g = GDT_TSS_START + gdt[g].base
                       /\ gdt[g].base = current_task'
<1>1. CASE ~Runnable(NextSlot)
  BY <1>1, FixedEntries, KernelSelectorsAssumption
     DEF sched_next_task, IInv, TypeOK, SchedTypeOK, Registers, Up
<1>2. CASE Runnable(NextSlot)
  <2>1. NextSlot \in Slots
    BY NextSlotIsSlot DEF IInv, TypeOK, SchedTypeOK
  <2>2. NextSlot \in 0 .. n - 1
    BY <1>2, <2>1, MaxTasksAssumption DEF LayoutOf, Runnable, Slots
  <2>3. /\ next_selector' = Selector(GDT_TSS_START + NextSlot)
        /\ current_task' = NextSlot
    BY <1>2, <2>2 DEF sched_next_task, LayoutOf
  <2>4. /\ GDT_TSS_START + NextSlot < GDT_COUNT
        /\ gdt[GDT_TSS_START + NextSlot].p
        /\ gdt[GDT_TSS_START + NextSlot].base = NextSlot
    BY <2>2 DEF LayoutOf
  <2>5. /\ GDT_TSS_START + NextSlot \in GDT_TSS_START .. GDT_COUNT - 1
        /\ GDT_TSS_START + NextSlot \in GdtIndices
        /\ GDT_TSS_START + NextSlot # GDT_IDX_TASK_INITIAL
    BY <2>2, <2>4, GdtAssumption DEF GDT_TSS_START, GdtIndices, GDT_IDX_TASK_INITIAL
  <2>6. next_selector' \in Selectors
    BY <2>3, <2>5, KernelSelectorsAssumption
  <2> QED BY <2>1, <2>2, <2>3, <2>4, <2>5, <2>6
<1> QED BY <1>1, <1>2

(* What isr32 does whether it jumps or not: the frame of the interrupted    *)
(* task is on its own stack and no other frame is touched.                  *)
LEMMA Isr32Common ==
    ASSUME IInv, isr32
    PROVE  /\ Up /\ Up' /\ cpu.at = "code" /\ cpu.ctx = Current
           /\ SchedTypeOK' /\ BootTypeOK' /\ DeviceTypeOK'
           /\ kstack' \in [Pages -> Owners \cup {NOBODY}]
           /\ kstack'[HandlerStack] = Current
           /\ \A i \in Slots \cup {TASK_IDLE} :
                 tss[i].at = "fin" /\ Current # i => kstack'[tss[i].esp] = i
<1> USE DEF isr32
<1>1. Up /\ Up' /\ ~halted /\ cpu.at = "code"
  BY DEF Raised, InterruptsOn, Up, boot_vars
<1>2. cpu.ctx = Current
  BY <1>1 DEF IInv, ContextIntegrity
<1>3. PICK n \in 0 .. MAX_TASKS : LayoutOf(n)
  BY DEF IInv, Layout
<1>4. SchedTypeOK'
  <2>1. next_selector' \in Selectors \cup {IdleSelector} /\ current_task' \in Slots
    BY <1>1, <1>3, DispatchTarget
  <2> QED BY <2>1 DEF IInv, TypeOK, SchedTypeOK, sched_next_task
<1>5. BootTypeOK'
  BY DEF IInv, TypeOK, BootTypeOK, boot_vars
<1>6. DeviceTypeOK'
  <2>1. isrNumber' \in 0 .. 3
    BY DEF IInv, TypeOK, DeviceTypeOK, next_clock
  <2>2. irr' \subseteq IRQs /\ in_service' \subseteq IRQs
    BY DEF IInv, TypeOK, DeviceTypeOK, Acknowledge, pic_finish1, IRQs
  <2> QED BY <2>1, <2>2 DEF IInv, TypeOK, DeviceTypeOK
<1>7. /\ kstack \in [Pages -> Owners \cup {NOBODY}]
      /\ cpu.ctx \in Owners \cup {NOBODY}
      /\ \A i \in Owners : tss[i].esp \in Pages
  BY DEF IInv, TypeOK, ProcessorTypeOK, TssStates
<1>8. HandlerStack \in Pages
  BY <1>1, CurrentTypes
<1>9. kstack' = [kstack EXCEPT ![HandlerStack] = cpu.ctx]
  BY DEF Pushed
<1>10. ASSUME NEW i \in Slots \cup {TASK_IDLE}, tss[i].at = "fin", Current # i
       PROVE  kstack'[tss[i].esp] = i
  <2>1. kstack[tss[i].esp] = i
    BY <1>10 DEF IInv, ContextIntegrity
  <2>2. tss[i].esp # HandlerStack
    BY <1>1, <1>10, StacksDistinct DEF HandlerStack
  <2> QED BY <1>7, <1>8, <1>9, <2>1, <2>2 DEF Owners
<1> QED BY <1>1, <1>2, <1>4, <1>5, <1>6, <1>7, <1>8, <1>9, <1>10

(* The clock handler keeps the invariant when the running task goes on.     *)
LEMMA Isr32SameTask ==
    ASSUME IInv, isr32, SameTask(next_selector'),
           cpu' = [cpu EXCEPT !.at = "fin", !.esp = HandlerStack],
           UNCHANGED <<tss, gdt, tr>>
    PROVE  IInv'
<1>1. /\ UNCHANGED <<boot_vars, kbd_full, env, highlight, window>>
      /\ sched_next_task /\ UNCHANGED sched_tasks
  BY DEF isr32, sched_next_task
<1>2. PICK n \in 0 .. MAX_TASKS : LayoutOf(n)
  BY DEF IInv, Layout
<1>3. HandlerStack \in Pages /\ Current' = Current
  BY Isr32Common, CurrentTypes DEF Current
<1>4. TypeOK'
  <2>1. ProcessorTypeOK'
    BY <1>3, Isr32Common DEF IInv, TypeOK, ProcessorTypeOK
  <2> QED BY <2>1, Isr32Common DEF TypeOK
<1>5. Layout'
  BY <1>1, <1>2 DEF Layout, LayoutOf, boot_vars
<1>6. cpu'.at = "fin" /\ cpu'.esp = HandlerStack /\ cpu'.cr3 = cpu.cr3
  BY DEF IInv, TypeOK, ProcessorTypeOK
<1>7. Registers'
  BY <1>1, <1>6, Isr32Common DEF IInv, Registers, OneBusy, Up, boot_vars
<1>8. Stacks'
  BY <1>3, <1>6 DEF IInv, Stacks, HandlerStack
<1>9. ContextIntegrity'
  BY <1>3, <1>6, Isr32Common DEF IInv, ContextIntegrity
<1>10. CurrentTaskRuns'
  <2>1. PICK g \in GdtIndices :
          /\ next_selector' = Selector(g)
          /\ \/ g = GDT_IDX_TASK_IDLE /\ gdt[g].base = TASK_IDLE
             \/ gdt[g].base = current_task'
    BY <1>1, <1>2, Isr32Common, DispatchTarget
  <2>2. Current = gdt[g].base
    BY <2>1, FixedEntries DEF SameTask, Current
  <2> QED BY <1>3, <2>1, <2>2, OwnersDistinct DEF CurrentTaskRuns
<1> QED BY <1>4, <1>5, <1>7, <1>8, <1>9, <1>10 DEF IInv

(* The clock handler keeps the invariant when it jumps to another task.     *)
LEMMA Isr32Jump ==
    ASSUME IInv, isr32, ~SameTask(next_selector'),
           JumpFar(next_selector', "fin", HandlerStack)
    PROVE  IInv'
<1>1. /\ UNCHANGED <<boot_vars, kbd_full, env, highlight, window>>
      /\ sched_next_task /\ UNCHANGED sched_tasks
  BY DEF isr32, sched_next_task
<1>2. PICK n \in 0 .. MAX_TASKS : LayoutOf(n)
  BY DEF IInv, Layout
<1>3. PICK g \in GdtIndices :
          /\ next_selector' = Selector(g) /\ gdt[g].p
          /\ g # GDT_IDX_TASK_INITIAL
          /\ \/ g = GDT_IDX_TASK_IDLE /\ gdt[g].base = TASK_IDLE
             \/ /\ gdt[g].base \in 0 .. n - 1
                /\ g = GDT_TSS_START + gdt[g].base
                /\ gdt[g].base = current_task'
  BY <1>1, <1>2, Isr32Common, DispatchTarget
<1>4. /\ Index(tr) \in GdtIndices
      /\ \/ Current = TASK_IDLE /\ tr = Selector(GDT_IDX_TASK_IDLE)
         \/ Current \in 0 .. n - 1 /\ tr = Selector(GDT_TSS_START + Current)
  BY <1>2, Isr32Common, CurrentIsDispatchable
<1> DEFINE b == gdt[g].base
           c == Current
           t == Index(tr)
<1>5. Index(next_selector') = g /\ tr # Selector(g)
  BY <1>3, FixedEntries DEF SameTask
<1>6. tr = Selector(t)
  <2>1. PICK h \in GdtIndices : tr = Selector(h)
    BY Isr32Common DEF IInv, Registers
  <2> QED BY <2>1, FixedEntries
<1>7. t # g /\ ~gdt[g].busy
  BY <1>5, <1>6 DEF IInv, Registers, OneBusy
<1>8. b # c
  BY <1>3, <1>4, <1>5, OwnersDistinct, MaxTasksAssumption DEF Slots
<1>9. /\ b \in Slots \cup {TASK_IDLE} /\ b \in Owners
      /\ c \in Slots \cup {TASK_IDLE} /\ c \in Owners
  BY <1>3, <1>4, MaxTasksAssumption DEF Slots, Owners
<1>10. /\ tss' = [tss EXCEPT ![c].at = "fin", ![c].esp = HandlerStack]
       /\ gdt' = [gdt EXCEPT ![t].busy = FALSE, ![g].busy = TRUE]
       /\ tr' = Selector(g)
       /\ cpu' = [ctx |-> IF tss[b].at = "code" THEN b ELSE cpu.ctx,
                  cr3 |-> tss[b].cr3, esp |-> tss[b].esp, at |-> tss[b].at]
  BY <1>3, <1>5, <1>7 DEF JumpFar
<1>11. /\ gdt' \in [GdtIndices -> Descriptors]
       /\ \A i \in GdtIndices :
             /\ gdt'[i].p = gdt[i].p
             /\ gdt'[i].base = gdt[i].base
             /\ gdt'[i].busy <=> i = g \/ (i # t /\ gdt[i].busy)
  <2>1. gdt \in [GdtIndices -> Descriptors] /\ t \in GdtIndices
    BY <1>4 DEF IInv, TypeOK, ProcessorTypeOK
  <2> HIDE DEF t, b, c
  <2> QED BY <1>7, <1>10, <2>1, BusyBitsTyped
<1>12. /\ tss' \in [Owners -> TssStates]
       /\ tss'[c] = [tss[c] EXCEPT !.at = "fin", !.esp = HandlerStack]
       /\ \A i \in Owners : i # c => tss'[i] = tss[i]
       /\ tss[c] \in TssStates /\ tss[b] \in TssStates
       /\ HandlerStack \in Pages
  <2>1. HandlerStack \in Pages /\ tss \in [Owners -> TssStates]
    BY Isr32Common, CurrentTypes DEF IInv, TypeOK, ProcessorTypeOK
  <2>2. \A s \in TssStates :
          [[s EXCEPT !.at = "fin"] EXCEPT !.esp = HandlerStack] \in TssStates
    BY <2>1 DEF TssStates
  <2>3. \A s \in TssStates : [[s EXCEPT !.at = "fin"] EXCEPT !.esp = HandlerStack]
                               = [s EXCEPT !.at = "fin", !.esp = HandlerStack]
    BY DEF TssStates
  <2> HIDE DEF b, c
  <2> QED BY <1>9, <1>10, <2>1, <2>2, <2>3
<1>13. /\ tss'[c].at = "fin" /\ tss'[c].esp = HandlerStack
       /\ tss'[c].esp0 = tss[c].esp0 /\ tss'[c].cr3 = tss[c].cr3
       /\ tss[b].at \in {"code", "fin"} /\ tss'[b] = tss[b]
       /\ HandlerStack = tss[c].esp0
  BY <1>8, <1>9, <1>12 DEF TssStates, IInv, Stacks, HandlerStack
<1>14. Current' = b
  BY <1>3, <1>10, <1>11, FixedEntries DEF Current
<1>15. /\ cpu'.at = tss[b].at /\ cpu'.esp = tss[b].esp /\ cpu'.cr3 = tss[b].cr3
       /\ cpu'.at = "code" => cpu'.ctx = b
  BY <1>10
<1> HIDE DEF b, c, t
<1>16. TypeOK'
  <2>1. cpu' \in [ctx : Owners \cup {NOBODY}, cr3 : Pages, esp : Pages,
                  at : {"boot", "code", "fin", "fault"}]
    BY <1>9, <1>10, <1>12 DEF IInv, TypeOK, ProcessorTypeOK, TssStates
  <2>2. ProcessorTypeOK'
    BY <1>3, <1>10, <1>11, <1>12, <2>1, Isr32Common DEF ProcessorTypeOK
  <2> QED BY <2>2, Isr32Common DEF TypeOK
<1>17. Layout'
  <2>1. \A i \in Slots : tss'[i].esp0 = tss[i].esp0
    BY <1>12, <1>13 DEF Owners
  <2>2. \A i \in Slots : n <= i => tss'[i].at = "code"
    BY <1>2, <1>4, <1>12, OwnersDistinct, MaxTasksAssumption
       DEF c, LayoutOf, Owners, Slots
  <2>3. stage = "up" /\ stage' = "up"
    BY Isr32Common DEF Up
  <2>4. \A i \in GdtIndices : gdt'[i].p = gdt[i].p /\ gdt'[i].base = gdt[i].base
    BY <1>11
  <2>5. UNCHANGED <<sched_tasks, next_page, task_id, to_create>>
    BY <1>1 DEF boot_vars
  <2> QED BY <1>2, <1>11, <2>1, <2>2, <2>3, <2>4, <2>5, BusyBitsKeepLayout
<1>18. Registers'
  <2>1. OneBusy'
    <3>1. \A i \in GdtIndices : gdt[i].busy <=> i = t
      BY <1>4, <1>6, FixedEntries DEF IInv, Registers, OneBusy, t
    <3>2. ASSUME NEW i \in GdtIndices PROVE gdt'[i].busy <=> i = g
      <4>1. gdt[i].busy <=> i = t
        BY <3>1
      <4>2. gdt'[i].busy <=> i = g \/ (i # t /\ gdt[i].busy)
        BY <1>11
      <4> QED BY <4>1, <4>2
    <3> QED BY <1>3, <1>10, <3>2, FixedEntries DEF OneBusy
  <2>2. /\ gdt'[GDT_IDX_TASK_IDLE].p /\ gdt'[GDT_IDX_TASK_IDLE].base = TASK_IDLE
        /\ gdt'[GDT_IDX_TASK_INITIAL].p
        /\ gdt'[GDT_IDX_TASK_INITIAL].base = TASK_INITIAL
    BY <1>11, Isr32Common, FixedEntries DEF IInv, Registers, Up
  <2>3. /\ tr' = Selector(g) /\ gdt'[g].p /\ g \in GdtIndices
        /\ g # GDT_IDX_TASK_INITIAL
    BY <1>3, <1>10, <1>11
  <2>4. stage' = "up" /\ cpu'.at \in {"code", "fin"}
    BY <1>13, <1>15, Isr32Common DEF Up
  <2> QED BY <2>1, <2>2, <2>3, <2>4 DEF Registers, Up
<1>19. Stacks'
  <2>1. ASSUME NEW i \in Slots \cup {TASK_IDLE}
        PROVE  /\ tss'[i].at \in {"code", "fin"}
               /\ tss'[i].at = "fin" => tss'[i].esp = tss'[i].esp0
               /\ tss'[i].esp0 = tss[i].esp0
    BY <1>12, <1>13 DEF IInv, Stacks, Owners
  <2>2. tss'[b].at = "fin" => tss'[b].esp = tss'[b].esp0
    BY <1>9, <2>1
  <2> QED BY <1>13, <1>14, <1>15, <2>1, <2>2 DEF IInv, Stacks
<1>20. ContextIntegrity'
  <2>1. ASSUME NEW i \in Slots \cup {TASK_IDLE}, tss'[i].at = "fin", b # i
        PROVE  kstack'[tss'[i].esp] = i
    <3>1. CASE i = c
      BY <1>13, <3>1, Isr32Common DEF c
    <3>2. CASE i # c
      BY <1>12, <2>1, <3>2, Isr32Common DEF c, Owners
    <3> QED BY <3>1, <3>2
  <2>2. tss[b].at = "fin" => kstack'[tss[b].esp] = b
    BY <1>8, <1>9, Isr32Common DEF c
  <2> QED BY <1>13, <1>14, <1>15, <2>1, <2>2, Isr32Common DEF ContextIntegrity
<1>21. CurrentTaskRuns'
  BY <1>3, <1>14, OwnersDistinct DEF CurrentTaskRuns, b
<1> QED BY <1>16, <1>17, <1>18, <1>19, <1>20, <1>21 DEF IInv

(* The end of the clock handler restores the task it belongs to.            *)
LEMMA Isr32FinPreserves ==
    ASSUME IInv, isr32_fin
    PROVE  IInv'
<1> USE DEF isr32_fin, sched_vars, boot_vars
<1>1. Up /\ Up' /\ cpu.at = "fin" /\ Current' = Current
  BY DEF Up, Current
<1>2. kstack[cpu.esp] = Current /\ Current \in Slots \cup {TASK_IDLE}
  BY <1>1, CurrentTypes DEF IInv, ContextIntegrity
<1>3. /\ cpu'.ctx = Current /\ cpu'.at = "code"
      /\ cpu'.cr3 = cpu.cr3 /\ cpu'.esp = cpu.esp
  BY <1>2 DEF IInv, TypeOK, ProcessorTypeOK
<1>4. TypeOK'
  <2>1. ProcessorTypeOK'
    BY <1>2 DEF IInv, TypeOK, ProcessorTypeOK, Owners
  <2>2. env' \in [tick_count : 0 .. WORD - 1, task_id : Int]
    BY WordAssumption, OwnersDistinct
       DEF IInv, TypeOK, DeviceTypeOK, SchedTypeOK, tasks_tick
  <2>3. DeviceTypeOK'
    BY <2>2 DEF IInv, TypeOK, DeviceTypeOK, SchedTypeOK, tasks_screen_update
  <2> QED BY <2>1, <2>3 DEF IInv, TypeOK, SchedTypeOK, BootTypeOK
<1>5. Layout'
  BY DEF IInv, Layout, LayoutOf
<1>6. Registers' /\ Stacks' /\ CurrentTaskRuns'
  BY <1>1, <1>3 DEF IInv, Registers, OneBusy, Stacks, CurrentTaskRuns, Up
<1>7. ContextIntegrity'
  BY <1>1, <1>3 DEF IInv, ContextIntegrity
<1> QED BY <1>4, <1>5, <1>6, <1>7 DEF IInv

-----------------------------------------------------------------------------

(* Every step preserves the invariant.                                      *)
LEMMA KernelInvNext == IInv /\ [Next]_vars => IInv'
<1> SUFFICES ASSUME IInv, [Next]_vars PROVE IInv'
  OBVIOUS
<1>1. CASE Boot
  BY <1>1, TssInitPreserves, InitSchedulerPreserves, CreateTaskPreserves,
     EnableCreatedPreserves, PicEnablePreserves, LoadTaskRegisterPreserves,
     StartIdlePreserves DEF Boot
<1>2. CASE isr32
  <2>1. \/ /\ SameTask(next_selector')
           /\ cpu' = [cpu EXCEPT !.at = "fin", !.esp = HandlerStack]
           /\ UNCHANGED <<tss, gdt, tr>>
        \/ /\ ~SameTask(next_selector')
           /\ JumpFar(next_selector', "fin", HandlerStack)
    BY <1>2 DEF isr32
  <2> QED BY <1>2, <2>1, Isr32SameTask, Isr32Jump
<1>3. CASE isr32_fin
  BY <1>3, Isr32FinPreserves
<1>4. CASE \/ RaiseTimer \/ KeyEvent \/ isr33 \/ Exception \/ Stopped
           \/ \E in_bounds \in BOOLEAN : isr88(in_bounds)
           \/ UNCHANGED vars
  BY <1>4, QuietStepsPreserve
<1> QED BY <1>1, <1>2, <1>3, <1>4 DEF Next

(* The layout the boot builds, the busy bits, the stacks and the contexts   *)
(* stay sound in every reachable state (kernel.asm, isr.asm, tasks.c).      *)
THEOREM KernelInvHolds == Spec => []IInv
<1> QED BY KernelInvInit, KernelInvNext, PTL DEF Spec

(* Every variable of the kernel keeps its type.                             *)
THEOREM KernelTypeCorrect == Spec => []TypeOK
<1>1. IInv => TypeOK
  BY DEF IInv
<1> QED BY <1>1, KernelInvHolds, PTL

(* A task resumes with its own registers, address space and kernel stack:   *)
(* no handler of another task overwrites its frame (tss.c, line 72).        *)
THEOREM ContextIntegrityHolds == Spec => []ContextIntegrity
<1>1. IInv => ContextIntegrity
  BY DEF IInv
<1> QED BY <1>1, KernelInvHolds, PTL

(* The far jumps of kernel.asm and isr.asm never fault.                     *)
THEOREM NoBadJumpHolds == Spec => []NoBadJump
<1>1. IInv => NoBadJump
  BY DEF IInv, Registers, NoBadJump
<1> QED BY <1>1, KernelInvHolds, PTL

(* Exactly the descriptor in the task register is busy.                     *)
THEOREM OneBusyHolds == Spec => []OneBusy
<1>1. IInv => OneBusy
  BY DEF IInv, Registers
<1> QED BY <1>1, KernelInvHolds, PTL

(* The system call and the screen act for the task that runs: current_task  *)
(* of sched.c and the task register agree (tasks.c, line 89).               *)
THEOREM CurrentTaskRunsHolds == Spec => []CurrentTaskRuns
<1>1. IInv => CurrentTaskRuns
  BY DEF IInv
<1> QED BY <1>1, KernelInvHolds, PTL

(* The selector of a runnable slot always leads to that slot's own TSS      *)
(* (tasks.c, lines 41-54).                                                  *)
THEOREM SelectorsResolveHolds == Spec => []SelectorsResolve
<1>1. ASSUME IInv PROVE SelectorsResolve
  <2>1. PICK n \in 0 .. MAX_TASKS : LayoutOf(n)
    BY <1>1 DEF IInv, Layout
  <2>2. ASSUME NEW i \in Slots, Runnable(i)
        PROVE  i \in 0 .. n - 1
    BY <2>1, <2>2, MaxTasksAssumption DEF LayoutOf, Runnable, Slots
  <2>3. ASSUME NEW i \in 0 .. n - 1
        PROVE  /\ Index(sched_tasks[i].selector) = GDT_TSS_START + i
               /\ gdt[GDT_TSS_START + i].p /\ gdt[GDT_TSS_START + i].base = i
    BY <2>1, IndexOfSelector DEF LayoutOf, GDT_TSS_START
  <2> QED BY <2>2, <2>3 DEF SelectorsResolve
<1> QED BY <1>1, KernelInvHolds, PTL

(* Each window is only ever drawn in by its own task: the slot the system   *)
(* call draws for is current_task, and the program that made the call is    *)
(* the one in the task register (tasks.c, lines 80-118).                    *)
THEOREM WindowsOwnedHolds == Spec => []WindowsOwned
<1>1. Init => WindowsOwned
  BY DEF Init, WindowsOwned
<1>2. ASSUME IInv, WindowsOwned, [Next]_vars PROVE WindowsOwned'
  <2>1. CASE UNCHANGED window
    BY <1>2, <2>1 DEF WindowsOwned
  <2>2. ASSUME NEW in_bounds \in BOOLEAN, isr88(in_bounds) PROVE WindowsOwned'
    <3>1. InterruptsOn /\ Current \in Slots
      BY <2>2 DEF isr88
    <3>2. cpu.ctx = current_task /\ window \in [Slots -> Owners \cup {NOBODY}]
      BY <1>2, <3>1 DEF IInv, ContextIntegrity, CurrentTaskRuns, InterruptsOn, Up,
                        TypeOK, DeviceTypeOK
    <3>3. \/ window' = window
          \/ window' = [window EXCEPT ![current_task] = current_task]
      BY <2>2, <3>2 DEF isr88
    <3> QED BY <1>2, <3>2, <3>3 DEF WindowsOwned
  <2>3. CASE \A in_bounds \in BOOLEAN : ~isr88(in_bounds)
    BY <1>2, <2>1, <2>3
       DEF Next, Boot, tss_init, InitScheduler, create_task, EnableCreated, pic_enable,
           LoadTaskRegister, StartIdle, RaiseTimer, KeyEvent, isr32, isr32_fin, isr33,
           Exception, Stopped, vars, kernel_vars
  <2> QED BY <2>2, <2>3
<1> QED BY <1>1, <1>2, KernelInvHolds, PTL DEF Spec

(* Announced, and nothing in the way: a handler that has sent its end of    *)
(* interrupt has left none in service.                                      *)
PicInv == in_service = {} /\ (kbd_full => "kbd" \in irr)

(* Each step leaves the interrupt controller free.                          *)
LEMMA PicInvNext == PicInv /\ [Next]_vars => PicInv'
<1> SUFFICES ASSUME PicInv, [Next]_vars PROVE PicInv'
  OBVIOUS
<1>1. CASE UNCHANGED <<kbd_full, irr, in_service>>
  BY <1>1 DEF PicInv
<1>2. CASE RaiseTimer \/ KeyEvent
  BY <1>2 DEF RaiseTimer, KeyEvent, PicInv
<1>3. CASE isr32 \/ isr33
  BY <1>3 DEF isr32, isr33, Acknowledge, pic_finish1, PortRead, PicInv
<1>4. CASE \/ Boot \/ isr32_fin \/ Exception \/ Stopped \/ UNCHANGED vars
           \/ \E in_bounds \in BOOLEAN : isr88(in_bounds)
  BY <1>1, <1>4
     DEF Boot, tss_init, InitScheduler, create_task, EnableCreated, pic_enable,
         LoadTaskRegister, StartIdle, isr32_fin, isr88, Exception, Stopped, vars,
         kernel_vars
<1> QED BY <1>2, <1>3, <1>4 DEF Next

(* A scancode that the keyboard controller holds is always announced, and   *)
(* only a pending tick or a handler keeps it from being taken: no           *)
(* acknowledged interrupt leaves it unread, and none is left in service     *)
(* (isr.asm, lines 218-229).                                                *)
THEOREM ScancodeAnnouncedHolds == Spec => []ScancodeAnnounced
<1>1. Init => PicInv
  BY DEF Init, PicInv
<1>2. PicInv => ScancodeAnnounced
  BY DEF PicInv, ScancodeAnnounced, Raised
<1> QED BY <1>1, <1>2, PicInvNext, PTL DEF Spec

-----------------------------------------------------------------------------
(* The tick and the shared page *)

(* Once it has lost the processor the idle task is suspended in the handler *)
(* and will resume there.                                                   *)
IdleSuspended == Up /\ Current # TASK_IDLE => tss[TASK_IDLE].at = "fin"

Pending == IF Up /\ cpu.at = "fin" THEN 1 ELSE 0

(* A jump of the clock handler suspends the running task in the handler,    *)
(* and the other one goes on where its TSS says.                            *)
LEMMA TaskSwitch ==
    ASSUME IInv, isr32, ~SameTask(next_selector'),
           JumpFar(next_selector', "fin", HandlerStack)
    PROVE  /\ Current' \in Slots \cup {TASK_IDLE} /\ Current' # Current
           /\ \A i \in Slots \cup {TASK_IDLE} :
                 tss'[i].at = IF i = Current THEN "fin" ELSE tss[i].at
           /\ cpu'.at = tss[Current'].at
<1>1. PICK n \in 0 .. MAX_TASKS : LayoutOf(n)
  BY DEF IInv, Layout
<1>2. PICK g \in GdtIndices :
          /\ next_selector' = Selector(g) /\ gdt[g].p
          /\ g # GDT_IDX_TASK_INITIAL
          /\ \/ g = GDT_IDX_TASK_IDLE /\ gdt[g].base = TASK_IDLE
             \/ /\ gdt[g].base \in 0 .. n - 1
                /\ g = GDT_TSS_START + gdt[g].base
                /\ gdt[g].base = current_task'
  BY <1>1, Isr32Common, DispatchTarget DEF isr32
<1>3. /\ Index(tr) \in GdtIndices /\ Current \in Slots \cup {TASK_IDLE}
      /\ \/ Current = TASK_IDLE /\ tr = Selector(GDT_IDX_TASK_IDLE)
         \/ Current \in 0 .. n - 1 /\ tr = Selector(GDT_TSS_START + Current)
  BY <1>1, Isr32Common, CurrentIsDispatchable, CurrentTypes
<1>4. Index(next_selector') = g /\ tr # Selector(g)
  BY <1>2, FixedEntries DEF SameTask
<1>5. gdt[g].base # Current
  BY <1>2, <1>3, <1>4, OwnersDistinct, MaxTasksAssumption DEF Slots
<1>6. ~gdt[g].busy
  BY <1>4 DEF IInv, Registers, OneBusy
<1>7. /\ tss' = [tss EXCEPT ![Current].at = "fin", ![Current].esp = HandlerStack]
      /\ gdt' = [gdt EXCEPT ![Index(tr)].busy = FALSE, ![g].busy = TRUE]
      /\ tr' = Selector(g)
      /\ cpu'.at = tss[gdt[g].base].at
  BY <1>2, <1>4, <1>6 DEF JumpFar
<1>8. Current' = gdt[g].base
  <2>1. gdt'[g].base = gdt[g].base
    BY <1>3, <1>7 DEF IInv, TypeOK, ProcessorTypeOK, Descriptors
  <2>2. Index(tr') = g
    BY <1>4, <1>7, FixedEntries
  <2> QED BY <2>1, <2>2 DEF Current
<1>9. gdt[g].base \in Slots \cup {TASK_IDLE}
  BY <1>2, MaxTasksAssumption DEF Slots
<1>10. ASSUME NEW i \in Slots \cup {TASK_IDLE}
       PROVE  tss'[i].at = IF i = Current THEN "fin" ELSE tss[i].at
  BY <1>3, <1>7 DEF IInv, TypeOK, ProcessorTypeOK, TssStates, Owners
<1> QED BY <1>5, <1>7, <1>8, <1>9, <1>10

(* Whatever the clock handler does up to its jump or to .fin, the tasks     *)
(* that have started are those that had, and the one it dispatches.         *)
LEMMA Isr32Started ==
    ASSUME IInv, IdleSuspended, isr32
    PROVE  /\ IdleSuspended'
           /\ \/ Started' = Started /\ Pending' = 1
              \/ /\ Current' \in Slots /\ Current' \notin Started
                 /\ Started' = Started \cup {Current'} /\ Pending' = 0
                 /\ tss'[Current'].at = "code"
<1>0. Up /\ Up' /\ cpu.at = "code" /\ Current \in Slots \cup {TASK_IDLE}
      /\ TASK_IDLE \notin Slots
  BY Isr32Common, CurrentTypes, OwnersDistinct
<1>1. CASE SameTask(next_selector')
  <2>1. cpu'.at = "fin" /\ UNCHANGED <<tss, gdt, tr>>
    BY <1>1 DEF isr32, IInv, TypeOK, ProcessorTypeOK
  <2>2. Current' = Current
    BY <2>1 DEF Current
  <2> QED BY <1>0, <2>1, <2>2 DEF IdleSuspended, Started, Pending
<1>2. CASE ~SameTask(next_selector')
  <2>1. JumpFar(next_selector', "fin", HandlerStack)
    BY <1>2 DEF isr32
  <2> DEFINE c == Current'
  <2>2. /\ c \in Slots \cup {TASK_IDLE} /\ c # Current
        /\ \A i \in Slots \cup {TASK_IDLE} :
              tss'[i].at = IF i = Current THEN "fin" ELSE tss[i].at
        /\ cpu'.at = tss[c].at
    BY <1>2, <2>1, TaskSwitch
  <2>3. tss[c].at \in {"code", "fin"} /\ tss'[c].at = tss[c].at
    BY <2>2 DEF IInv, Stacks
  <2>4. IdleSuspended'
    BY <1>0, <2>2 DEF IdleSuspended
  <2>5. \A i \in Slots : i \in Started' <=> i \in Started \/ i = c
    BY <1>0, <2>2 DEF Started
  <2>6. CASE tss[c].at = "fin"
    <3>1. c \in Slots => c \in Started
      BY <2>6 DEF Started
    <3>2. Started' = Started
      BY <2>5, <3>1 DEF Started
    <3> QED BY <1>0, <2>2, <2>4, <2>6, <3>2 DEF Pending
  <2>7. CASE tss[c].at = "code"
    <3>1. c # TASK_IDLE
      BY <1>0, <2>2, <2>7 DEF IdleSuspended
    <3>2. c \in Slots /\ c \notin Started
      BY <2>2, <2>7, <3>1 DEF Started
    <3>3. Started' = Started \cup {c}
      BY <2>5, <3>2 DEF Started
    <3> QED BY <1>0, <2>2, <2>3, <2>4, <2>7, <3>2, <3>3 DEF Pending
  <2> QED BY <2>3, <2>6, <2>7
<1> QED BY <1>1, <1>2

(* No more tasks start than there are slots.                                *)
LEMMA StartedFinite == IsFiniteSet(Started) /\ Cardinality(Started) \in Nat
<1>1. IsFiniteSet(Slots)
  BY MaxTasksAssumption, FS_Interval DEF Slots
<1>2. Started \in SUBSET Slots
  BY DEF Started
<1> QED BY <1>1, <1>2, FS_Subset, FS_CardinalityType

(* The invariant of the clock: what is counted, and what a resumed task     *)
(* reads.                                                                   *)
ClockInv == IInv /\ IdleSuspended /\ TickAccounting /\ SharedTaskIdFresh

(* Before the jump to the idle task nothing has started.                    *)
LEMMA ClockInvInit == Init => ClockInv
<1> SUFFICES ASSUME Init PROVE ClockInv
  OBVIOUS
<1>1. IInv /\ ~Up
  BY KernelInvInit DEF Init, Up
<1>2. Started = {}
  BY <1>1 DEF Started, IInv, Registers, Owners
<1>3. TickAccounting
  <2>1. env.tick_count \in Int /\ env.tick_count = boot_tick /\ isrNumber = 0
    BY DEF Init
  <2> QED BY <1>1, <1>2, <2>1, FS_EmptySet DEF TickAccounting
<1> QED BY <1>1, <1>3 DEF ClockInv, IdleSuspended, SharedTaskIdFresh

(* A step that leaves the tasks, the processor and the page alone.          *)
LEMMA ClockQuiet ==
    ASSUME ClockInv,
           UNCHANGED <<stage, gdt, tr, cpu, isrNumber, env, boot_tick, highlight>>,
           \A i \in Slots \cup {TASK_IDLE} : tss'[i].at = tss[i].at
    PROVE  (IdleSuspended /\ TickAccounting /\ SharedTaskIdFresh)'
<1>1. Current' = Current /\ Up' = Up
  BY DEF Current, Up
<1>2. Started' = Started
  BY <1>1 DEF Started
<1>3. IdleSuspended' /\ TickAccounting'
  BY <1>1, <1>2 DEF ClockInv, IdleSuspended, TickAccounting
<1>4. SharedTaskIdFresh'
  BY <1>1 DEF ClockInv, SharedTaskIdFresh
<1> QED BY <1>3, <1>4

(* While it boots the kernel counts no tick and runs no task; the jump to   *)
(* the idle task, which is no slot, starts none.                            *)
LEMMA ClockBoot ==
    ASSUME ClockInv, Boot
    PROVE  (IdleSuspended /\ TickAccounting /\ SharedTaskIdFresh)'
<1>1. IInv /\ IInv' /\ ~Up /\ UNCHANGED <<isrNumber, env, boot_tick>>
  <2>1. IInv /\ IInv'
    BY KernelInvNext DEF ClockInv, Next
  <2>2. ~Up
    BY DEF Boot, tss_init, InitScheduler, create_task, EnableCreated, pic_enable,
           LoadTaskRegister, StartIdle, Booting, Up
  <2>3. UNCHANGED <<isrNumber, env, boot_tick>>
    BY DEF Boot, tss_init, InitScheduler, create_task, EnableCreated, pic_enable,
           LoadTaskRegister, StartIdle
  <2> QED BY <2>1, <2>2, <2>3
<1>2. Started = {}
  BY <1>1 DEF Started, Registers, IInv, Owners
<1>3. CASE ~Up'
  <2>1. Started' = {}
    BY <1>1, <1>3 DEF Started, Registers, IInv, Owners
  <2> QED BY <1>1, <1>2, <1>3, <2>1
          DEF ClockInv, TickAccounting, IdleSuspended, SharedTaskIdFresh
<1>4. CASE Up'
  <2>1. StartIdle
    BY <1>1, <1>4 DEF Boot, tss_init, InitScheduler, create_task, EnableCreated, pic_enable,
                      LoadTaskRegister, Booting, Up
  <2>2. Current' = TASK_IDLE
    BY <1>1, <2>1, StartIdleRunsIdle
  <2>3. cpu'.at = "code" /\ \A i \in Slots : tss'[i].at = tss[i].at
    BY <1>1, <2>1, StartIdleRunsIdle, NothingRunsAtBoot
  <2>4. Started' = {}
    BY <1>1, <1>4, <2>2, <2>3, NothingRunsAtBoot, OwnersDistinct DEF Started
  <2> QED BY <1>1, <1>2, <2>2, <2>3, <2>4, OwnersDistinct
          DEF ClockInv, TickAccounting, IdleSuspended, SharedTaskIdFresh
<1> QED BY <1>3, <1>4

(* The clock handler up to its jump: the spinner turns, and either the tick *)
(* is pending or a task has started.                                        *)
LEMMA ClockIsr32 ==
    ASSUME ClockInv, isr32
    PROVE  (IdleSuspended /\ TickAccounting /\ SharedTaskIdFresh)'
<1>1. /\ IInv /\ IdleSuspended /\ IInv'
      /\ Up /\ Up' /\ cpu.at = "code" /\ UNCHANGED <<boot_tick, env>>
  BY KernelInvNext, Isr32Common DEF ClockInv, Next, isr32, boot_vars
<1>2. /\ IdleSuspended'
      /\ \/ Started' = Started /\ Pending' = 1
         \/ /\ Current' \in Slots /\ Current' \notin Started
            /\ Started' = Started \cup {Current'} /\ Pending' = 0
            /\ tss'[Current'].at = "code"
  BY <1>1, Isr32Started
<1>3. Pending' + Cardinality(Started') = Cardinality(Started) + 1
  BY <1>2, StartedFinite, FS_AddElement
<1>4. /\ env.tick_count \in Int /\ boot_tick \in Int
      /\ isrNumber \in 0 .. 3
      /\ isrNumber' = IF isrNumber + 1 < 4 THEN isrNumber + 1 ELSE 0
  BY <1>1 DEF IInv, TypeOK, DeviceTypeOK, BootTypeOK, isr32, next_clock
<1>5. (env.tick_count + Cardinality(Started)) % 4 = (boot_tick + isrNumber) % 4
  BY <1>1, <1>4, StartedFinite DEF ClockInv, TickAccounting
<1>6. Pending' \in Int /\ Cardinality(Started') \in Nat
  BY <1>2, StartedFinite, FS_AddElement
<1>7. (env.tick_count + Pending' + Cardinality(Started')) % 4 = (boot_tick + isrNumber') % 4
  <2> DEFINE k == Cardinality(Started)
             l == Cardinality(Started')
             q == Pending'
  <2>1. k \in Int /\ l \in Int /\ q \in Int /\ q + l = k + 1
    BY <1>3, <1>6, StartedFinite
  <2>2. (env.tick_count + k) % 4 = (boot_tick + isrNumber) % 4
    BY <1>5
  <2> HIDE DEF k, l, q
  <2>3. (env.tick_count + q + l) % 4 = (boot_tick + isrNumber') % 4
    BY <1>4, <2>1, <2>2
  <2> QED BY <2>3 DEF k, l, q
<1>8. TickAccounting'
  BY <1>1, <1>7 DEF TickAccounting, Pending
<1>9. SharedTaskIdFresh'
  <2>1. CASE Pending' = 1
    BY <2>1 DEF Pending, SharedTaskIdFresh
  <2>2. CASE Pending' # 1
    BY <1>2, <2>2 DEF SharedTaskIdFresh
  <2> QED BY <2>1, <2>2
<1> QED BY <1>2, <1>8, <1>9

(* The end of the handler: the pending tick is counted, and the page and    *)
(* the screen learn who runs.                                               *)
LEMMA ClockFin ==
    ASSUME ClockInv, isr32_fin
    PROVE  (IdleSuspended /\ TickAccounting /\ SharedTaskIdFresh)'
<1>1. /\ IInv /\ Up /\ Up' /\ cpu.at = "fin" /\ cpu'.at = "code"
      /\ UNCHANGED <<tss, gdt, tr, boot_tick, isrNumber, current_task>>
  BY DEF ClockInv, isr32_fin, Up, boot_vars, sched_vars, IInv, TypeOK, ProcessorTypeOK
<1>2. Current' = Current /\ Started' = Started
  BY <1>1 DEF Current, Started
<1>3. IdleSuspended'
  BY <1>1, <1>2 DEF ClockInv, IdleSuspended
<1>4. SharedTaskIdFresh'
  BY <1>1, <1>2
     DEF SharedTaskIdFresh, IInv, CurrentTaskRuns, isr32_fin, tasks_tick, tasks_screen_update
<1>5. TickAccounting'
  <2> DEFINE k == Cardinality(Started)
             t == env.tick_count
  <2>1. k \in Nat /\ t \in 0 .. WORD - 1 /\ boot_tick \in Int /\ isrNumber \in Int
        /\ WORD \in Nat \ {0} /\ WORD % 4 = 0
    BY <1>1, StartedFinite, WordAssumption DEF IInv, TypeOK, DeviceTypeOK, BootTypeOK
  <2>2. (t + 1 + k) % 4 = (boot_tick + isrNumber) % 4
    BY <1>1 DEF ClockInv, TickAccounting
  <2>3. env'.tick_count = (t + 1) % WORD
    BY DEF isr32_fin, tasks_tick
  <2>4. (env'.tick_count + 0 + k) % 4 = (boot_tick + isrNumber) % 4
    <3> HIDE DEF t, k
    <3>1. CASE t + 1 < WORD
      <4>1. env'.tick_count = t + 1
        BY <2>1, <2>3, <3>1
      <4> QED BY <2>1, <2>2, <4>1
    <3>2. CASE t + 1 = WORD
      <4>1. env'.tick_count = 0
        BY <2>1, <2>3, <3>2
      <4> QED BY <2>1, <2>2, <3>2, <4>1
    <3> QED BY <2>1, <3>1, <3>2
  <2> QED BY <1>1, <1>2, <2>4 DEF TickAccounting
<1> QED BY <1>3, <1>4, <1>5

(* The invariant of the clock is inductive.                                 *)
LEMMA ClockInvNext == ClockInv /\ [Next]_vars => ClockInv'
<1> SUFFICES ASSUME ClockInv, [Next]_vars PROVE ClockInv'
  OBVIOUS
<1>1. IInv'
  BY KernelInvNext DEF ClockInv
<1>2. CASE \/ RaiseTimer \/ KeyEvent \/ isr33 \/ Exception \/ Stopped
           \/ \E in_bounds \in BOOLEAN : isr88(in_bounds)
           \/ UNCHANGED vars
  BY <1>1, <1>2, ClockQuiet
     DEF ClockInv, RaiseTimer, KeyEvent, isr33, Exception, Stopped, isr88, vars, kernel_vars,
         boot_vars
<1> QED BY <1>1, <1>2, ClockBoot, ClockIsr32, ClockFin DEF ClockInv, Next

(* The spinner and tick_count agree modulo four, but for the first dispatch *)
(* of each task, which is not counted (isr.asm, lines 199-208).             *)
THEOREM TickAccountingHolds == Spec => []TickAccounting
<1>1. ClockInv => TickAccounting
  BY DEF ClockInv
<1> QED BY <1>1, ClockInvInit, ClockInvNext, PTL DEF Spec

(* A task that has been resumed by the clock sees its own number in the     *)
(* shared page, and its window is the one labelled as running.              *)
THEOREM SharedTaskIdFreshHolds == Spec => []SharedTaskIdFresh
<1>1. ClockInv => SharedTaskIdFresh
  BY DEF ClockInv
<1> QED BY <1>1, ClockInvInit, ClockInvNext, PTL DEF Spec


-----------------------------------------------------------------------------
(* Round robin of the whole kernel *)

(* Before the scheduler is set up no slot is runnable. *)
LEMMA NothingRunnableYet ==
    ASSUME IInv, stage = "sched_init"
    PROVE  \A i \in Slots : ~Runnable(i)
<1>1. PICK n \in 0 .. MAX_TASKS : LayoutOf(n)
  BY DEF IInv, Layout
<1>2. n = 0
  BY <1>1 DEF LayoutOf
<1>3. \A i \in Slots : sched_tasks[i].state = "TASK_SLOT_FREE"
  BY <1>1, <1>2 DEF LayoutOf, Slots
<1> QED BY <1>3 DEF Runnable

(* The steps that call a function of sched.c. *)
TableSteps == InitScheduler \/ create_task \/ EnableCreated \/ isr32

(* The others do not touch the table of the scheduler. *)
LEMMA OtherStepsKeepTable ==
    ASSUME [Next]_vars, ~TableSteps
    PROVE  UNCHANGED <<sched_tasks, current_task, next_selector>>
BY DEF Next, Boot, TableSteps, tss_init, pic_enable, LoadTaskRegister, StartIdle,
       RaiseTimer, KeyEvent, isr32_fin, isr33, isr88, Exception, Stopped, vars, sched_vars

(* Every step of the kernel is a step of the queue or leaves it alone.      *)
LEMMA KernelTurnsQueue ==
    IInv /\ [Next]_vars => [RR!Next]_<<VisitOrder, RunnableSlots>>
<1> SUFFICES ASSUME IInv, [Next]_vars
             PROVE  RR!Next \/ UNCHANGED <<VisitOrder, RunnableSlots>>
  OBVIOUS
<1>1. sched_tasks \in [Slots -> SchedEntries] /\ current_task \in Slots /\ task_id \in Slots
  BY DEF IInv, TypeOK, SchedTypeOK, BootTypeOK
<1>2. CASE InitScheduler
  <2>1. \A i \in Slots : ~Runnable(i)
    BY <1>2, NothingRunnableYet DEF InitScheduler, Booting
  <2>2. \A i \in Slots : ~Runnable(i)'
    BY <1>1, <1>2 DEF InitScheduler, sched_init, Runnable, SchedEntries
  <2>3. current_task' = current_task
    BY <1>2 DEF InitScheduler, sched_init
  <2> QED BY <2>1, <2>2, <2>3 DEF VisitOrder, SlotAfter, RunnableSlots
<1>3. CASE create_task
  <2>1. CASE UNCHANGED <<sched_tasks, current_task>>
    BY <2>1 DEF VisitOrder, SlotAfter, RunnableSlots, Runnable
  <2>2. CASE sched_add_task(Selector(FirstDescriptor))
    BY <1>1, <2>2, AddKeepsQueue
  <2> QED BY <1>3, <2>1, <2>2 DEF create_task
<1>4. CASE EnableCreated
  BY <1>1, <1>4, EnableReadies DEF EnableCreated, RR!Next
<1>5. CASE isr32
  BY <1>1, <1>5, DispatchTurnsQueue DEF isr32, RR!Next
<1>6. CASE ~TableSteps
  BY <1>6, OtherStepsKeepTable DEF VisitOrder, SlotAfter, RunnableSlots, Runnable
<1> QED BY <1>2, <1>3, <1>4, <1>5, <1>6 DEF TableSteps

(* Through boot, clock interrupts, system calls and stops the kernel keeps  *)
(* the round robin of the comment on sched_next_task (sched.c, lines        *)
(* 94-99): its boot readies tasks in the queue, only the clock handler      *)
(* turns it, and no handler skips a ready task.                             *)
THEOREM KernelRoundRobin == Spec => ImplementsRoundRobin
<1>1. Init => RR!Init
  BY VisitOrderInit DEF Init
<1> QED BY <1>1, KernelTurnsQueue, KernelInvHolds, PTL
        DEF Spec, RR!Spec, ImplementsRoundRobin

-----------------------------------------------------------------------------
(* The processor follows the scheduler *)

(* Until the jump to the idle task nothing has been chosen but that task.   *)
ObeyInv == SchedulerObeyed /\ (~Up => next_selector = IdleSelector)

(* A clock interrupt leaves the task register at the selector just chosen.  *)
LEMMA Isr32Obeys ==
    ASSUME IInv, isr32
    PROVE  tr' = next_selector'
<1>1. CASE SameTask(next_selector') /\ UNCHANGED tr
  BY <1>1 DEF SameTask
<1>2. CASE ~SameTask(next_selector') /\ JumpFar(next_selector', "fin", HandlerStack)
  <2>1. PICK n \in 0 .. MAX_TASKS : LayoutOf(n)
    BY DEF IInv, Layout
  <2>2. PICK g \in GdtIndices : next_selector' = Selector(g) /\ gdt[g].p
    BY <2>1, Isr32Common, DispatchTarget DEF isr32
  <2>3. Index(next_selector') = g /\ tr # Selector(g)
    BY <1>2, <2>2, FixedEntries DEF SameTask
  <2>4. ~gdt[g].busy
    BY <2>3 DEF IInv, Registers, OneBusy
  <2> QED BY <1>2, <2>2, <2>3, <2>4 DEF JumpFar
<1> QED BY <1>1, <1>2 DEF isr32

(* Each step keeps the task register at the choice of the scheduler.        *)
LEMMA ObeyInvNext == IInv /\ ObeyInv /\ [Next]_vars => ObeyInv'
<1> SUFFICES ASSUME IInv, ObeyInv, [Next]_vars PROVE ObeyInv'
  OBVIOUS
<1> USE DEF ObeyInv, SchedulerObeyed, Up
<1>1. CASE isr32
  BY <1>1, Isr32Obeys, Isr32Common
<1>2. CASE StartIdle
  <2>1. tr' = IdleSelector
    BY <1>2, StartIdleRunsIdle
  <2> QED BY <1>2, <2>1 DEF StartIdle, Booting, sched_vars
<1>3. CASE tss_init \/ InitScheduler \/ create_task \/ EnableCreated \/ pic_enable
             \/ LoadTaskRegister
  <2>1. ~Up' /\ ~Up
    BY <1>3 DEF tss_init, InitScheduler, create_task, EnableCreated, pic_enable,
                LoadTaskRegister, Booting
  <2>2. next_selector' = next_selector
    BY <1>3 DEF tss_init, InitScheduler, create_task, EnableCreated, pic_enable,
                LoadTaskRegister, sched_vars, sched_init, sched_add_task,
                sched_enable_task
  <2> QED BY <2>1, <2>2
<1>4. CASE \/ RaiseTimer \/ KeyEvent \/ isr32_fin \/ isr33 \/ Exception \/ Stopped
           \/ (\E in_bounds \in BOOLEAN : isr88(in_bounds)) \/ UNCHANGED vars
  BY <1>4 DEF RaiseTimer, KeyEvent, isr32_fin, isr33, isr88, Exception, Stopped, vars,
              boot_vars, kernel_vars, sched_vars
<1> QED BY <1>1, <1>2, <1>3, <1>4 DEF Next, Boot

(* The task that runs is the one round robin chose: together with           *)
(* KernelRoundRobin, the processor itself goes round the enabled tasks      *)
(* (isr.asm, lines 193-203).                                                *)
THEOREM SchedulerObeyedHolds == Spec => []SchedulerObeyed
<1>1. Init => ObeyInv
  BY DEF Init, SchedInit, ObeyInv, SchedulerObeyed, Up
<1>2. ObeyInv => SchedulerObeyed
  BY DEF ObeyInv
<1> QED BY <1>1, <1>2, ObeyInvNext, KernelInvHolds, PTL DEF Spec
=============================================================================
