------------------------------- MODULE Kernel -------------------------------
(***************************************************************************)
(* The running kernel: how it boots (kernel.asm), creates its tasks        *)
(* (tasks.c, tss.c), and takes the clock, the keyboard and the system      *)
(* calls (isr.asm) on the scheduler of Sched.tla.  The processor and the   *)
(* interrupt controller are modelled as the code uses them: the descriptor *)
(* table with its busy bits, the task register, the hardware task switch   *)
(* of "jmp far", and the request and in-service bits of the PIC.           *)
(*                                                                         *)
(* Every gate of the IDT is an interrupt gate (idt.h, line 15), so a       *)
(* handler runs with interrupts off and is one step.  The exception is the *)
(* clock handler: the task switch in its middle suspends it, and the rest  *)
(* of it (label .fin) is a step of its own that runs when the task comes   *)
(* back.                                                                   *)
(*                                                                         *)
(* The registers of a program are one token, its owner: a slot, TASK_IDLE  *)
(* or TASK_INITIAL.  A page of the kernel's pool is its number; page 0     *)
(* stands for the boot stack that ends at KERNEL_STACK.                    *)
(***************************************************************************)
EXTENDS Sched, FiniteSets

CONSTANTS
    GDT_COUNT,    \* entries of the GDT, defines.h
    WORD,         \* values of a uint32_t; a multiple of four, like 2^32
    BootCounts,   \* how many tasks tasks_init may create
    BootMemory    \* what the words of the shared page may hold at boot

GDT_IDX_TASK_INITIAL == 11
GDT_IDX_TASK_IDLE == 12
GDT_TSS_START == 13

Selector(g) == 8 * g
Index(selector) == selector \div 8

ASSUME GdtAssumption == GDT_COUNT \in Nat /\ GDT_COUNT > GDT_TSS_START

ASSUME KernelSelectorsAssumption ==
    /\ Selectors = {Selector(g) : g \in GDT_TSS_START .. GDT_COUNT - 1}
    /\ NullSelector = 0
    /\ IdleSelector = Selector(GDT_IDX_TASK_IDLE)

ASSUME WordAssumption == WORD \in Nat \ {0} /\ WORD % 4 = 0

ASSUME BootAssumption == BootCounts \subseteq Nat /\ BootMemory \subseteq Int

VARIABLES
    stage,      \* where start in kernel.asm is; "up" once idle has been started
    to_create,  \* calls of create_task still to come in tasks_init
    task_id,    \* local of tasks_init: what the last create_task returned
    gdt,        \* TSS descriptors: present, busy, whose TSS
    tss,        \* saved state of each task
    next_page,  \* next_free_kernel_page, in pages
    tr,         \* the task register
    cpu,        \* whose registers are loaded, cr3, kernel stack, position
    kstack,     \* whose registers are in the frame at the top of each page
    irr,        \* interrupt requests latched by the PIC
    in_service, \* interrupts the PIC takes to be in service
    kbd_full,   \* the keyboard controller holds a scancode
    isrNumber,  \* the spinner next_clock draws
    env,        \* tick_count and task_id of the shared page
    boot_tick,  \* history: tick_count at boot
    highlight,  \* the window labelled "Corriendo" by tasks_screen_update
    window      \* who drew in each window last

kernel_vars == <<stage, to_create, task_id, gdt, tss, next_page, tr, cpu, kstack,
                 irr, in_service, kbd_full, isrNumber, env, boot_tick, highlight,
                 window>>
vars == <<sched_vars, kernel_vars>>

boot_vars == <<stage, to_create, task_id, next_page, boot_tick>>

TASK_IDLE == -1
TASK_INITIAL == -2
NOBODY == -3

Owners == Slots \cup {TASK_IDLE, TASK_INITIAL}

KERNEL_STACK == 0
PAGES_PER_TASK == 4
Pages == 0 .. PAGES_PER_TASK * MAX_TASKS

IRQs == {"timer", "kbd"}

GdtIndices == GDT_IDX_TASK_INITIAL .. GDT_COUNT - 1

NoDescriptor == [p |-> FALSE, busy |-> FALSE, base |-> NOBODY]

-----------------------------------------------------------------------------
(* tss.c *)

(* A descriptor is created present and available, not busy. *)
tss_gdt_entry_for_task(base) == [p |-> TRUE, busy |-> FALSE, base |-> base]

(* Mutant: every task gets the boot stack as its stack of level 0. *)
tss_create_user_task_shared_stack ==
    [cr3 |-> next_page, esp0 |-> KERNEL_STACK, at |-> "code", esp |-> KERNEL_STACK]

(* Page directory, its tables for the kernel and for the code, and the page *)
(* of the kernel stack are asked for in this order.                         *)
tss_create_user_task ==
    [cr3 |-> next_page, esp0 |-> next_page + PAGES_PER_TASK - 1,
     at |-> "code", esp |-> next_page + PAGES_PER_TASK - 1]

tss_idle == [cr3 |-> 0, esp0 |-> KERNEL_STACK, at |-> "code", esp |-> KERNEL_STACK]

tss_initial == tss_idle

-----------------------------------------------------------------------------
(* Hardware *)

(* The task whose TSS the task register names. *)
Current == gdt[Index(tr)].base

(* Where the processor pushes the registers of the interrupted program: the *)
(* stack of level 0 of its TSS.  The idle task already runs in level 0 and  *)
(* stays on its own, the boot stack.                                        *)
HandlerStack == tss[Current].esp0

Pushed == [kstack EXCEPT ![HandlerStack] = cpu.ctx]

InterruptsOn == stage = "up" /\ ~halted /\ cpu.at = "code"

(* The far jump to a TSS descriptor.  It must be present and not busy; else *)
(* it is a general protection fault.  The registers of the outgoing task    *)
(* are saved (cr3 is not: the processor only ever loads it), its busy bit   *)
(* is cleared, and the incoming task resumes where its TSS says.            *)
JumpFar(selector, at, esp) ==
    LET g    == Index(selector)
        base == gdt[g].base
        new  == tss[base]
    IN  IF gdt[g].p /\ ~gdt[g].busy
          THEN /\ tss' = [tss EXCEPT ![Current].at = at, ![Current].esp = esp]
               /\ gdt' = [gdt EXCEPT ![Index(tr)].busy = FALSE, ![g].busy = TRUE]
               /\ tr' = selector
               /\ cpu' = [ctx |-> IF new.at = "code" THEN base ELSE cpu.ctx,
                          cr3 |-> new.cr3, esp |-> new.esp, at |-> new.at]
          ELSE /\ cpu' = [cpu EXCEPT !.at = "fault"]
               /\ UNCHANGED <<tss, gdt, tr>>

(* Mutant: no end of interrupt is sent. *)
pic_finish1_forgotten(in) == in

(* Mutant: only the clock is ever taken to be over. *)
pic_finish1_clock_only(in) == in \ {"timer"}

(* A non-specific end of interrupt: the one in service with the highest     *)
(* priority is over.                                                        *)
pic_finish1(in) == IF "timer" \in in THEN in \ {"timer"} ELSE in \ {"kbd"}

(* The PIC interrupts with the clock before the keyboard, and with neither  *)
(* while one of the same or of higher priority is in service.               *)
Raised(irq) ==
    /\ InterruptsOn
    /\ irq \in irr
    /\ IF irq = "timer" THEN "timer" \notin in_service
                        ELSE "timer" \notin irr /\ in_service = {}

(* The handler of irq has started and sent its end of interrupt. *)
Acknowledge(irq) == /\ irr' = irr \ {irq}
                    /\ in_service' = pic_finish1(in_service \cup {irq})

-----------------------------------------------------------------------------
(* Boot: kernel.asm, lines 163-224, with interrupts off *)

Init ==
    /\ SchedInit
    /\ stage = "tss_init"
    /\ to_create \in BootCounts
    /\ task_id = 0
    /\ gdt = [g \in GdtIndices |-> NoDescriptor]
    /\ tss = [i \in Owners |-> tss_idle]
    /\ next_page = 1
    /\ tr = NullSelector
    /\ cpu = [ctx |-> TASK_INITIAL, cr3 |-> 0, esp |-> KERNEL_STACK, at |-> "boot"]
    /\ kstack = [p \in Pages |-> NOBODY]
    /\ irr = {} /\ in_service = {} /\ kbd_full = FALSE
    /\ isrNumber = 0
    /\ env \in [tick_count : BootMemory, task_id : BootMemory]
    /\ env.tick_count \in 0 .. WORD - 1
    /\ boot_tick = env.tick_count
    /\ highlight = 0
    /\ window = [i \in Slots |-> NOBODY]

Booting(at) == stage = at /\ ~halted

tss_init ==
    /\ Booting("tss_init")
    /\ gdt' = [gdt EXCEPT ![GDT_IDX_TASK_IDLE] = tss_gdt_entry_for_task(TASK_IDLE),
                          ![GDT_IDX_TASK_INITIAL] = tss_gdt_entry_for_task(TASK_INITIAL)]
    /\ stage' = "sched_init"
    /\ UNCHANGED <<sched_vars, to_create, task_id, tss, next_page, tr, cpu, kstack, irr,
                   in_service, kbd_full, isrNumber, env, boot_tick, highlight, window>>

InitScheduler ==
    /\ Booting("sched_init")
    /\ sched_init
    /\ stage' = IF to_create = 0 THEN "pic_enable" ELSE "create_task"
    /\ UNCHANGED <<to_create, task_id, gdt, tss, next_page, tr, cpu, kstack, irr,
                   in_service, kbd_full, isrNumber, env, boot_tick, highlight, window>>

FreeDescriptors == {g \in GDT_TSS_START .. GDT_COUNT - 1 : ~gdt[g].p}

FirstDescriptor == CHOOSE g \in FreeDescriptors : \A h \in FreeDescriptors : g <= h

(* A descriptor and a slot are looked for first: without them a kassert     *)
(* fails.  The TSS goes to the slot's place in tss_tasks, and its           *)
(* descriptor points there.                                                 *)
create_task ==
    /\ Booting("create_task")
    /\ \/ /\ FreeDescriptors # {}
          /\ FreeSlots # {}
          /\ sched_add_task(Selector(FirstDescriptor))
          /\ task_id' = FirstFree
          /\ tss' = [tss EXCEPT ![FirstFree] = tss_create_user_task]
          /\ next_page' = next_page + PAGES_PER_TASK
          /\ gdt' = [gdt EXCEPT ![FirstDescriptor] = tss_gdt_entry_for_task(FirstFree)]
          /\ stage' = "sched_enable_task"
       \/ /\ FreeDescriptors = {} \/ FreeSlots = {}
          /\ halted' = TRUE
          /\ UNCHANGED <<sched_tasks, current_task, next_selector, task_id, tss,
                         next_page, gdt, stage>>
    /\ UNCHANGED <<to_create, tr, cpu, kstack, irr, in_service, kbd_full, isrNumber,
                   env, boot_tick, highlight, window>>

EnableCreated ==
    /\ Booting("sched_enable_task")
    /\ sched_enable_task(task_id)
    /\ to_create' = to_create - 1
    /\ stage' = IF to_create' = 0 THEN "pic_enable" ELSE "create_task"
    /\ UNCHANGED <<task_id, gdt, tss, next_page, tr, cpu, kstack, irr,
                   in_service, kbd_full, isrNumber, env, boot_tick, highlight, window>>

(* The lines of the PIC are unmasked; interrupts stay off. *)
pic_enable ==
    /\ Booting("pic_enable")
    /\ stage' = "ltr"
    /\ UNCHANGED <<sched_vars, to_create, task_id, gdt, tss, next_page, tr, cpu, kstack,
                   irr, in_service, kbd_full, isrNumber, env, boot_tick, highlight,
                   window>>

(* The windows are drawn; the one of current_task is labelled as running. *)
tasks_screen_draw == highlight' = current_task

(* The screen, and ltr with the selector of the initial task. *)
LoadTaskRegister ==
    /\ Booting("ltr")
    /\ tasks_screen_draw
    /\ gdt' = [gdt EXCEPT ![GDT_IDX_TASK_INITIAL].busy = TRUE]
    /\ tr' = Selector(GDT_IDX_TASK_INITIAL)
    /\ stage' = "jmp_idle"
    /\ UNCHANGED <<sched_vars, to_create, task_id, tss, next_page, cpu, kstack, irr,
                   in_service, kbd_full, isrNumber, env, boot_tick, window>>

(* The jump to the idle task, whose eflags turn interrupts on.  Nothing     *)
(* ever jumps back to the initial task.                                     *)
StartIdle ==
    /\ Booting("jmp_idle")
    /\ JumpFar(IdleSelector, "boot", KERNEL_STACK)
    /\ stage' = "up"
    /\ UNCHANGED <<sched_vars, to_create, task_id, next_page, kstack, irr, in_service,
                   kbd_full, isrNumber, env, boot_tick, highlight, window>>

-----------------------------------------------------------------------------
(* Devices *)

Unmasked == stage \in {"ltr", "jmp_idle", "up"} /\ ~halted

RaiseTimer ==
    /\ Unmasked
    /\ irr' = irr \cup {"timer"}
    /\ UNCHANGED <<sched_vars, boot_vars, gdt, tss, tr, cpu, kstack, in_service, kbd_full,
                   isrNumber, env, highlight, window>>

(* The keyboard controller hands over the next scancode, and raises its     *)
(* line, only when the last one has been read.                              *)
KeyEvent ==
    /\ Unmasked
    /\ ~kbd_full
    /\ kbd_full' = TRUE
    /\ irr' = irr \cup {"kbd"}
    /\ UNCHANGED <<sched_vars, boot_vars, gdt, tss, tr, cpu, kstack, in_service,
                   isrNumber, env, highlight, window>>

-----------------------------------------------------------------------------
(* isr.asm *)

(* Mutant: the comparison of the spinner is off by one. *)
next_clock_five == isrNumber' = IF isrNumber + 1 <= 4 THEN isrNumber + 1 ELSE 0

next_clock == isrNumber' = IF isrNumber + 1 < 4 THEN isrNumber + 1 ELSE 0

(* Mutant: the handler jumps without looking at the task register. *)
NeverSameTask(selector) == FALSE

(* The task to run is the one that runs: no jump. *)
SameTask(selector) == selector = tr

(* _isr32 up to label .fin, or up to the jump that suspends it there. *)
isr32 ==
    /\ Raised("timer")
    /\ Acknowledge("timer")
    /\ next_clock
    /\ sched_next_task
    /\ kstack' = Pushed
    /\ \/ /\ SameTask(next_selector')
          /\ cpu' = [cpu EXCEPT !.at = "fin", !.esp = HandlerStack]
          /\ UNCHANGED <<tss, gdt, tr>>
       \/ /\ ~SameTask(next_selector')
          /\ JumpFar(next_selector', "fin", HandlerStack)
    /\ UNCHANGED <<boot_vars, kbd_full, env, highlight, window>>

(* Mutant: the shared page is not told which task runs. *)
tasks_tick_count_only == env' = [env EXCEPT !.tick_count = (@ + 1) % WORD]

(* tasks_tick: the shared page learns of the tick and of the task. *)
tasks_tick == env' = [tick_count |-> (env.tick_count + 1) % WORD,
                      task_id |-> current_task]

(* The label of each window tells whether its task runs. *)
tasks_screen_update == highlight' = current_task

(* _isr32 from label .fin: the tick, the screen, and popad and iret from    *)
(* the kernel stack the task was suspended on.                              *)
isr32_fin ==
    /\ stage = "up" /\ ~halted /\ cpu.at = "fin"
    /\ tasks_tick
    /\ tasks_screen_update
    /\ cpu' = [cpu EXCEPT !.ctx = kstack[cpu.esp], !.at = "code"]
    /\ UNCHANGED <<sched_vars, boot_vars, gdt, tss, tr, kstack, irr, in_service,
                   kbd_full, isrNumber, window>>

(* Mutant: the handler never reads the port of the keyboard. *)
PortNotRead == kbd_full' = kbd_full

(* Reading port 60h empties the keyboard controller. *)
PortRead == kbd_full' = FALSE

(* _isr33 reads the scancode; which key it is about is left out.      *)
isr33 ==
    /\ Raised("kbd")
    /\ Acknowledge("kbd")
    /\ PortRead
    /\ kstack' = Pushed
    /\ UNCHANGED <<sched_vars, boot_vars, gdt, tss, tr, cpu, isrNumber, env, highlight,
                   window>>

(* _isr88 and tasks_syscall_draw: a viewport that fails the two bounds is   *)
(* ignored; otherwise it lands in the window of current_task.               *)
isr88(in_bounds) ==
    /\ InterruptsOn
    /\ Current \in Slots
    /\ kstack' = Pushed
    /\ window' = IF in_bounds THEN [window EXCEPT ![current_task] = cpu.ctx]
                              ELSE window
    /\ UNCHANGED <<sched_vars, boot_vars, gdt, tss, tr, cpu, irr, in_service, kbd_full,
                   isrNumber, env, highlight>>

(* An exception of a program: kernel_exception prints the registers and the *)
(* handler loops for ever with interrupts off.                              *)
Exception ==
    /\ InterruptsOn
    /\ halted' = TRUE
    /\ UNCHANGED <<sched_tasks, current_task, next_selector, kernel_vars>>

Stopped == halted /\ UNCHANGED vars

Boot == \/ tss_init \/ InitScheduler \/ create_task \/ EnableCreated \/ pic_enable
        \/ LoadTaskRegister \/ StartIdle

Next == \/ Boot
        \/ RaiseTimer \/ KeyEvent
        \/ isr32 \/ isr32_fin \/ isr33
        \/ \E in_bounds \in BOOLEAN : isr88(in_bounds)
        \/ Exception \/ Stopped

Spec == Init /\ [][Next]_vars

(* The clock is periodic; the boot code and the handlers run to their end;  *)
(* a processor with interrupts on takes the interrupt the PIC raises, and   *)
(* does not always find the clock in front of the keyboard when it looks.   *)
FairSpec ==
    /\ Spec
    /\ WF_vars(Boot) /\ WF_vars(RaiseTimer) /\ WF_vars(isr32) /\ WF_vars(isr32_fin)
    /\ SF_vars(isr33)

-----------------------------------------------------------------------------
(* Properties *)

BootTypeOK ==
    /\ stage \in {"tss_init", "sched_init", "create_task", "sched_enable_task",
                  "pic_enable", "ltr", "jmp_idle", "up"}
    /\ to_create \in Nat
    /\ task_id \in Slots
    /\ next_page \in Nat
    /\ boot_tick \in 0 .. WORD - 1

Descriptors == [p : BOOLEAN, busy : BOOLEAN, base : Owners \cup {NOBODY}]

TssStates == [cr3 : Pages, esp0 : Pages, esp : Pages, at : {"boot", "code", "fin"}]

ProcessorTypeOK ==
    /\ gdt \in [GdtIndices -> Descriptors]
    /\ tss \in [Owners -> TssStates]
    /\ tr \in {NullSelector} \cup {Selector(g) : g \in GdtIndices}
    /\ cpu \in [ctx : Owners \cup {NOBODY}, cr3 : Pages, esp : Pages,
                at : {"boot", "code", "fin", "fault"}]
    /\ kstack \in [Pages -> Owners \cup {NOBODY}]

DeviceTypeOK ==
    /\ irr \subseteq IRQs /\ in_service \subseteq IRQs
    /\ kbd_full \in BOOLEAN
    /\ isrNumber \in 0 .. 3
    /\ env \in [tick_count : 0 .. WORD - 1, task_id : Int]
    /\ highlight \in Slots
    /\ window \in [Slots -> Owners \cup {NOBODY}]

TypeOK == SchedTypeOK /\ BootTypeOK /\ ProcessorTypeOK /\ DeviceTypeOK

Up == stage = "up"

(* The registers, the address space and the kernel stack in use are those   *)
(* of the task in the task register, and the frame each suspended task will *)
(* resume from still holds its own registers: kernel stacks are not shared  *)
(* (tss.c, line 72), so the handler of one task cannot overwrite the frame  *)
(* of another.                                                              *)
ContextIntegrity ==
    /\ Up /\ cpu.at # "fault" =>
          /\ cpu.cr3 = tss[Current].cr3
          /\ cpu.at = "code" => cpu.ctx = Current
          /\ cpu.at = "fin" => kstack[cpu.esp] = Current
    /\ \A i \in Slots \cup {TASK_IDLE} :
          tss[i].at = "fin" /\ (Up => Current # i) => kstack[tss[i].esp] = i

(* No jump goes to a descriptor that is absent or busy: the clock handler   *)
(* compares with the task register before it jumps (isr.asm, line 199).     *)
NoBadJump == cpu.at # "fault"

(* Exactly the descriptor in the task register is busy. *)
OneBusy == \A g \in GdtIndices : gdt[g].busy <=> tr = Selector(g)

(* The task that runs is the one the scheduler, and with it the system call *)
(* and the screen, take to be running.                                      *)
CurrentTaskRuns == Up /\ Current \in Slots => Current = current_task

(* The processor obeys the scheduler: the task in the task register is the  *)
(* one that the last call of sched_next_task chose.                         *)
SchedulerObeyed == Up => tr = next_selector

(* Each runnable slot's selector names a present descriptor of the TSS that *)
(* create_task stored for that slot.                                        *)
SelectorsResolve ==
    \A i \in Slots : Runnable(i) =>
        LET d == gdt[Index(sched_tasks[i].selector)] IN d.p /\ d.base = i

(* The strengthening that makes these inductive.  tasks_init fills slots,   *)
(* descriptors and pages in step: after n calls of create_task ...          *)
LayoutOf(n) ==
    /\ next_page = PAGES_PER_TASK * n + 1
    /\ \A i \in Slots : sched_tasks[i].state = "TASK_SLOT_FREE" <=> n <= i
    /\ \A i \in 0 .. n - 1 :
          /\ sched_tasks[i].selector = Selector(GDT_TSS_START + i)
          /\ GDT_TSS_START + i < GDT_COUNT
          /\ gdt[GDT_TSS_START + i].p
          /\ gdt[GDT_TSS_START + i].base = i
          /\ tss[i].esp0 = PAGES_PER_TASK * i + PAGES_PER_TASK
    /\ \A g \in GDT_TSS_START .. GDT_COUNT - 1 : gdt[g].p => g < GDT_TSS_START + n
    /\ stage \in {"tss_init", "sched_init"} => n = 0
    /\ stage = "sched_enable_task" => task_id < n
    /\ stage \in {"create_task", "sched_enable_task"} => to_create > 0
    /\ \A i \in Slots : n <= i => tss[i].at = "code"

Layout == \E n \in 0 .. MAX_TASKS : LayoutOf(n)

(* ... the task register names a present descriptor, the only busy one ...  *)
Registers ==
    /\ stage # "tss_init" =>
          /\ gdt[GDT_IDX_TASK_IDLE].p /\ gdt[GDT_IDX_TASK_IDLE].base = TASK_IDLE
          /\ gdt[GDT_IDX_TASK_INITIAL].p
          /\ gdt[GDT_IDX_TASK_INITIAL].base = TASK_INITIAL
    /\ OneBusy
    /\ stage = "jmp_idle" => tr = Selector(GDT_IDX_TASK_INITIAL)
    /\ ~Up /\ stage # "jmp_idle" => tr = NullSelector
    /\ Up => \E g \in GdtIndices : /\ tr = Selector(g) /\ gdt[g].p
                                   /\ g # GDT_IDX_TASK_INITIAL
    /\ ~Up => cpu.at = "boot" /\ \A i \in Owners : tss[i].at = "code"
    /\ Up => cpu.at \in {"code", "fin"}

(* ... and a suspended handler left its frame on its task's own stack.      *)
Stacks ==
    /\ tss[TASK_IDLE].esp0 = KERNEL_STACK
    /\ Up /\ cpu.at = "fin" => cpu.esp = tss[Current].esp0
    /\ \A i \in Slots \cup {TASK_IDLE} :
          /\ tss[i].at \in {"code", "fin"}
          /\ tss[i].at = "fin" => tss[i].esp = tss[i].esp0

IInv == /\ TypeOK /\ Layout /\ Registers /\ Stacks
        /\ ContextIntegrity /\ CurrentTaskRuns

(* Tasks that have been dispatched at least once by the clock handler. *)
Started == {i \in Slots : tss[i].at = "fin" \/ (Up /\ Current = i)}

(* Every clock interrupt turns the spinner, and every one is counted in     *)
(* tick_count when its handler gets to .fin, but for the first dispatch of  *)
(* each task: that jump enters the task at its code, not at .fin            *)
(* (isr.asm, lines 199-208).                                                *)
TickAccounting ==
    LET pending == IF Up /\ cpu.at = "fin" THEN 1 ELSE 0
    IN  (env.tick_count + pending + Cardinality(Started)) % 4
          = (boot_tick + isrNumber) % 4

(* A task that has been resumed by the clock sees its own number in the     *)
(* shared page, and its window is the one labelled as running.              *)
SharedTaskIdFresh ==
    Up /\ cpu.at = "code" /\ Current \in Slots /\ tss[Current].at = "fin" =>
        env.task_id = Current /\ highlight = Current

(* A program only ever draws in its own window. *)
WindowsOwned == \A i \in Slots : window[i] \in {NOBODY, i}

(* A scancode in the keyboard controller always has its interrupt pending,  *)
(* for the line is not raised again until the port is read; and as soon as  *)
(* a program runs with no tick pending the PIC does raise it: no handler    *)
(* has left an interrupt in service (isr.asm, lines 177 and 221).           *)
ScancodeAnnounced ==
    kbd_full => /\ "kbd" \in irr
                /\ InterruptsOn /\ "timer" \notin irr => Raised("kbd")

(* Every task that tasks_init enabled runs again and again, unless the      *)
(* system stops.                                                            *)
TasksRunForever ==
    \A i \in Slots : <>[](Up /\ ~halted /\ Runnable(i)) =>
        []<>(cpu.at = "code" /\ cpu.ctx = i)

(* The clock ticks every 3.4 ms (pic.c, line 47), far longer than its       *)
(* handler runs: again and again a program runs with no tick pending.       *)
ClockLeavesTime == []<>(halted \/ (InterruptsOn /\ "timer" \notin irr))

(* Every scancode is read in the end, unless the clock takes all the time   *)
(* there is (it comes before the keyboard) or the system stops.             *)
ScancodesRead == ClockLeavesTime => (kbd_full ~> (~kbd_full \/ halted))
==============================================================================
