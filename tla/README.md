# Verification of the teaching kernel

This directory models the 80386 kernel of `src/` (C and NASM, 57 files) in
TLA+, checks the models with TLC and proves theorems about them with TLAPS.
File names below are relative to `src/src/`; documents are in `src/`.

    tlc -config MCKernel.cfg MCKernel.tla      # one run
    tlapm KernelProofs.tla                     # one module of proofs

`PROJECT.json` lists the components, the runs, the lines of source behind each
definition, the hazards, the findings and the theorems.

## The system

The kernel boots in real mode, enters protected mode, pages its memory, creates
four tasks and hands the processor to them in turn at every clock interrupt.
The tasks are games; they see the clock and the keyboard in a shared page, draw
with a system call, and share one more page that is mapped when it is first
used.

| part | state | operations | meets |
|---|---|---|---|
| scheduler, `sched.c` | `sched_tasks`, `current_task` | add, enable, disable, next | called by task creation and the clock handler; `current_task` is read by the screen and the draw call |
| task creation, `tasks.c`, `tss.c`, `gdt.c` | TSS and descriptor of each task, GDT | `create_task`, `tasks_init` | scheduler slot, GDT entry and TSS must match |
| handlers, `isr.asm`, `idt.c` | spinner, frames on kernel stacks | clock, keyboard, draw, page fault, exceptions | task switch in the middle of the clock handler; any program, at any time |
| exception screen, `idt.c` 103-271 | the screen | `kernel_exception` | reads what the handlers have pushed |
| PIC, `pic.c` | requests, in service | mask, end of interrupt | decides which handler starts |
| memory manager, `mmu.c` | directories, tables, two pools, TLB | map, unmap, copy, new directory, page fault | called at boot, from task creation and from the page fault |
| draw call, `tasks.c` 80-118 | the screen | one copy of 23 rows | a pointer from a task, `current_task` |
| shared page, `shared.h` | `tick_count`, `task_id`, keys | written by handlers, read by tasks | every task |
| tasks, `tareas/` | games; scores in the on-demand page | turns, sleep, publish, read | the pages above |
| real mode, `kernel.asm` 58-98, `a20.asm` | line A20, flags | check, enable | before everything |
| screen, `screen.c` | video memory | printing | output only |
| terminal, `keyboard_input.c` | cursor, marker, shift | `process_scancode` | linked; the handler that the exercise of `02_interrupciones.md` asks for calls it, the one of this commit calls `tasks_input_process` |

What is hard in it:

* **Concurrency.** Handlers run with interrupts off (every gate is an interrupt
  gate), but the clock handler is cut in two by the hardware task switch
  (`isr.asm` 204): the second half runs when the task comes back, or, for a
  task dispatched for the first time, not at all. Tasks are interrupted between
  any two accesses to the shared pages.
* **Agreement of separate state.** The task register, the busy bits, the
  scheduler's `current_task`, `task_id` of the shared page, the kernel stack in
  use and cr3 all say which task runs, and each is set somewhere else.
* **Memory that is not what it seems.** Pages start with garbage; tables are
  edited through the identity mapping of whoever runs; the TLB caches what the
  tables said.
* **Frames by hand.** Every handler builds and unwinds its stack with pushes that
  have to match: the processor pushes two words more when it comes from a task,
  one more for some exceptions, and C functions take structures by value.
* **Devices that speak in bytes.** A key is one byte or two, a release another,
  a held key repeats, and one key pretends that another is held, unless it is.
* **Order and arithmetic.** A search that wraps, sums of 32 bits that wrap, ends
  of ranges, a scan that moves what it scans, flags used after a macro.

What makes each part correct is in the table of runs; `hazards` in
`PROJECT.json` lists where each can go wrong, with the properties that would
tell.

## Modules

| module | models | notes |
|---|---|---|
| `RoundRobin` | the promise of `sched_next_task` | abstract: a queue of tasks |
| `Sched` | `sched.c`, `kassert.h` | one action per operation; implements `RoundRobin` |
| `SchedWaiting` | `Sched` with a history of waits | the properties that need it |
| `Kernel` | `kernel.asm` 163-224, `tasks.c`, `tss.c`, `isr.asm`, `idt.c`, `pic.c` | extends `Sched`: same table, same `sched_next_task`, same mapping to `RoundRobin` |
| `AddressSpaces` | what a task may see | abstract |
| `Mmu` | `mmu.c` | implements `AddressSpaces` |
| `Viewport` | `tasks_syscall_draw` | the check and the copy, as operators and parts of actions; real sizes of rows and screen |
| `Interrupts` | `isr.asm`, `idt.c`, the segments of `gdt.c` | extends `Viewport`: the system call with the stack it runs on |
| `Page` | what a character terminal promises | abstract |
| `Terminal` | `keyboard_input.c` | one handler and its state; implements `Page` |
| `Keyboard` | the keyboard, `_isr33`, `tasks_input_process`, `shared.h` | extends `Terminal` |
| `Pong` | the rules of `tareas/taskPong.c` | operators on a game, no state |
| `PongTasks` | Pong and its scoreboard as tasks; `task_sleep` | extends `Pong` |
| `Snake` | `tareas/taskSnake.c` | |
| `A20` | `kernel.asm` 58-98, `a20.asm` | |
| `SchedLemmas`, `SchedProofs`, `KernelProofs`, `InterruptsProofs`, `MmuProofs`, `KeyboardProofs`, `PongProofs`, `SnakeProofs` | proofs | each extends the module it is named for; `SchedLemmas` (about `Sched`) serves `SchedProofs`, which proves about `SchedWaiting`, and `KernelProofs`; `PongProofs` proves about `PongTasks` |

How state and actions correspond to the code:

* **`Sched`** has the variables of `sched.c` and `halted`, a failed `kassert`
  (which loops with interrupts off). `StopTurn` is the turn of the loop of
  `sched_next_task` at which it stops.
* **`Kernel`**: a program's registers are a token, its owner; a page of the
  kernel's pool is its number. `gdt` holds the TSS descriptors with busy bits,
  `tss` what the processor saved, `cpu` what is loaded, `kstack` whose registers
  lie at the top of each kernel stack. `isr32` is `_isr32` up to `.fin` or to
  the far jump, `isr32_fin` the rest; `JumpFar` is the processor's task switch.
  A fault in `JumpFar` shows as `cpu.at = "fault"`. The page-fault handler is
  not repeated here: a fault that is served changes none of this state, and one
  that is not is `Exception`.
* **`Mmu`**: addresses are page numbers. Directories and tables are pages of
  `mem`, so a table that is handed out twice or not cleared shows. `TlbFill` and
  `TlbEvict` may happen at any time. `mmu_map_pages` is the loop of
  `mmu_init_task_dir` over one table.
* **`Viewport`**: the bound on the pointer, with its two errors, and the copy
  row by row. `Content` is what `tasks_screen_draw` clears for each task.
* **`Interrupts`** follows one program through whatever interrupts it, register
  by register: `Kernel` shows that what happens to others in between does not
  touch it. A word of a register or of the stack is a pair, what it is and whose;
  so a register that comes back from the wrong place shows. `stack` is the stack
  of level 0 with its top first; `Deliver` is the processor's entry through a
  gate, `ISRc`, `pushad`, `popad`, `iret` are what the handlers do with it.
  `entry` is a history: what was interrupted, by what, and through which gate.
  `kernel_exception` takes its arguments from where the C calling convention
  finds them, also when the caller has not pushed them. A handler is one action,
  since interrupts are off in it; the copy of a viewport is one action per row,
  since any of its reads may fault. Whether a page fault is served is a choice
  here; `Mmu` says when.
* **`Keyboard`**: `wire` holds the bytes between the keys and the handler. Press,
  repeat and release are the device's; `isr33` reads one byte and calls one of
  the two routines. The flags start set: nobody clears the shared page. The
  device is the one the code is run on, QEMU (`Makefile`), and the one of the
  page on scancodes that `keyboard_input.c` 50 cites. They agree on print
  screen: it sends the code of left shift before its own, and takes it back after
  its release, only while no shift or control key is held (`Pretends`). They
  differ in what it repeats, so `Repeat` does either. With alt print screen is
  another key, SysRq: no set of keys has both (`KeysAssumption`). The shifts that
  a keyboard may send around the grey arrows while num lock is on are left out;
  QEMU sends none. `pretended` is a history: a pretended shift that neither
  print screen nor left shift has taken back.
* **`Terminal`**: a character is the key that prints it and whether shift is on;
  colours are left out. The arithmetic of `fix_rowcol` is the code's: C's `%`
  and that of TLA+ differ below zero, but the code adds the dimension first.
* **`PongTasks`**: a step of a program ends at each access to memory that
  another can change. A key may change between two reads, so each read is an
  arbitrary boolean. `Tick` is what `Kernel` does when every slot runs.
* **`Snake`**: a map has one tail and at most one head, so the scan of a turn is
  the move of the head and the move of the tail in the order in which it meets
  them (`HeadFirst`).
* **`A20`**: ZF, and two bytes that are one while the line is closed.

The hardware (task switch, page walk, TLB, PIC, keyboard controller) is modelled
as far as the code uses it and is marked external in the map.

## Runs

| run | bounds | shows |
|---|---|---|
| `sched` | 4 slots, 2 selectors | `IInv`, no starvation, registrations kept, round robin implemented |
| `kernel` | 4 slots, 35 GDT entries, boots with 0, 1, 4 and 5 tasks, ticks modulo 4 | the whole of `IInv` (types, contexts, descriptors, windows, idle task), stacks, ticks, scancodes; round robin implemented by the running kernel too |
| `mmu` | 19 entries per table, 2 tasks, a pool exactly as large as needed, memory full of garbage, 1 cached translation | isolation, TLB, identity mapping, faults, copies; `AddressSpaces` implemented |
| `on_demand_served` | as `mmu` | finding: the last byte of the on-demand page is not served |
| `interrupts` | real sizes of the screen; an address space of 32 pages, flat segments that end below its end; pointers around every bound; 14 vectors for `int` | a program goes on with its registers, the exception screen is right, unknown vectors stop the system, windows exact, only a wrapped end faults |
| `viewport_bound` | the same | finding: a viewport of which one row fits is drawn |
| `page_fault_shown` | the same | finding: the screen of a page fault is not that of one |
| `keyboard` | eight sets of up to three keys, up to 4 bytes waiting; a screen of 2 by 3 | flags in sight and with the keys, marker; `Page` implemented |
| `pong` | a board of 4 by 3, paddles of 2, a game and the scoreboard, scores up to 1 each, `tick_count` modulo 4 | ball and serve, record, scoreboard |
| `sleep_ends` | 4 slots, `tick_count` modulo 12, 6 ticks of sleep | finding: a task sleeps for ever when the clock wraps |
| `snake` | 5 by 2, up to 4 apples, any seed of `task_random` | the snake is a path, counters, the end of a beheaded game |
| `a20` | line open or closed | finding: A20 is never enabled |

Why the bounds are enough. Four slots is the program's own number. The counters
of `Kernel` matter modulo 4 only (the spinner has four positions), and 4 divides
2^32. Boots with 0 and 1 tasks reach the paths on which the handler does not
jump, the boot with 5 the failed `kassert`. With 19 entries a table spans what
the identity mapping needs, and the tasks' pages, the on-demand page and the
copy windows lie in three different directory entries, as in the code; two tasks
are enough for what relates tasks in pairs. In `sleep_ends` 6 is 2 modulo 4 and
12 is 0 modulo 4, as 50 and 2^32 are, which is all that the counterexample
needs. `task_random` is not computed: any cell may get the apple, but from the
seed 0, which gives only 0, the first one. A board of 5
by 2 fills completely within four apples, so that the loop of `spawn_apple` that
never ends is reached. In `interrupts` only differences of addresses count; the pointers
are the first and last on each side of every comparison, and a segment that ends
below the address space is what `gdt.c` makes of 817 MB. The keys of `keyboard`
are chosen in small sets by what they can confuse: two keys of one code, a
prefix, print screen with the shift it pretends and with the one that keeps it
from pretending, each key that moves or toggles; that no two sets meet is a
bound. A screen of 2 by 3 has every edge, and the cells of the notice. In `mmu`, a
directory entry has the rights that the code gives it. The bounds `MAX_SCORE`,
`TLB_SIZE` and `MAX_SLEEP` cap counters in guards.

Each property of a passing run has a mutant in `PROJECT.json`: a definition of
the model changed the way a bug would, under which TLC finds the property
violated. The mutated forms stand before the definitions in the modules, marked
*Mutant*.

### Fairness

* `sched`: `Dispatch` is weakly fair: the clock keeps interrupting.
* `kernel`: the clock is periodic, and boot and handlers run to their end (weak
  fairness of `Boot`, `RaiseTimer`, `isr32`, `isr32_fin`). The keyboard handler
  is strongly fair: the processor does not always find a clock tick in front of
  it; and `ScancodesRead` moreover assumes `ClockLeavesTime`, since the clock
  comes before the keyboard. The clock's period is 3.4 ms (`pic.c` 47).
  Programs and keys are under no fairness.
* `pong`: the clock is weakly fair; the end of a sleep and the reads of the
  scoreboard are strongly fair: a turn of a task is long enough to reach its
  next access to shared memory.
* `keyboard`: the handler is weakly fair, which `ScancodesRead` of `Kernel`
  justifies. Keys are under no fairness.
* `snake`: the next turn is weakly fair; the sleep between two turns ends while
  `tick_count` is far from its wrap. Escape need not be pressed.

### Findings

* `a20.asm` 181: the flags of the comparison are gone when they are looked at;
  `A20_check` always answers 1, so `A20_enable` is never called. Firmware that
  leaves the line open hides it.
* `tasks.c` 88: the check of the draw call counts one row of 76 bytes and not the
  1748 bytes of the viewport. What follows the task's memory is the shared page,
  so a call reads it and does not fault (`DrawServed`).
* `isr.asm` 161: the handler of page faults calls `kernel_exception` without the
  frame that `ISRc` pushes. The title is that of the word five places above the
  top of the stack of level 0, which for a task is what follows its stack page;
  every register on the screen is another one.
* `tareas/task_lib.h` 21: the sum wraps. A task can sleep for ever (the run), and
  can go on at once when the sum, and not the clock, has wrapped.
* `mmu.c` 228: the end of the on-demand area is the last byte of the page, and the
  comparison is strict. A first access to that byte stops the system
  (`OnDemandServed`), although the comment above it and `03_paginacion.md` have
  every access to the page mapped. `FaultServed` says of the other accesses that
  they are served, and of all that one that is served does not fault again.
* In passing (`FlagsFollowKeys`): print screen sets the flag of left shift
  (`tasks.c` 182), and takes it back only if no shift or control key is held when
  it is released. Print screen, right shift, print screen up, right shift up: the
  page says that left shift is pressed. It is the only flag that can be set
  without a key of its code, and only so: that is proved.
* In passing (`Terminal`): every byte of left shift toggles the case of the
  terminal (`keyboard_input.c` 205), also one that a held key repeats or that
  print screen pretends. Press, repeat and release leave it in shift with nothing
  held; so do, without a repeat, print screen, left shift, print screen up, left
  shift up. No property relates the case to the keys, since none holds. The
  terminal is not what the handler of this commit calls.
* In passing (`RecordMatches`, `RecordsOwned`): the shared page is not cleared, so
  `tick_count` may be within `SLEEP` of its wrap at boot. Then the first sleep of
  a game ends within its first time slice, before the page names the task, and
  the game can publish its scores in another's place.
* In passing (`TickAccounting`, `SharedTaskIdFresh`): the tick that first
  dispatches a task (`isr.asm` 204) is not counted, and `task_id` still names
  another task until the next tick. No game scores in its first turn, and its
  second is some ticks later, so `RecordsOwned` holds all the same (but for the
  finding above).
* In passing (`BodyCounted`): the snake grows by one cell less, and `body_size`
  by one more than the body, for each apple eaten in a turn in which the tail is
  scanned before the head.

## Proofs

TLC checks the instances above; the theorems hold for every value of the
constants that the named assumptions admit.

* **`SchedProofs`** (up to 64 slots, `MaxTasksAssumption`: with more, the `int8_t`
  of the loop overflows). `BoundedWait` is not inductive: `WaitsBounded` adds that
  the waits of a slot and its distance from `current_task` in the order of the
  search are together at most `MAX_TASKS`; each dispatch that passes a slot over
  brings the search nearer to it. `RoundRobinImplemented` maps the initial state
  and every step: turning the queue of `RoundRobin` by k is moving
  `current_task` to the slot of the k-th turn (`SchedLemmas`).
* **`KernelProofs`** (any number of slots, GDT, word and tasks at boot).
  `ContextIntegrity` speaks of frames on stacks; that no two tasks share one
  follows from how `tasks_init` takes slots, descriptors and pages in step.
  `Layout` says so: after n calls of `create_task` the first n slots have the
  first n descriptors and TSSs and every fourth page. `Registers` ties the task
  register to the only busy descriptor, `Stacks` each suspended handler to its
  own stack. `IInv` is their conjunction with the types, `ContextIntegrity` and
  `CurrentTaskRuns`, checked by TLC in run `kernel` first; one lemma per action
  proves that it is kept, and `NoBadJump`, `OneBusy`, `SelectorsResolve` and
  `WindowsOwned` follow from it. Those that are parts of `IInv`, or follow from
  it at once, have no place of their own in the cfg.
  `KernelRoundRobin` shows that the kernel, which creates tasks at boot and calls
  `sched_next_task` from the clock handler, implements `RoundRobin` as `Sched`
  alone does, and `SchedulerObeyed` (only proved) that after boot the task
  register holds the selector that was chosen last: the turns of the queue are
  those of the processor. `ObeyInv` adds that during boot nothing but the idle
  task has been chosen. `ScancodeAnnounced` rests on `PicInv`: between two
  handlers no interrupt is in service.
  `TickAccounting` counts the tasks that have started, so each of the three ways
  a clock handler can end (no switch, a first dispatch, a resumption) needs to
  know whether that set grows. `ClockInv` adds that the idle task, once another
  task runs, is suspended behind its jump.
* **`InterruptsProofs`** (any address space, position of the task's pages, limit
  of the segments and set of pointers that `AddressAssumption` and
  `InterruptAssumption` admit). `WindowExact` and `DrawServed` need to know how
  far a call is: `DrawInv` adds that what is drawn is the first `y` rows, that
  only a task calls, and that a row beyond the first is only reached when the
  first row did not wrap. The arithmetic is in `AcceptedReadable` (if the first
  row ends in the task's memory, so do the others before the end of the shared
  page, for a viewport is shorter than a page) and `WrappedFaults`. Of the other
  handlers this needs that they leave the call alone. `ProgramResumes`,
  `ExceptionShown` and `UnknownStops` need what is on the stack at each status:
  `RegInv` says that a handler finds the frame of what it interrupted on top of
  what lay there, that below the frame of a program there is nothing, and that a
  copy in progress has two words more; `EntryInv` that a vector without a gate
  has become a protection fault with its number in the code. Lemmas follow
  `pushad`, `ISRc`, the call of C functions and `iret` over any such stack.
* **`MmuProofs`** (any number of tasks and of entries in a table, any memory at
  power on, any size of TLB, any layout that `LayoutAssumption`,
  `VirtualAssumption` and `PhysicalAssumption` admit: the tasks' pages in three
  directory entries apart from the first, pools that suffice). None of the
  properties is inductive, for the code edits tables through the identity
  mapping of whatever directory is loaded. `MmuInv` says instead what the tables
  are: the directory of a task, the three pages that follow it and, if it asked
  for it, a fourth hold exactly the mappings of its creation (`TaskSpace`,
  `DemandMade`), all else is absent; the pages held by two tasks are disjoint;
  the pools are as far as the tasks created, the pages asked for and the one table
  of the copy windows explain; the TLB holds nothing that the tables do not.
  Lemmas say what one mapping changes, with a table there or without
  (`MapPageFound`, `MapPageNew`), and one taken away (`UnmapPage`). Each operation
  is followed mapping by mapping; the code reads and writes the tables through
  the TLB, and `LookupWalks` says that this is a walk of the tables in memory.
  `Isolation`, `StructuresPrivate`, `WindowsClosed` and the walks of
  `FaultServed` are then read off the tables, and each step is one of
  `AddressSpaces` because the view of a task is a function of its table.
* **`KeyboardProofs`** (any screen of at least two rows and columns, any set of
  keys that `KeysAssumption` admits, any number of bytes waiting).
  `FlagsFollowKeys` speaks of an empty wire, so it is not inductive. What is
  true before is said with `FlagOf`, what the first n bytes that wait would make
  of a flag. `FlagsExplained`: a flag that all of them would leave set belongs to
  a key that is held, or was pretended by print screen; `FlagsInSight`: for a key
  that sends its code alone they leave it as the key is. A key that sends puts
  bytes of its own codes behind the others, all of which say the same
  (`DeviceSends`, `FlagSent`); a byte that is read is one less at the front
  (`FlagRead`). `FlagOfTail` and `FlagOfMore` are these two facts about `FlagOf`.
  With nothing on the wire `FlagsExplained` and `FlagsInSight` are
  `FlagsFollowKeys`. `FlagsNearer` (only proved) is what `FlagsCatchUp` rests on:
  while the key stays as it is, each byte that is read brings the point from
  which its flag is right one byte nearer, and nothing that is sent moves it
  away. For `Terminal` `KeyInv` says that the marker is at the cursor or nowhere;
  `ByteStep` says for each kind of byte that this is kept and what happens to the
  page, and from it `ImplementsPageHolds` follows. That rows and columns count
  the cells of a page is division by a constant that the provers do not know: it
  is in the first lemmas.
* **`PongProofs`** (any board at least four columns wide, any paddle that fits,
  any number of games). Lemmas follow the ball through the operators of a turn:
  after the walls at the left and right it may be one row outside, but then on
  its way out, and `Rebound` brings it back. `RecordMatches` and `RecordsOwned`
  need `RecordInv`: in the first time slice of a game no tick has passed and it
  has no point, for the ball that is served in the first turn does not reach a
  wall in it (`FirstTurnScoresNothing`, which fails on a board of three columns);
  from its second slice on the page names the task whenever it runs. The hypothesis
  `ClockFarFromWrap` (at boot, `tick_count` is not within `SLEEP` of its end) is
  what the finding above makes necessary; run `pong` satisfies it.
  `ScoreboardNearer` (only proved, without that hypothesis) is what
  `ScoreboardCatchesUp` rests on: while no score is stored the pass that is being
  read ends after at most six words, and one that starts then is drawn right.
* **`SnakeProofs`** (any map of at least three rows, any number of apples, any
  cells for them). `SnakeInv` names the path: a list of different cells from the
  tail to the head, each pointing to the next, every other cell empty or the one
  apple, and `body_size` not below the length nor above it by more than the
  score; and that with what is left to grow it is one and four for each apple.
  The two ends move separately (`PathLosesTail`, `PathGainsHead`) and
  `ScanMakesPath` composes them in either order; that the snake has three cells
  before the tail moves is why the tail never runs into the head. The property
  finds the path by walking from the tail. That the walk exists, and follows the
  path, takes an induction: it is done with the least number for which it fails,
  which the well-foundedness of `<` on the naturals provides. `BeheadedShrinks`
  (only proved) is what the end of a game rests on: without a head every turn
  takes one from `body_size + remaining_growth`, so there are finitely many, and
  `body_size` does not pass zero. `SpawnFindsRoom` (only proved) bounds the loop of
  `spawn_apple`: as long as the apples eaten cannot have filled the map a turn
  always has an outcome, unless the seed of `task_random` is 0.

Only model-checked: liveness (`NoStarvation`, `TasksRunForever`,
`ScancodesRead`, `ScoreboardCatchesUp`, `FlagsCatchUp`, `BeheadedGameEnds`),
which TLAPS does not prove under fairness. The step towards each is proved, for
every value of the constants:

| liveness | what a step does to it |
|---|---|
| `NoStarvation` | `BoundedWait` |
| `TasksRunForever` | `KernelRoundRobin` and `SchedulerObeyed`: each tick turns the queue, and the processor with it |
| `ScancodesRead` | `ScancodeAnnounced`: raised as soon as no tick is pending |
| `FlagsCatchUp` | `FlagsInSight`, `FlagsNearer` |
| `ScoreboardCatchesUp` | `ScoreboardNearer` |
| `BeheadedGameEnds` | `BeheadedShrinks` |

The properties that are only proved were checked by TLC on the instances of
these runs before they were proved. Every other property of a passing run is a
theorem. The properties of the violation runs are false (`FaultServed` says
how far one of them is true). The position
of the ball and the record's owner are related to what runs only within
`PongTasks`: no run composes it with `Kernel`.

## Not modelled

* Printing and drawing (`screen.c`, `print.mac`, the `draw` functions, the
  animation at boot): output that nothing reads back. Which register
  `kernel_exception` prints where is in `Interrupts`, how it looks is not.
* `tareas/taskTipear.c`: one text, no state, not in the image.
* `tareas/taskGameOfLife.c`: a formula on one grid, which a test reaches. It sums
  nine cells, with the cell itself, and compares with 4 and 3 the other way round
  (line 29): a cell is born with four neighbours, not with three. `HEIGHT` and
  `WIDTH` are swapped in its indices (lines 16-19).
* `task_prelude.asm` and the printing of `task_lib.h`; the boot loader in
  `diskette.img.bz2`.
* `A20_disable`, `pic_finish2`, `pic_disable`: never used.
* The colours of the terminal, the attributes of cells.
* The build (`Makefile`), the helper for the debugger (`orga2.py`) and the
  exercises, except where a finding quotes them.

## Plan

Done: scheduler, kernel, memory manager, handlers and draw call, keyboard and
terminal, Pong, Snake, A20, and proofs of every safety property,
action property and refinement that the runs check. Each liveness property has
its step proved (the table above).

Left out: a composition of `Kernel` and `Mmu`. Handlers run with interrupts off,
so a clock interrupt and a page fault never interleave; the frame that the fault
leaves is followed in `Interrupts`, and the change of cr3 in `Kernel`. And a
composition of `PongTasks` with `Kernel`, of which `Tick` is a summary.
