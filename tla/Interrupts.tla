----------------------------- MODULE Interrupts -----------------------------
(***************************************************************************)
(* What an interrupt, an exception or a system call does to the registers  *)
(* and to the stack of the program it interrupts: the gates (idt.c) and    *)
(* segments (gdt.c) it goes through, the handlers (isr.asm), and the       *)
(* screen on which kernel_exception (idt.c) shows the registers.  A        *)
(* behaviour follows one program: when the clock runs others in between,   *)
(* the processor keeps all its registers in its task segment (Kernel).     *)
(*                                                                         *)
(* A word is a pair: what it is, and which.  <<"ebx", "program">> is what  *)
(* ebx holds in the program, <<"ebx", "kernel">> what a C function leaves  *)
(* there, <<"stack", d>> the address of the stack of level 0 when it holds *)
(* d words.  A selector is the name of its segment.                        *)
(***************************************************************************)
EXTENDS Viewport, Sequences

CONSTANTS
    FLAT_SEGM_SIZE,    \* bytes of the four flat segments
    Calls              \* the vectors n for which a task executes int n

ASSUME InterruptAssumption ==
    /\ FLAT_SEGM_SIZE \in Nat
    /\ TASK_SHARED_PAGE + PAGE_SIZE <= FLAT_SEGM_SIZE
    /\ FLAT_SEGM_SIZE <= WORD - Sizeof.row
    /\ Calls \subseteq 0 .. 255

VARIABLES
    status,   \* program, handler, copying (a viewport) or stopped
    regs,     \* the registers
    stack,    \* the stack of level 0, its top first
    entry,    \* history: what the last interrupt found, and where it led
    screen    \* what kernel_exception printed

vars == <<status, regs, stack, entry, screen, current_task, draw_vars>>

(* Descriptors that the selectors name, and who may use them.               *)
gdt == [segment \in {"CODE_0", "CODE_3", "DATA_0", "DATA_3"} |->
          [dpl |-> IF segment \in {"CODE_3", "DATA_3"} THEN 3 ELSE 0,
           limit |-> FLAT_SEGM_SIZE - 1]]

Sel(segment) == <<segment, "sel">>

Level(sel) == gdt[sel[1]].dpl

(* Mutant: every gate is open to the tasks. *)
idt_init_open ==
    [n \in 0 .. 20 \cup {32, 33, 88, 98} |-> [segsel |-> Sel("CODE_0"), dpl |-> 3]]

idt_init ==
    [n \in 0 .. 20 \cup {32, 33, 88, 98} |->
       [segsel |-> Sel("CODE_0"), dpl |-> IF n \in {88, 98} THEN 3 ELSE 0]]

Registers == {"eax", "ebx", "ecx", "edx", "esi", "edi", "ebp", "esp", "eip", "eflags",
              "cs", "ds", "es", "fs", "gs", "ss", "cr0", "cr2", "cr3", "cr4"}

Idle == -1

(* The registers of a program that runs: the selectors of its task segment, *)
(* and for the rest whatever the program has put there.                     *)
Program(task) ==
    LET own == task \in TaskIds
    IN  [r \in Registers |->
           CASE r = "cs" -> Sel(IF own THEN "CODE_3" ELSE "CODE_0")
             [] r \in {"ds", "es", "fs", "gs", "ss"} -> Sel(IF own THEN "DATA_3" ELSE "DATA_0")
             [] r = "esp" /\ ~own -> <<"stack", 0>>
             [] OTHER -> <<r, "program">>]

Init ==
    /\ current_task \in TaskIds \cup {Idle}
    /\ status = "program"
    /\ regs = Program(current_task)
    /\ stack = <<>>
    /\ entry = [regs |-> regs, kind |-> "none", asked |-> -1, vector |-> -1,
               error |-> <<"number", 0>>]
    /\ screen = <<>>
    /\ NotDrawing

-----------------------------------------------------------------------------
(* The processor and the C functions, on m: its registers and its stack.    *)

Machine == [regs |-> regs, stack |-> stack]

Push(m, words) ==
    LET s == words \o m.stack
    IN  [regs |-> [m.regs EXCEPT !.esp = <<"stack", Len(s)>>], stack |-> s]

Drop(m, n) ==
    Push([m EXCEPT !.stack = SubSeq(m.stack, n + 1, Len(m.stack))], <<>>)

Values(m, names) == [i \in 1 .. Len(names) |-> m.regs[names[i]]]

(* The registers names get the words on top of the stack. *)
Load(m, names) ==
    [m EXCEPT !.regs = [r \in Registers |->
        IF \E k \in 1 .. Len(names) : names[k] = r
        THEN m.stack[CHOOSE k \in 1 .. Len(names) : names[k] = r]
        ELSE m.regs[r]]]

General == <<"edi", "esi", "ebp", "esp", "ebx", "edx", "ecx", "eax">>

pushad(m) == Push(m, Values(m, General))

popad(m) == Drop(Load(m, General), 8)

Frame == <<"eip", "cs", "eflags">>

Outer == <<"esp", "ss">>

iret(m) ==
    LET inner == Load(m, Frame)
        back == Drop(inner, 3)
    IN  IF Level(inner.regs.cs) > Level(m.regs.cs)
        THEN [Load(back, Outer) EXCEPT !.stack = Drop(back, 2).stack]
        ELSE back

(* A C function returns with its own values in the registers. *)
call(m) ==
    [m EXCEPT !.regs = [r \in Registers |->
        IF r # "esp" /\ \E k \in 1 .. 8 : General[k] = r
        THEN <<r, "kernel">> ELSE m.regs[r]]]

(* Exceptions for which the processor pushes an error code. *)
ErrorCodes == {8} \cup 10 .. 14 \cup {17}

(* Entering through the gate of vector n: the stack of level 0 is empty if  *)
(* a task runs, and the processor saves where its own was.                  *)
Deliver(m, n, error) ==
    LET outer == IF Level(m.regs.cs) > Level(idt_init[n].segsel)
                 THEN Values(m, Outer) ELSE <<>>
        code == IF n \in ErrorCodes THEN <<error>> ELSE <<>>
        entered == [m.regs EXCEPT !.cs = idt_init[n].segsel, !.eip = <<"isr", n>>,
                                  !.eflags = <<"eflags", "kernel">>,
                                  !.ss = Sel("DATA_0")]
    IN  Push([regs |-> entered, stack |-> m.stack], code \o Values(m, Frame) \o outer)

(* Vector n is raised.  Without a gate, or with one that int n may not use, *)
(* it is a protection fault, whose code names the entry of the table.       *)
Raise(n, kind) ==
    LET gate == n \in DOMAIN idt_init
                  /\ (kind = "int" => Level(regs.cs) <= idt_init[n].dpl)
        vector == IF gate THEN n ELSE 13
        error == IF gate THEN <<"cause", n>>
                         ELSE <<"vector", 8 * n + IF kind = "hardware" THEN 3 ELSE 2>>
        found == IF vector = 14 THEN [regs EXCEPT !.cr2 = <<"cr2", "fault">>] ELSE regs
        m == Deliver([Machine EXCEPT !.regs = found], vector, error)
    IN  /\ status' = "handler"
        /\ entry' = [regs |-> found, kind |-> kind, asked |-> n, vector |-> vector,
                     error |-> error]
        /\ regs' = m.regs /\ stack' = m.stack
        /\ UNCHANGED <<screen, current_task, draw_vars>>

(* What the clock, the keyboard and the other lines of the two controllers  *)
(* raise: pic_enable unmasks all of them.  No program runs with them off.   *)
Interrupt == \E n \in 32 .. 47 : status = "program" /\ Raise(n, "hardware")

(* A non-maskable interrupt or a machine check, while a program runs.       *)
Abort == \E n \in {2, 18} : status = "program" /\ Raise(n, "exception")

SoftwareInterrupt ==
    \E n \in Calls : status = "program" /\ current_task # Idle /\ Raise(n, "int")

(* Exceptions that an instruction of a task can cause.                      *)
Exception == \E n \in {0, 1, 5, 6, 7, 10, 11, 12, 13, 14, 16, 17, 19} :
    status = "program" /\ current_task # Idle /\ Raise(n, "exception")

-----------------------------------------------------------------------------
(* kernel_exception (idt.c)                                                 *)

(* The rows of the template, and the values that print_regs puts in them.   *)
print_exception_template ==
    <<"eax", "ebx", "ecx", "edx", "esi", "edi", "ebp", "esp", "eip",
      "cs", "ds", "es", "fs", "gs", "ss", "eflags", "cr0", "cr2", "cr3", "cr4", "err">>

print_regs(gregs, sregs, cregs, eip, eflags, error_code) ==
    <<gregs.eax, gregs.ebx, gregs.ecx, gregs.edx, gregs.esi, gregs.edi, gregs.ebp,
      gregs.esp, eip, sregs.cs, sregs.ds, sregs.es, sregs.fs, sregs.gs, sregs.ss,
      eflags, cregs.cr0, cregs.cr2, cregs.cr3, cregs.cr4, error_code>>

(* The structures that kernel_exception takes by value, on the stack s of   *)
(* the call: what is above the top of the stack of level 0 is beyond it.    *)
Arguments(s) ==
    LET word(i) == IF i <= Len(s) THEN s[i] ELSE <<"beyond", i - Len(s)>>
    IN  [cregs |-> [cr0 |-> word(1), cr2 |-> word(2), cr3 |-> word(3), cr4 |-> word(4)],
         sregs |-> [cs |-> word(5), ds |-> word(6), es |-> word(7), fs |-> word(8),
                    gs |-> word(9), ss |-> word(10)],
         gregs |-> [edi |-> word(11), esi |-> word(12), ebp |-> word(13),
                    esp |-> word(14), ebx |-> word(15), edx |-> word(16),
                    ecx |-> word(17), eax |-> word(18)],
         frame |-> [exception_number |-> word(19), error_code |-> word(20),
                    eip |-> word(21), cs |-> word(22), eflags |-> word(23)]]

(* The word number i (from 0) at the address that pointer is.               *)
Deref(s, pointer, i) ==
    IF pointer[1] = "stack" /\ pointer[2] - i \in 1 .. Len(s)
    THEN s[Len(s) - pointer[2] + i + 1] ELSE <<"memory", i>>

(* The title is code2exception[exception_number], each of which ends in its *)
(* index; a number that is no index finds some other string.                *)
kernel_exception(m) ==
    LET a == Arguments(m.stack)
        sregs == [a.sregs EXCEPT !.cs = a.frame.cs]
        values == print_regs(a.gregs, sregs, a.cregs, a.frame.eip, a.frame.eflags,
                             a.frame.error_code)
        label == print_exception_template
    IN  [title |-> a.frame.exception_number,
         shown |-> [l \in Registers \cup {"err"} |->
                      values[CHOOSE i \in 1 .. Len(label) : label[i] = l]],
         stack |-> [i \in 1 .. 3 |-> Deref(m.stack, a.gregs.esp, i - 1)]]

-----------------------------------------------------------------------------
(* The handlers (isr.asm)                                                   *)

Handles(n) == status = "handler" /\ entry.vector = n

Resume(m) ==
    /\ status' = "program"
    /\ regs' = m.regs /\ stack' = m.stack
    /\ UNCHANGED <<entry, screen, current_task>>

(* kernel_exception, and a loop with interrupts off. *)
Stop(shows, m) ==
    /\ status' = "stopped"
    /\ screen' = kernel_exception(shows)
    /\ regs' = m.regs /\ stack' = m.stack
    /\ UNCHANGED <<entry, current_task, draw_vars>>

(* Mutant: vector 17 pushes a code of its own, over that of the processor.  *)
ISRNE_17 == {0, 1, 2, 3, 4, 5, 6, 7, 9, 15, 16, 17, 18, 19, 20}

(* The vectors whose handler pushes 0 in the place of an error code.        *)
ISRNE == {0, 1, 2, 3, 4, 5, 6, 7, 9, 15, 16, 18, 19, 20}

(* What ISRc pushes for kernel_exception: the number, pushad, and the       *)
(* segment and control registers.                                           *)
ISRc(m, n) ==
    LET numbered == Push(m, <<<<"number", n>>>>)
        segments == Push(pushad(numbered),
                         Values(m, <<"cs", "ds", "es", "fs", "gs", "ss">>))
    IN  Push(segments, Values(m, <<"cr0", "cr2", "cr3", "cr4">>))

isr_exception ==
    \E n \in (0 .. 20) \ {14} :
        LET coded == IF n \in ISRNE THEN Push(Machine, <<<<"number", 0>>>>) ELSE Machine
            saved == ISRc(coded, n)
        IN  Handles(n) /\ Stop(saved, popad(Drop(call(saved), 10)))

(* page_fault_handler (Mmu) gets cr2, and says if it mapped the page. *)
isr14 ==
    LET returned == Drop(call(Push(pushad(Machine), <<regs.cr2>>)), 1)
    IN  /\ Handles(14)
        /\ \/ Resume(iret(Drop(popad(returned), 1))) /\ UNCHANGED draw_vars
           \/ Stop(returned, call(returned))

(* Mutant: the handler of the clock keeps no registers. *)
ServedBare(m) == call(m)

(* The clock and the keyboard: calls of C functions without arguments, or   *)
(* with one that is popped, between pushad and popad.                       *)
Served(m) == popad(call(pushad(m)))

isr32_33 ==
    /\ Handles(32) \/ Handles(33)
    /\ Resume(iret(Served(Machine)))
    /\ UNCHANGED draw_vars

isr98 ==
    /\ Handles(98)
    /\ Resume(iret([Machine EXCEPT !.regs.eax = <<"number", 98>>]))
    /\ UNCHANGED draw_vars

(* _isr88 up to the copy; "draw" is what the function has on the stack. *)
Called == Push(pushad(Machine), <<<<"draw", "frame">>, regs.eax>>)

(* From the return of the function to the iret. *)
isr88_fin(m) == Resume(iret(popad(Drop(m, 2))))

isr88_ignored ==
    /\ Handles(88)
    /\ \E addr \in Addresses : ~Accepted(addr)
    /\ isr88_fin(Called)
    /\ UNCHANGED draw_vars

isr88_call ==
    /\ Handles(88)
    /\ \E addr \in Addresses : Accepted(addr) /\ Accept(addr)
    /\ status' = "copying"
    /\ regs' = call(Called).regs /\ stack' = Called.stack
    /\ UNCHANGED <<entry, screen, current_task>>

Copying == status = "copying" /\ y < TASK_VIEWPORT_HEIGHT

isr88_copy ==
    /\ Copying /\ RowReadable
    /\ CopyRow
    /\ UNCHANGED <<status, regs, stack, entry, screen, current_task>>

(* A byte beyond the segment, or one that is in it and not mapped. *)
isr88_fault ==
    /\ Copying /\ ~RowReadable
    /\ LET beyond == \E b \in Row(viewport, y) : b > gdt["DATA_3"].limit
       IN  Raise(IF beyond THEN 13 ELSE 14, "exception")

isr88_return ==
    /\ status = "copying" /\ y = TASK_VIEWPORT_HEIGHT
    /\ Return
    /\ isr88_fin(Machine)

Stopped == status = "stopped" /\ UNCHANGED vars

Next ==
    \/ Interrupt \/ Abort \/ SoftwareInterrupt \/ Exception
    \/ isr_exception \/ isr14 \/ isr32_33 \/ isr98
    \/ isr88_ignored \/ isr88_call \/ isr88_copy \/ isr88_fault \/ isr88_return
    \/ Stopped

Spec == Init /\ [][Next]_vars

-----------------------------------------------------------------------------
(* Properties *)

(* When a program goes on after an interrupt, a system call or a page that  *)
(* was mapped for it, its stack of level 0 is as empty as it was, and every *)
(* register holds what it held, but for eax after int 98 (isr.asm,          *)
(* lines 147-255).                                                          *)
ProgramResumes ==
    status = "program" =>
        /\ stack = <<>>
        /\ regs = IF entry.vector = 98 THEN [entry.regs EXCEPT !.eax = <<"number", 98>>]
                                       ELSE entry.regs

(* Of all the vectors a task asks for with int, and of all the lines of the *)
(* interrupt controllers, those without a handler for them end in the       *)
(* screen of a protection fault whose error code tells which it was:        *)
(* nothing goes on after one (idt.c, lines 70-101).                         *)
UnknownStops ==
    LET unknown == \/ entry.kind = "int" /\ entry.asked \notin {88, 98}
                   \/ entry.kind = "hardware" /\ entry.asked \notin {32, 33}
        source == IF entry.kind = "hardware" THEN 3 ELSE 2
    IN  unknown => \/ status = "handler" /\ entry.vector = 13
                   \/ /\ status = "stopped"
                      /\ screen.title = <<"number", 13>>
                      /\ screen.shown.err = <<"vector", 8 * entry.asked + source>>

(* The screen of an exception shows under each label the register that the  *)
(* program (or the kernel) was interrupted with, its error code or 0, and   *)
(* the number, the code and the eip as the stack; esp and ss are those of   *)
(* the handler (isr.asm, lines 36-141; idt.c, lines 180-271).  Page faults  *)
(* are PageFaultShown's.                                                    *)
ExceptionShown ==
    LET code == IF entry.vector \in ErrorCodes THEN entry.error ELSE <<"number", 0>>
    IN  status = "stopped" /\ entry.vector # 14 =>
            /\ screen.title = <<"number", entry.vector>>
            /\ \A r \in Registers \ {"esp", "ss"} : screen.shown[r] = entry.regs[r]
            /\ screen.shown.err = code
            /\ screen.stack = <<<<"number", entry.vector>>, code, entry.regs.eip>>

(* The copy of a viewport faults only for the last bytes of the address     *)
(* space, where the sum of the check wraps, and there the limit of the      *)
(* segment stops it before any page is looked for (tasks.c, line 88).       *)
DrawServed ==
    viewport # 0 /\ status # "copying" =>
        viewport + Sizeof.row >= WORD /\ entry.vector = 13 /\ y = 0

(* idt.c, line 118: the title of a page fault.  kernel_exception is called  *)
(* without the number and the registers it reads (isr.asm, line 161), and   *)
(* takes the number from beyond the stack.                                  *)
PageFaultShown ==
    status = "stopped" /\ entry.vector = 14 => screen.title = <<"number", 14>>
==============================================================================
