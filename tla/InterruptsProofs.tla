-------------------------- MODULE InterruptsProofs --------------------------
(***************************************************************************)
(* The system call that draws, for every size of the address space, every  *)
(* position of the task's pages and every pointer; and, for every set of   *)
(* vectors that tasks ask for, what the handlers do with the registers and *)
(* the stack, and what they show of them.                                  *)
(***************************************************************************)
EXTENDS Interrupts, SequenceTheorems, TLAPS

(* The cells of the first n rows of the window of the task. *)
Rows(n) == {[row |-> Start(current_task).y + i, col |-> Start(current_task).x + x] :
               i \in 0 .. n - 1, x \in 0 .. TASK_VIEWPORT_WIDTH - 1}

(* The end of the first row is beyond the address space. *)
Wraps == viewport + Sizeof.row >= WORD

(* A call that copies was made by a task with a pointer that the check      *)
(* accepts; one that does not copy any more has met the end of the segment. *)
CallInv ==
    viewport # 0 =>
        /\ current_task \in TaskIds
        /\ viewport >= TASK_CODE_VIRTUAL /\ viewport < WORD
        /\ \/ status = "copying" /\ EndsInTask(viewport) /\ (y > 0 => ~Wraps)
           \/ status \in {"handler", "stopped"} /\ entry.vector = 13 /\ Wraps /\ y = 0

DrawInv ==
    /\ current_task \in TaskIds \cup {Idle}
    /\ viewport \in Nat /\ y \in 0 .. TASK_VIEWPORT_HEIGHT
    /\ drawn = Rows(y)
    /\ status = "program" => viewport = 0
    /\ status = "copying" => viewport # 0
    /\ status = "handler" /\ entry.vector = 88 => current_task \in TaskIds
    /\ CallInv

-----------------------------------------------------------------------------
(* Arithmetic of addresses: a sum below WORD does not wrap.                 *)
LEMMA NoWrap ==
    ASSUME NEW a \in Nat, a < WORD
    PROVE  a % WORD = a
<1> QED BY AddressAssumption, SMT

(* A sum that wraps lands among the first bytes of the address space.      *)
LEMMA WrapsOnce ==
    ASSUME NEW a \in Nat, a < WORD, a + Sizeof.row >= WORD
    PROVE  ~(a % WORD \in TASK_CODE_VIRTUAL .. TASK_SHARED_PAGE + PAGE_SIZE - 1)
           /\ a % WORD > FLAT_SEGM_SIZE - 1
<1>1. a % WORD = a
  BY NoWrap
<1> QED BY <1>1, AddressAssumption, InterruptAssumption DEF Sizeof, TASK_VIEWPORT_WIDTH

(* Every row of an accepted viewport that does not wrap can be read. *)
LEMMA AcceptedReadable ==
    ASSUME NEW a \in Nat, a >= TASK_CODE_VIRTUAL, a < WORD, EndsInTask(a),
           a + Sizeof.row < WORD,
           NEW n \in 0 .. TASK_VIEWPORT_HEIGHT - 1
    PROVE  Mapped(Row(a, n))
<1>1. a + 76 < TASK_SHARED_PAGE
  <2>1. a + 76 \in Nat /\ a + 76 < WORD
    BY DEF Sizeof, TASK_VIEWPORT_WIDTH
  <2>2. (a + 76) % WORD = a + 76
    BY <2>1, NoWrap
  <2> QED BY <2>2 DEF EndsInTask, Sizeof, TASK_VIEWPORT_WIDTH
<1>2. ASSUME NEW b \in 0 .. 75
      PROVE  (a + n * 76 + b) % WORD \in TASK_CODE_VIRTUAL .. TASK_SHARED_PAGE + PAGE_SIZE - 1
  <2>1. /\ a + n * 76 + b \in Nat
        /\ a + n * 76 + b >= TASK_CODE_VIRTUAL
        /\ a + n * 76 + b < TASK_SHARED_PAGE + PAGE_SIZE
    BY <1>1, AddressAssumption DEF Sizeof, TASK_VIEWPORT_WIDTH, TASK_VIEWPORT_HEIGHT
  <2>2. (a + n * 76 + b) % WORD = a + n * 76 + b
    BY <2>1, NoWrap, AddressAssumption
  <2> QED BY <2>1, <2>2, AddressAssumption
<1> QED BY <1>2 DEF Mapped, Row, Sizeof, TASK_VIEWPORT_WIDTH

(* The first row of an accepted viewport that wraps begins beyond the       *)
(* segment, so that it cannot be read.                                      *)
LEMMA WrappedFaults ==
    ASSUME NEW a \in Nat, a < WORD, a + Sizeof.row >= WORD
    PROVE  ~Mapped(Row(a, 0)) /\ \E b \in Row(a, 0) : b > gdt["DATA_3"].limit
<1>1. a % WORD \in Row(a, 0)
  <2>1. a % WORD = (a + 0 * Sizeof.row + 0) % WORD
    BY DEF Sizeof, TASK_VIEWPORT_WIDTH
  <2> QED BY <2>1 DEF Row, Sizeof, TASK_VIEWPORT_WIDTH
<1>2. gdt["DATA_3"].limit = FLAT_SEGM_SIZE - 1
  BY DEF gdt
<1> QED BY <1>1, <1>2, WrapsOnce DEF Mapped

-----------------------------------------------------------------------------
(* What the steps do to the copy. *)

(* Entering a handler leaves a copy alone, and is through the gate of the   *)
(* vector or through that of the protection fault.                          *)
LEMMA RaiseLeaves ==
    ASSUME NEW n, NEW kind, Raise(n, kind)
    PROVE  /\ status' = "handler" /\ entry'.vector \in {n, 13}
           /\ UNCHANGED <<current_task, viewport, y, drawn>>
  BY DEF Raise, draw_vars

(* Leaving a handler keeps the program and what interrupted it. *)
LEMMA ResumeLeaves ==
    ASSUME NEW m, Resume(m)
    PROVE  status' = "program" /\ UNCHANGED <<entry, current_task>>
  BY DEF Resume

(* The screen of an exception leaves a copy as far as it got. *)
LEMMA StopLeaves ==
    ASSUME NEW shows, NEW m, Stop(shows, m)
    PROVE  status' = "stopped" /\ UNCHANGED <<entry, current_task, viewport, y, drawn>>
  BY DEF Stop, draw_vars

(* A program is interrupted: nothing is being copied. *)
LEMMA EntryKeeps ==
    ASSUME DrawInv, status = "program", NEW n, NEW kind, Raise(n, kind),
           n = 88 => current_task # Idle
    PROVE  DrawInv'
  BY RaiseLeaves DEF DrawInv, CallInv, Rows

(* A handler without a copy ends. *)
LEMMA ResumeKeeps ==
    ASSUME DrawInv, status = "handler", entry.vector # 13, NEW m, Resume(m),
           UNCHANGED <<viewport, y, drawn>>
    PROVE  DrawInv'
  BY ResumeLeaves DEF DrawInv, CallInv, Rows

(* An exception stops everything, also in the middle of a copy. *)
LEMMA StopKeeps ==
    ASSUME DrawInv, status = "handler", NEW shows, NEW m, Stop(shows, m)
    PROVE  DrawInv'
  BY StopLeaves DEF DrawInv, CallInv, Rows, Wraps

(* The copy has one more row. *)
LEMMA RowAdded ==
    ASSUME NEW n \in 0 .. TASK_VIEWPORT_HEIGHT - 1
    PROVE  Rows(n + 1) = Rows(n) \cup {[row |-> Start(current_task).y + n,
                                       col |-> Start(current_task).x + x] :
                                          x \in 0 .. TASK_VIEWPORT_WIDTH - 1}
<1>1. 0 .. (n + 1) - 1 = (0 .. n - 1) \cup {n}
  BY DEF TASK_VIEWPORT_HEIGHT
<1> QED BY <1>1 DEF Rows

(* The row that is copied shows that the viewport does not wrap. *)
LEMMA CopyKeeps ==
    ASSUME DrawInv, isr88_copy
    PROVE  DrawInv'
<1>1. /\ y \in 0 .. TASK_VIEWPORT_HEIGHT - 1 /\ y' = y + 1
      /\ UNCHANGED <<status, entry, current_task, viewport>>
  BY DEF isr88_copy, Copying, CopyRow, DrawInv, TASK_VIEWPORT_HEIGHT
<1>2. drawn' = Rows(y)'
  <2>1. drawn' = Rows(y + 1)
    BY <1>1, RowAdded DEF isr88_copy, CopyRow, DrawInv
  <2> QED BY <2>1, <1>1 DEF Rows
<1>3. ~Wraps
  <2>1. CASE y = 0
    BY <2>1, WrappedFaults DEF isr88_copy, Copying, RowReadable, DrawInv, CallInv, Wraps
  <2>2. CASE y # 0
    BY <2>2, <1>1 DEF isr88_copy, Copying, DrawInv, CallInv, TASK_VIEWPORT_HEIGHT
  <2> QED BY <2>1, <2>2
<1>4. CallInv'
  BY <1>1, <1>3 DEF DrawInv, CallInv, Wraps, EndsInTask, isr88_copy, Copying
<1> QED BY <1>1, <1>2, <1>4 DEF DrawInv, TASK_VIEWPORT_HEIGHT, isr88_copy, Copying

(* A call begins its copy with a pointer that the check accepted. *)
LEMMA CallKeeps ==
    ASSUME DrawInv, isr88_call
    PROVE  DrawInv'
<1> PICK addr \in Addresses : Accepted(addr) /\ Accept(addr)
  BY DEF isr88_call
<1>1. /\ status' = "copying" /\ viewport' = addr /\ y' = 0 /\ drawn' = {}
      /\ current_task' = current_task /\ current_task \in TaskIds
  BY DEF isr88_call, Accept, Handles, DrawInv
<1>2. addr \in Nat /\ addr < WORD /\ addr # 0 /\ addr >= TASK_CODE_VIRTUAL
  BY AddressAssumption DEF Accepted
<1>3. Rows(0) = {}
  BY DEF Rows
<1>4. drawn' = Rows(y)'
  BY <1>1, <1>3 DEF Rows
<1>5. CallInv'
  BY <1>1, <1>2 DEF CallInv, Accepted, EndsInTask
<1> QED BY <1>1, <1>2, <1>4, <1>5 DEF DrawInv, TASK_VIEWPORT_HEIGHT

(* A row that cannot be read is the first of a viewport that wraps. *)
LEMMA FaultKeeps ==
    ASSUME DrawInv, isr88_fault
    PROVE  DrawInv'
<1>1. /\ status = "copying" /\ y \in 0 .. TASK_VIEWPORT_HEIGHT - 1 /\ viewport # 0
      /\ ~Mapped(Row(viewport, y))
  BY DEF isr88_fault, Copying, RowReadable, DrawInv, TASK_VIEWPORT_HEIGHT
<1>2. Wraps
  BY <1>1, AcceptedReadable, AddressAssumption
     DEF DrawInv, CallInv, Wraps, Sizeof, TASK_VIEWPORT_WIDTH
<1>3. y = 0
  BY <1>1, <1>2 DEF DrawInv, CallInv
<1>4. \E b \in Row(viewport, y) : b > gdt["DATA_3"].limit
  BY <1>1, <1>2, <1>3, WrappedFaults DEF DrawInv, CallInv, Wraps
<1>5. Raise(13, "exception")
  BY <1>4 DEF isr88_fault
<1>6. /\ status' = "handler" /\ entry'.vector = 13
      /\ UNCHANGED <<current_task, viewport, y, drawn>>
  BY <1>5, RaiseLeaves
<1> QED BY <1>1, <1>2, <1>3, <1>6 DEF DrawInv, CallInv, Rows, Wraps

(* A call that ends has nothing left to copy. *)
LEMMA ReturnKeeps ==
    ASSUME DrawInv, isr88_return
    PROVE  DrawInv'
<1>1. /\ status' = "program" /\ current_task' = current_task
      /\ viewport' = 0 /\ y' = 0 /\ drawn' = {}
  BY ResumeLeaves DEF isr88_return, isr88_fin, Return
<1> QED BY <1>1 DEF DrawInv, CallInv, Rows, TASK_VIEWPORT_HEIGHT

-----------------------------------------------------------------------------
(* The theorems *)

(* No program begins in the middle of a call. *)
LEMMA DrawInvInit == Init => DrawInv
  BY AddressAssumption DEF Init, NotDrawing, DrawInv, CallInv, Rows, TASK_VIEWPORT_HEIGHT

(* Every step of a program, of the processor and of the handlers keeps it.  *)
LEMMA DrawInvNext == DrawInv /\ [Next]_vars => DrawInv'
<1> SUFFICES ASSUME DrawInv, [Next]_vars
             PROVE  DrawInv'
  OBVIOUS
<1>1. CASE Interrupt
  BY <1>1, EntryKeeps DEF Interrupt
<1>2. CASE Abort
  BY <1>2, EntryKeeps DEF Abort
<1>3. CASE SoftwareInterrupt
  BY <1>3, EntryKeeps DEF SoftwareInterrupt
<1>4. CASE Exception
  BY <1>4, EntryKeeps DEF Exception
<1>5. CASE isr_exception
  BY <1>5, StopKeeps DEF isr_exception, Handles
<1>6. CASE isr14
  BY <1>6, StopKeeps, ResumeKeeps DEF isr14, Handles, draw_vars
<1>7. CASE isr32_33
  BY <1>7, ResumeKeeps DEF isr32_33, Handles, draw_vars
<1>8. CASE isr98
  BY <1>8, ResumeKeeps DEF isr98, Handles, draw_vars
<1>9. CASE isr88_ignored
  BY <1>9, ResumeKeeps DEF isr88_ignored, isr88_fin, Handles, draw_vars
<1>10. CASE isr88_call
  BY <1>10, CallKeeps
<1>11. CASE isr88_copy
  BY <1>11, CopyKeeps
<1>12. CASE isr88_fault
  BY <1>12, FaultKeeps
<1>13. CASE isr88_return
  BY <1>13, ReturnKeeps
<1>14. CASE Stopped \/ UNCHANGED vars
  BY <1>14 DEF Stopped, vars, draw_vars, DrawInv, CallInv, Rows, Wraps, EndsInTask
<1> QED
  BY <1>1, <1>2, <1>3, <1>4, <1>5, <1>6, <1>7, <1>8, <1>9, <1>10, <1>11, <1>12, <1>13,
     <1>14 DEF Next

(* The rows that a call copies are rows of the box of its task. *)
LEMMA RowsInContent ==
    ASSUME current_task \in TaskIds, NEW n \in 0 .. TASK_VIEWPORT_HEIGHT
    PROVE  /\ Rows(n) \subseteq Content[current_task]
           /\ n = TASK_VIEWPORT_HEIGHT => Rows(n) = Content[current_task]
<1>1. PICK r \in Nat, c \in Nat : Start(current_task).y = r /\ Start(current_task).x = c
  BY DEF Start
<1>2. Content[current_task] = [row : r .. r + 22, col : c .. c + 37]
  <2>1. Content[current_task] = Box(r, c, 23, 38)
    BY <1>1 DEF Content, Start, TaskIds
  <2>2. r + 23 - 1 = r + 22 /\ c + 38 - 1 = c + 37
    OBVIOUS
  <2> QED BY <2>1, <2>2 DEF Box
<1>3. ASSUME NEW cell \in Rows(n)
      PROVE  cell \in Content[current_task]
  <2>1. PICK i \in 0 .. n - 1, x \in 0 .. TASK_VIEWPORT_WIDTH - 1 :
            cell = [row |-> r + i, col |-> c + x]
    BY <1>1, <1>3 DEF Rows
  <2>2. r + i \in r .. r + 22 /\ c + x \in c .. c + 37
    BY DEF TASK_VIEWPORT_WIDTH, TASK_VIEWPORT_HEIGHT
  <2> QED BY <1>2, <2>1, <2>2, Zenon
<1>4. ASSUME n = TASK_VIEWPORT_HEIGHT, NEW cell \in Content[current_task]
      PROVE  cell \in Rows(n)
  <2>1. /\ cell = [row |-> cell.row, col |-> cell.col]
        /\ cell.row \in r .. r + 22 /\ cell.col \in c .. c + 37
    BY <1>2, <1>4
  <2>2. /\ cell.row - r \in 0 .. n - 1 /\ r + (cell.row - r) = cell.row
        /\ cell.col - c \in 0 .. TASK_VIEWPORT_WIDTH - 1 /\ c + (cell.col - c) = cell.col
    BY <1>4, <2>1 DEF TASK_VIEWPORT_WIDTH, TASK_VIEWPORT_HEIGHT
  <2> QED BY <1>1, <2>1, <2>2 DEF Rows
<1> QED BY <1>3, <1>4

(* A call writes in the box of the task that made it, and in the end all of *)
(* it (tasks.c, lines 93-117): for every pointer a task can pass.           *)
THEOREM WindowExactHolds == Spec => []WindowExact
<1>1. DrawInv => WindowExact
  BY RowsInContent DEF DrawInv, CallInv, WindowExact
<1> QED BY <1>1, DrawInvInit, DrawInvNext, PTL DEF Spec

(* A pointer that the check accepts is read without a fault, unless its     *)
(* first row reaches the end of the address space (tasks.c, line 88).       *)
THEOREM DrawServedHolds == Spec => []DrawServed
<1>1. DrawInv => DrawServed
  BY DEF DrawInv, CallInv, DrawServed, Wraps
<1> QED BY <1>1, DrawInvInit, DrawInvNext, PTL DEF Spec

-----------------------------------------------------------------------------
(* The instructions of the handlers, on any registers and any stack         *)

(* What the registers and the stack may hold.                               *)
Kinds == Registers \cup {"CODE_0", "CODE_3", "DATA_0", "DATA_3", "stack", "number", "isr",
                         "cause", "vector", "draw"}

Marks == {"program", "kernel", "fault", "frame", "sel"}

Words == Kinds \X (Marks \cup Nat)

Machines == [regs : [Registers -> Words], stack : Seq(Words)]

(* esp tells how much the stack holds. *)
Balanced(m) == m.regs.esp = <<"stack", Len(m.stack)>>

(* The words that the processor and the handlers make.                      *)
LEMMA WordForms ==
    /\ \A r \in Registers : <<r, "program">> \in Words /\ <<r, "kernel">> \in Words
    /\ \A s \in {"CODE_0", "CODE_3", "DATA_0", "DATA_3"} : Sel(s) \in Words
    /\ \A k \in {"stack", "number", "isr", "cause", "vector"}, n \in Nat : <<k, n>> \in Words
    /\ <<"cr2", "fault">> \in Words /\ <<"draw", "frame">> \in Words
<1>1. \A k \in Kinds, v \in Marks \cup Nat : <<k, v>> \in Words
  BY DEF Words
<1>2. /\ Registers \subseteq Kinds /\ "cr2" \in Kinds /\ "draw" \in Kinds
      /\ {"CODE_0", "CODE_3", "DATA_0", "DATA_3"} \subseteq Kinds
      /\ {"stack", "number", "isr", "cause", "vector"} \subseteq Kinds
  BY DEF Kinds, Registers
<1>3. /\ "program" \in Marks /\ "kernel" \in Marks /\ "fault" \in Marks
      /\ "frame" \in Marks /\ "sel" \in Marks
  BY DEF Marks
<1> QED BY <1>1, <1>2, <1>3, Zenon DEF Sel

(* What is pushed comes on top, and only esp changes.                       *)
LEMMA PushFacts ==
    ASSUME NEW m \in Machines, NEW words \in Seq(Words)
    PROVE  LET p == Push(m, words)
           IN  /\ p \in Machines /\ Balanced(p)
               /\ p.stack = words \o m.stack
               /\ \A r \in Registers \ {"esp"} : p.regs[r] = m.regs[r]
<1> DEFINE s == words \o m.stack
<1>1. m.stack \in Seq(Words) /\ m.regs \in [Registers -> Words]
  BY DEF Machines
<1>2. s \in Seq(Words) /\ Len(s) \in Nat
  BY <1>1, ConcatProperties, LenProperties
<1>3. <<"stack", Len(s)>> \in Words
  BY <1>2, WordForms
<1>4. Push(m, words) = [regs |-> [m.regs EXCEPT !.esp = <<"stack", Len(s)>>], stack |-> s]
  BY DEF Push
<1> HIDE DEF s
<1>5. "esp" \in Registers
  BY DEF Registers
<1>6. [m.regs EXCEPT !.esp = <<"stack", Len(s)>>] \in [Registers -> Words]
  BY <1>1, <1>3, <1>5
<1>7. Push(m, words) \in Machines
  <2>1. \A g \in [Registers -> Words], t \in Seq(Words) :
           [regs |-> g, stack |-> t] \in Machines
    BY DEF Machines
  <2> QED BY <1>2, <1>4, <1>6, <2>1
<1>8. Balanced(Push(m, words))
  BY <1>1, <1>4, <1>5 DEF Balanced
<1>9. Push(m, words).stack = words \o m.stack
  BY <1>4 DEF s
<1>10. \A r \in Registers \ {"esp"} : Push(m, words).regs[r] = m.regs[r]
  BY <1>1, <1>4
<1> QED BY <1>7, <1>8, <1>9, <1>10

(* The part of a sequence behind its first n elements.                      *)
LEMMA SubSeqBehind ==
    ASSUME NEW words \in Seq(Words), NEW rest \in Seq(Words)
    PROVE  LET s == words \o rest IN SubSeq(s, Len(words) + 1, Len(s)) = rest
<1> DEFINE s == words \o rest
           n == Len(words)
           k == Len(rest)
           t == SubSeq(s, n + 1, n + k)
<1>1. n \in Nat /\ k \in Nat
  BY LenProperties
<1>2. /\ s \in Seq(Words) /\ Len(s) = n + k
      /\ \A i \in 1 .. n + k : s[i] = IF i <= n THEN words[i] ELSE rest[i - n]
  BY ConcatProperties
<1>3. \A i \in 1 .. k : rest[i] \in Words
  BY ElementOfSeq
<1> HIDE DEF s, n, k
<1>4. \A i \in n + 1 .. n + k : s[i] = rest[i - n] /\ i - n \in 1 .. k
  BY <1>1, <1>2
<1>5. \A i \in n + 1 .. n + k : s[i] \in Words
  BY <1>3, <1>4
<1>6. /\ t \in Seq(Words)
      /\ Len(t) = IF n + 1 <= n + k THEN (n + k) - (n + 1) + 1 ELSE 0
      /\ \A i \in 1 .. (n + k) - (n + 1) + 1 : t[i] = s[n + 1 + i - 1]
  <2>1. n + 1 \in Int /\ n + k \in Int
    BY <1>1
  <2> QED BY <1>5, <2>1, SubSeqProperties
<1> HIDE DEF t
<1>7. Len(t) = k
  BY <1>1, <1>6
<1>8. \A i \in 1 .. k : t[i] = rest[i]
  <2>1. ASSUME NEW i \in 1 .. k PROVE t[i] = rest[i]
    <3>1. t[i] = s[n + i]
      <4>1. i \in 1 .. (n + k) - (n + 1) + 1 /\ n + 1 + i - 1 = n + i
        BY <1>1
      <4> QED BY <1>6, <4>1
    <3>2. n + i \in n + 1 .. n + k /\ (n + i) - n = i
      BY <1>1
    <3> QED BY <1>4, <3>1, <3>2
  <2> QED BY <2>1
<1>9. t = rest
  BY <1>6, <1>7, <1>8, SeqEqual DEF k
<1> QED BY <1>2, <1>9 DEF s, n, t

(* What is dropped leaves the rest of the stack.                            *)
LEMMA DropFacts ==
    ASSUME NEW m \in Machines, NEW words \in Seq(Words), NEW rest \in Seq(Words),
           m.stack = words \o rest
    PROVE  LET d == Drop(m, Len(words))
           IN  /\ d \in Machines /\ Balanced(d)
               /\ d.stack = rest
               /\ \A r \in Registers \ {"esp"} : d.regs[r] = m.regs[r]
<1> DEFINE c == [m EXCEPT !.stack = SubSeq(m.stack, Len(words) + 1, Len(m.stack))]
<1>1. SubSeq(m.stack, Len(words) + 1, Len(m.stack)) = rest
  BY SubSeqBehind
<1>2. c \in Machines /\ c.regs = m.regs /\ c.stack = rest
  BY <1>1 DEF Machines
<1>3. <<>> \in Seq(Words) /\ <<>> \o rest = rest
  BY EmptySeq, ConcatEmptySeq
<1>4. Drop(m, Len(words)) = Push(c, <<>>)
  BY DEF Drop
<1> HIDE DEF c
<1>5. /\ Push(c, <<>>) \in Machines /\ Balanced(Push(c, <<>>))
      /\ Push(c, <<>>).stack = <<>> \o c.stack
      /\ \A r \in Registers \ {"esp"} : Push(c, <<>>).regs[r] = c.regs[r]
  BY <1>2, <1>3, PushFacts
<1> QED BY <1>2, <1>3, <1>4, <1>5

(* The lists of registers have no register twice.                           *)
Distinct(names) == \A i, j \in 1 .. Len(names) : names[i] = names[j] => i = j

In(r, names) == \E k \in 1 .. Len(names) : names[k] = r

(* What the instructions push and pop: the eight general registers, the     *)
(* frame of an interrupt, and the stack pointer of the task.                *)
LEMMA NameLists ==
    /\ General \in Seq(Registers) /\ Len(General) = 8 /\ Distinct(General)
    /\ Frame \in Seq(Registers) /\ Len(Frame) = 3 /\ Distinct(Frame)
    /\ Outer \in Seq(Registers) /\ Len(Outer) = 2 /\ Distinct(Outer)
<1>1. General \in Seq(Registers) /\ Len(General) = 8
  BY DEF General, Registers
<1>2. Frame \in Seq(Registers) /\ Len(Frame) = 3
  BY DEF Frame, Registers
<1>3. Outer \in Seq(Registers) /\ Len(Outer) = 2
  BY DEF Outer, Registers
<1>4. Distinct(Frame) /\ Distinct(Outer)
  BY <1>2, <1>3 DEF Distinct, Frame, Outer
<1>5. Distinct(General)
  BY <1>1 DEF Distinct, General
<1> QED BY <1>1, <1>2, <1>3, <1>4, <1>5

(* The values of a list of registers.                                       *)
LEMMA ValuesFacts ==
    ASSUME NEW m \in Machines, NEW names \in Seq(Registers)
    PROVE  /\ Values(m, names) \in Seq(Words)
           /\ Len(Values(m, names)) = Len(names)
           /\ \A i \in 1 .. Len(names) : Values(m, names)[i] = m.regs[names[i]]
<1> DEFINE v == Values(m, names)
<1>1. Len(names) \in Nat /\ \A i \in 1 .. Len(names) : names[i] \in Registers
  BY LenProperties, ElementOfSeq
<1>2. \A i \in 1 .. Len(names) : m.regs[names[i]] \in Words
  BY <1>1 DEF Machines
<1>3. v = [i \in 1 .. Len(names) |-> m.regs[names[i]]]
  BY DEF Values
<1> QED BY <1>1, <1>2, <1>3

(* Loading a list of registers from the top of the stack.                   *)
LEMMA LoadFacts ==
    ASSUME NEW m \in Machines, NEW names \in Seq(Registers), Distinct(names),
           Len(names) <= Len(m.stack)
    PROVE  LET l == Load(m, names)
           IN  /\ l \in Machines /\ l.stack = m.stack
               /\ \A k \in 1 .. Len(names) : l.regs[names[k]] = m.stack[k]
               /\ \A r \in Registers : ~In(r, names) => l.regs[r] = m.regs[r]
<1> DEFINE w(r) == IF \E k \in 1 .. Len(names) : names[k] = r
                   THEN m.stack[CHOOSE k \in 1 .. Len(names) : names[k] = r]
                   ELSE m.regs[r]
           l == Load(m, names)
<1>1. /\ Len(names) \in Nat /\ Len(m.stack) \in Nat
      /\ \A i \in 1 .. Len(names) : names[i] \in Registers
      /\ \A i \in 1 .. Len(m.stack) : m.stack[i] \in Words
      /\ m.regs \in [Registers -> Words] /\ m.stack \in Seq(Words)
  BY LenProperties, ElementOfSeq DEF Machines
<1>2. ASSUME NEW k \in 1 .. Len(names) PROVE w(names[k]) = m.stack[k]
  <2>1. (CHOOSE j \in 1 .. Len(names) : names[j] = names[k]) = k
    BY DEF Distinct
  <2> QED BY <2>1
<1>3. ASSUME NEW r \in Registers, ~In(r, names) PROVE w(r) = m.regs[r]
  BY <1>3 DEF In
<1>4. ASSUME NEW r \in Registers PROVE w(r) \in Words
  <2>1. CASE In(r, names)
    <3>1. PICK k \in 1 .. Len(names) : r = names[k]
      BY <2>1 DEF In
    <3>2. w(r) = m.stack[k] /\ k \in 1 .. Len(m.stack)
      BY <1>1, <1>2, <3>1
    <3> QED BY <1>1, <3>2
  <2>2. CASE ~In(r, names)
    BY <1>1, <1>3, <2>2
  <2> QED BY <2>1, <2>2
<1>5. l = [m EXCEPT !.regs = [r \in Registers |-> w(r)]]
  BY DEF Load
<1> HIDE DEF w
<1>6. [r \in Registers |-> w(r)] \in [Registers -> Words]
  BY <1>4
<1>7. l \in Machines /\ l.stack = m.stack /\ l.regs = [r \in Registers |-> w(r)]
  BY <1>5, <1>6 DEF Machines
<1> HIDE DEF l
<1>8. \A k \in 1 .. Len(names) : l.regs[names[k]] = m.stack[k]
  BY <1>1, <1>2, <1>7
<1>9. \A r \in Registers : ~In(r, names) => l.regs[r] = m.regs[r]
  BY <1>3, <1>7
<1> QED BY <1>7, <1>8, <1>9 DEF l

(* Two machines are the same if their registers and their stacks are.       *)
LEMMA SameMachine ==
    ASSUME NEW m \in Machines, NEW n \in Machines, m.stack = n.stack,
           \A r \in Registers : m.regs[r] = n.regs[r]
    PROVE  m = n
<1>1. m.regs = n.regs
  BY DEF Machines
<1> QED BY <1>1 DEF Machines

(* A C function keeps the stack and the registers that are not general.     *)
LEMMA CallFacts ==
    ASSUME NEW m \in Machines
    PROVE  LET c == call(m)
           IN  /\ c \in Machines /\ c.stack = m.stack
               /\ \A r \in Registers : r = "esp" \/ ~In(r, General) => c.regs[r] = m.regs[r]
<1> DEFINE w(r) == IF r # "esp" /\ \E k \in 1 .. 8 : General[k] = r
                   THEN <<r, "kernel">> ELSE m.regs[r]
           c == call(m)
<1>1. \A r \in Registers : w(r) \in Words
  BY WordForms DEF Machines
<1>2. \A r \in Registers : r = "esp" \/ ~In(r, General) => w(r) = m.regs[r]
  BY NameLists DEF In
<1>3. c = [m EXCEPT !.regs = [r \in Registers |-> w(r)]]
  BY DEF call
<1> HIDE DEF w
<1>4. [r \in Registers |-> w(r)] \in [Registers -> Words]
  BY <1>1
<1>5. c \in Machines /\ c.stack = m.stack /\ c.regs = [r \in Registers |-> w(r)]
  BY <1>3, <1>4 DEF Machines
<1> HIDE DEF c
<1>6. \A r \in Registers : r = "esp" \/ ~In(r, General) => c.regs[r] = m.regs[r]
  BY <1>2, <1>5
<1> QED BY <1>5, <1>6 DEF c

(* The words on top of a stack.                                             *)
LEMMA TopOfStack ==
    ASSUME NEW words \in Seq(Words), NEW rest \in Seq(Words)
    PROVE  /\ Len(words) \in Nat /\ Len(rest) \in Nat
           /\ Len(words \o rest) = Len(words) + Len(rest)
           /\ \A k \in 1 .. Len(words) : (words \o rest)[k] = words[k]
<1>1. Len(words) \in Nat /\ Len(rest) \in Nat
  BY LenProperties
<1>2. /\ Len(words \o rest) = Len(words) + Len(rest)
      /\ \A k \in 1 .. Len(words) + Len(rest) :
            (words \o rest)[k] = IF k <= Len(words) THEN words[k] ELSE rest[k - Len(words)]
  BY ConcatProperties
<1> QED BY <1>1, <1>2

(* popad gives back what pushad kept, whatever was done to the general      *)
(* registers in between.                                                    *)
LEMMA PopadRestores ==
    ASSUME NEW m \in Machines, Balanced(m), NEW x \in Machines,
           x.stack = pushad(m).stack,
           \A r \in Registers : ~In(r, General) => x.regs[r] = m.regs[r]
    PROVE  popad(x) = m
<1> DEFINE v == Values(m, General)
           l == Load(x, General)
<1>1. /\ v \in Seq(Words) /\ Len(v) = 8 /\ m.stack \in Seq(Words)
      /\ \A k \in 1 .. 8 : v[k] = m.regs[General[k]]
  <2>1. /\ v \in Seq(Words) /\ Len(v) = Len(General)
        /\ \A k \in 1 .. Len(General) : v[k] = m.regs[General[k]]
    BY NameLists, ValuesFacts
  <2>2. m.stack \in Seq(Words)
    BY DEF Machines
  <2> HIDE DEF v
  <2> QED BY <2>1, <2>2, NameLists
<1>2. x.stack = v \o m.stack
  BY <1>1, PushFacts DEF pushad
<1> HIDE DEF v
<1>3. Len(x.stack) >= 8 /\ \A k \in 1 .. 8 : x.stack[k] = v[k]
  <2>1. /\ Len(m.stack) \in Nat /\ Len(v \o m.stack) = Len(v) + Len(m.stack)
        /\ \A k \in 1 .. Len(v) : (v \o m.stack)[k] = v[k]
    BY <1>1, TopOfStack
  <2> QED BY <1>1, <1>2, <2>1
<1>4. /\ l \in Machines /\ l.stack = x.stack
      /\ \A k \in 1 .. 8 : l.regs[General[k]] = x.stack[k]
      /\ \A r \in Registers : ~In(r, General) => l.regs[r] = x.regs[r]
  <2>1. /\ l \in Machines /\ l.stack = x.stack
        /\ \A k \in 1 .. Len(General) : l.regs[General[k]] = x.stack[k]
        /\ \A r \in Registers : ~In(r, General) => l.regs[r] = x.regs[r]
    BY <1>3, LoadFacts, NameLists
  <2> HIDE DEF l
  <2> QED BY <2>1, NameLists
<1> HIDE DEF l
<1>5. \A r \in Registers : l.regs[r] = m.regs[r]
  <2>1. ASSUME NEW r \in Registers, In(r, General) PROVE l.regs[r] = m.regs[r]
    <3>1. PICK k \in 1 .. 8 : General[k] = r
      BY <2>1, NameLists DEF In
    <3> QED BY <1>1, <1>3, <1>4, <3>1
  <2> QED BY <1>4, <2>1
<1>6. /\ Drop(l, 8) \in Machines /\ Balanced(Drop(l, 8)) /\ Drop(l, 8).stack = m.stack
      /\ \A r \in Registers \ {"esp"} : Drop(l, 8).regs[r] = l.regs[r]
  <2>1. /\ Drop(l, Len(v)) \in Machines /\ Balanced(Drop(l, Len(v)))
        /\ Drop(l, Len(v)).stack = m.stack
        /\ \A r \in Registers \ {"esp"} : Drop(l, Len(v)).regs[r] = l.regs[r]
    <3>1. l.stack = v \o m.stack
      BY <1>2, <1>4
    <3> QED BY <1>1, <1>4, <3>1, DropFacts
  <2> QED BY <1>1, <2>1
<1>7. \A r \in Registers : Drop(l, 8).regs[r] = m.regs[r]
  BY <1>5, <1>6 DEF Balanced
<1>8. Drop(l, 8) = m
  BY <1>6, <1>7, SameMachine
<1> QED BY <1>8 DEF popad, l

(* The handlers of the clock and of the keyboard keep all registers.        *)
LEMMA ServedSame ==
    ASSUME NEW m \in Machines, Balanced(m)
    PROVE  Served(m) = m
<1>1. Values(m, General) \in Seq(Words)
  BY ValuesFacts, NameLists
<1>2. /\ pushad(m) \in Machines
      /\ \A r \in Registers \ {"esp"} : pushad(m).regs[r] = m.regs[r]
  BY <1>1, PushFacts DEF pushad
<1>3. In("esp", General)
  BY NameLists DEF In, General
<1>4. /\ call(pushad(m)) \in Machines /\ call(pushad(m)).stack = pushad(m).stack
      /\ \A r \in Registers : ~In(r, General) => call(pushad(m)).regs[r] = m.regs[r]
  BY <1>2, <1>3, CallFacts
<1> QED BY <1>4, PopadRestores DEF Served

(* The privilege levels of the segments.                                    *)
LEMMA Levels ==
    /\ Level(Sel("CODE_0")) = 0 /\ Level(Sel("CODE_3")) = 3
    /\ \A n \in DOMAIN idt_init : idt_init[n].segsel = Sel("CODE_0")
BY DEF Level, gdt, Sel, idt_init

(* iret gives back what the processor kept: to a task, also its stack.      *)
LEMMA IretRestores ==
    ASSUME NEW e \in Machines, e.regs.cs \in {Sel("CODE_0"), Sel("CODE_3")},
           NEW h \in Machines, h.regs.cs = Sel("CODE_0"),
           h.stack = Values(e, Frame)
                       \o IF e.regs.cs = Sel("CODE_3") THEN Values(e, Outer) ELSE <<>>
    PROVE  LET i == iret(h)
           IN  /\ i \in Machines /\ i.stack = <<>>
               /\ \A r \in {"eip", "cs", "eflags"} : i.regs[r] = e.regs[r]
               /\ \A r \in Registers \ {"eip", "cs", "eflags", "esp", "ss"} :
                     i.regs[r] = h.regs[r]
               /\ IF e.regs.cs = Sel("CODE_3")
                  THEN i.regs["esp"] = e.regs["esp"] /\ i.regs["ss"] = e.regs["ss"]
                  ELSE i.regs["esp"] = <<"stack", 0>> /\ i.regs["ss"] = h.regs["ss"]
<1> DEFINE f == Values(e, Frame)
           o == IF e.regs.cs = Sel("CODE_3") THEN Values(e, Outer) ELSE <<>>
           inner == Load(h, Frame)
           back == Drop(inner, 3)
           out == Load(back, Outer)
<1>1. /\ f \in Seq(Words) /\ Len(f) = 3 /\ \A k \in 1 .. 3 : f[k] = e.regs[Frame[k]]
      /\ o \in Seq(Words) /\ Len(o) \in Nat
  <2>1. /\ f \in Seq(Words) /\ Len(f) = Len(Frame)
        /\ \A k \in 1 .. Len(Frame) : f[k] = e.regs[Frame[k]]
    BY NameLists, ValuesFacts
  <2>2. Values(e, Outer) \in Seq(Words) /\ <<>> \in Seq(Words)
    BY NameLists, ValuesFacts, EmptySeq
  <2>3. o \in Seq(Words)
    BY <2>2
  <2> HIDE DEF f, o
  <2>4. Len(o) \in Nat
    BY <2>3, LenProperties
  <2> QED BY <2>1, <2>3, <2>4, NameLists
<1>2. /\ h.stack = f \o o /\ Len(h.stack) = 3 + Len(o)
      /\ \A k \in 1 .. 3 : h.stack[k] = f[k]
  <2>1. h.stack = f \o o
    OBVIOUS
  <2> HIDE DEF f, o
  <2>2. /\ Len(f \o o) = Len(f) + Len(o)
        /\ \A k \in 1 .. Len(f) : (f \o o)[k] = f[k]
    BY <1>1, TopOfStack
  <2> QED BY <1>1, <2>1, <2>2
<1> HIDE DEF f, o
<1>3. /\ inner \in Machines /\ inner.stack = f \o o
      /\ \A k \in 1 .. 3 : inner.regs[Frame[k]] = e.regs[Frame[k]]
      /\ \A r \in Registers : ~In(r, Frame) => inner.regs[r] = h.regs[r]
  <2>1. Len(Frame) <= Len(h.stack)
    BY <1>1, <1>2, NameLists
  <2>2. /\ inner \in Machines /\ inner.stack = h.stack
        /\ \A k \in 1 .. Len(Frame) : inner.regs[Frame[k]] = h.stack[k]
        /\ \A r \in Registers : ~In(r, Frame) => inner.regs[r] = h.regs[r]
    BY <2>1, LoadFacts, NameLists
  <2>3. Len(Frame) = 3
    BY NameLists
  <2> HIDE DEF inner
  <2>4. ASSUME NEW k \in 1 .. 3 PROVE inner.regs[Frame[k]] = e.regs[Frame[k]]
    <3>1. inner.regs[Frame[k]] = h.stack[k]
      BY <2>2, <2>3
    <3>2. h.stack[k] = f[k] /\ f[k] = e.regs[Frame[k]]
      BY <1>1, <1>2
    <3> QED BY <3>1, <3>2
  <2> QED BY <1>2, <2>2, <2>4
<1>4. /\ \A r \in {"eip", "cs", "eflags"} : inner.regs[r] = e.regs[r]
      /\ \A r \in Registers \ {"eip", "cs", "eflags"} : inner.regs[r] = h.regs[r]
  <2>1. Frame[1] = "eip" /\ Frame[2] = "cs" /\ Frame[3] = "eflags"
    BY DEF Frame
  <2>2. \A r \in Registers \ {"eip", "cs", "eflags"} : ~In(r, Frame)
    BY <2>1, NameLists DEF In
  <2> HIDE DEF inner
  <2> QED BY <1>3, <2>1, <2>2
<1> HIDE DEF inner
<1>5. /\ back \in Machines /\ Balanced(back) /\ back.stack = o
      /\ \A r \in Registers \ {"esp"} : back.regs[r] = inner.regs[r]
  <2>1. /\ Drop(inner, Len(f)) \in Machines /\ Balanced(Drop(inner, Len(f)))
        /\ Drop(inner, Len(f)).stack = o
        /\ \A r \in Registers \ {"esp"} : Drop(inner, Len(f)).regs[r] = inner.regs[r]
    BY <1>1, <1>3, DropFacts
  <2> QED BY <1>1, <2>1
<1>6. Level(inner.regs.cs) > Level(h.regs.cs) <=> e.regs.cs = Sel("CODE_3")
  BY <1>4, Levels
<1> HIDE DEF back
<1>7. CASE e.regs.cs = Sel("CODE_3")
  <2>1. /\ o = Values(e, Outer) /\ Len(o) = 2
        /\ \A k \in 1 .. 2 : o[k] = e.regs[Outer[k]]
    <3>1. o = Values(e, Outer)
      BY <1>7 DEF o
    <3>2. /\ Len(Values(e, Outer)) = Len(Outer)
          /\ \A k \in 1 .. Len(Outer) : Values(e, Outer)[k] = e.regs[Outer[k]]
      BY ValuesFacts, NameLists
    <3> QED BY <3>1, <3>2, NameLists
  <2>2. /\ out \in Machines /\ out.stack = o
        /\ \A k \in 1 .. 2 : out.regs[Outer[k]] = e.regs[Outer[k]]
        /\ \A r \in Registers : ~In(r, Outer) => out.regs[r] = back.regs[r]
    <3>1. Len(Outer) <= Len(back.stack)
      BY <1>5, <2>1, NameLists
    <3>2. /\ out \in Machines /\ out.stack = back.stack
          /\ \A k \in 1 .. Len(Outer) : out.regs[Outer[k]] = back.stack[k]
          /\ \A r \in Registers : ~In(r, Outer) => out.regs[r] = back.regs[r]
      BY <1>5, <3>1, LoadFacts, NameLists
    <3> HIDE DEF out
    <3> QED BY <1>5, <2>1, <3>2, NameLists
  <2>3. /\ out.regs["esp"] = e.regs["esp"] /\ out.regs["ss"] = e.regs["ss"]
        /\ \A r \in Registers \ {"esp", "ss"} : out.regs[r] = back.regs[r]
    <3>1. Outer[1] = "esp" /\ Outer[2] = "ss"
      BY DEF Outer
    <3>2. \A r \in Registers \ {"esp", "ss"} : ~In(r, Outer)
      BY <3>1, NameLists DEF In
    <3> HIDE DEF out
    <3> QED BY <2>2, <3>1, <3>2
  <2>4. Drop(back, 2).stack = <<>>
    <3>1. <<>> \in Seq(Words) /\ o \o <<>> = o
      BY <1>1, EmptySeq, ConcatEmptySeq
    <3>2. back.stack = o \o <<>>
      BY <1>5, <3>1
    <3>3. Drop(back, Len(o)).stack = <<>>
      BY <1>1, <1>5, <3>1, <3>2, DropFacts
    <3> QED BY <2>1, <3>3
  <2>5. iret(h) = [out EXCEPT !.stack = <<>>]
    BY <1>6, <1>7, <2>4 DEF iret, inner, back
  <2> HIDE DEF out
  <2>6. iret(h) \in Machines /\ iret(h).stack = <<>> /\ iret(h).regs = out.regs
    BY <2>2, <2>5, EmptySeq DEF Machines
  <2>7. /\ \A r \in {"eip", "cs", "eflags"} : out.regs[r] = e.regs[r]
        /\ \A r \in Registers \ {"eip", "cs", "eflags", "esp", "ss"} :
              out.regs[r] = h.regs[r]
    BY <1>4, <1>5, <2>3 DEF Registers
  <2> QED BY <1>7, <2>3, <2>6, <2>7
<1>8. CASE e.regs.cs # Sel("CODE_3")
  <2>1. iret(h) = back
    BY <1>6, <1>8 DEF iret, inner, back
  <2>2. o = <<>>
    BY <1>8 DEF o
  <2>3. back.regs["esp"] = <<"stack", 0>>
    BY <1>5, <2>2, EmptySeq DEF Balanced
  <2> QED BY <1>4, <1>5, <1>8, <2>1, <2>2, <2>3 DEF Registers
<1> QED BY <1>7, <1>8

-----------------------------------------------------------------------------
(* The screen of an exception                                               *)

(* The values of registers of v, pushed on the stack of m.                  *)
LEMMA PushValues ==
    ASSUME NEW m \in Machines, NEW v \in Machines, NEW names \in Seq(Registers)
    PROVE  LET p == Push(m, Values(v, names))
               n == Len(names)
           IN  /\ p \in Machines /\ Len(m.stack) \in Nat
               /\ p.regs["esp"] = <<"stack", n + Len(m.stack)>>
               /\ Len(p.stack) = n + Len(m.stack)
               /\ \A r \in Registers \ {"esp"} : p.regs[r] = m.regs[r]
               /\ \A k \in 1 .. n : p.stack[k] = v.regs[names[k]]
               /\ \A k \in 1 .. Len(m.stack) : p.stack[n + k] = m.stack[k]
<1> DEFINE w == Values(v, names)
           p == Push(m, w)
           n == Len(names)
<1>0. n \in Nat
  BY LenProperties
<1>1. /\ w \in Seq(Words) /\ Len(w) = n
      /\ \A k \in 1 .. n : w[k] = v.regs[names[k]]
  BY ValuesFacts
<1> HIDE DEF n
<1>2. m.stack \in Seq(Words) /\ Len(m.stack) \in Nat
  BY LenProperties DEF Machines
<1> HIDE DEF w
<1>3. /\ p \in Machines /\ Balanced(p) /\ p.stack = w \o m.stack
      /\ \A r \in Registers \ {"esp"} : p.regs[r] = m.regs[r]
  BY <1>1, PushFacts
<1> HIDE DEF p
<1>4. /\ Len(w \o m.stack) = Len(w) + Len(m.stack)
      /\ \A i \in 1 .. Len(w) + Len(m.stack) :
            (w \o m.stack)[i] = IF i <= Len(w) THEN w[i] ELSE m.stack[i - Len(w)]
  BY <1>1, <1>2, ConcatProperties
<1>5. \A k \in 1 .. n : p.stack[k] = w[k]
  BY <1>0, <1>1, <1>2, <1>3, <1>4
<1>6. ASSUME NEW k \in 1 .. Len(m.stack) PROVE p.stack[n + k] = m.stack[k]
  <2>1. n + k \in 1 .. n + Len(m.stack) /\ ~(n + k <= n) /\ (n + k) - n = k
    BY <1>0, <1>2
  <2> QED BY <1>1, <1>3, <1>4, <2>1
<1>7. Len(p.stack) = n + Len(m.stack) /\ p.regs["esp"] = <<"stack", n + Len(m.stack)>>
  BY <1>1, <1>3, <1>4 DEF Balanced
<1> QED BY <1>1, <1>2, <1>3, <1>5, <1>6, <1>7 DEF p, w, n

(* One word, pushed.                                                        *)
LEMMA PushWord ==
    ASSUME NEW m \in Machines, NEW w \in Words
    PROVE  LET p == Push(m, <<w>>)
           IN  /\ p \in Machines /\ Len(m.stack) \in Nat
               /\ Len(p.stack) = 1 + Len(m.stack) /\ Balanced(p)
               /\ \A r \in Registers \ {"esp"} : p.regs[r] = m.regs[r]
               /\ p.stack[1] = w
               /\ \A k \in 1 .. Len(m.stack) : p.stack[1 + k] = m.stack[k]
<1> DEFINE p == Push(m, <<w>>)
<1>1. <<w>> \in Seq(Words) /\ Len(<<w>>) = 1 /\ <<w>>[1] = w
  OBVIOUS
<1>2. m.stack \in Seq(Words) /\ Len(m.stack) \in Nat
  BY LenProperties DEF Machines
<1>3. /\ p \in Machines /\ Balanced(p) /\ p.stack = <<w>> \o m.stack
      /\ \A r \in Registers \ {"esp"} : p.regs[r] = m.regs[r]
  BY <1>1, PushFacts
<1> HIDE DEF p
<1>4. /\ Len(<<w>> \o m.stack) = Len(<<w>>) + Len(m.stack)
      /\ \A i \in 1 .. Len(<<w>>) + Len(m.stack) :
            (<<w>> \o m.stack)[i] = IF i <= Len(<<w>>) THEN <<w>>[i]
                                    ELSE m.stack[i - Len(<<w>>)]
  BY <1>1, <1>2, ConcatProperties
<1>5. p.stack[1] = w /\ Len(p.stack) = 1 + Len(m.stack)
  BY <1>1, <1>2, <1>3, <1>4
<1>6. ASSUME NEW k \in 1 .. Len(m.stack) PROVE p.stack[1 + k] = m.stack[k]
  <2>1. 1 + k \in 1 .. 1 + Len(m.stack) /\ ~(1 + k <= 1) /\ (1 + k) - 1 = k
    BY <1>2
  <2> QED BY <1>1, <1>3, <1>4, <2>1
<1> QED BY <1>2, <1>3, <1>5, <1>6 DEF p

Segments == <<"cs", "ds", "es", "fs", "gs", "ss">>

Controls == <<"cr0", "cr2", "cr3", "cr4">>

(* What ISRc leaves on the stack, from the top: the control registers, the  *)
(* segments, what pushad pushes, the number, and what was there before.     *)
LEMMA IsrcStack ==
    ASSUME NEW m \in Machines, NEW n \in Nat
    PROVE  LET t == ISRc(m, n).stack
           IN  /\ ISRc(m, n) \in Machines /\ Len(m.stack) \in Nat
               /\ Len(t) = 19 + Len(m.stack)
               /\ \A k \in 1 .. 4 : t[k] = m.regs[Controls[k]]
               /\ \A k \in 1 .. 6 : t[4 + k] = m.regs[Segments[k]]
               /\ \A k \in 1 .. 8 \ {4} : t[10 + k] = m.regs[General[k]]
               /\ t[14] = <<"stack", 1 + Len(m.stack)>>
               /\ t[19] = <<"number", n>>
               /\ \A k \in 1 .. Len(m.stack) : t[19 + k] = m.stack[k]
<1> DEFINE a == Push(m, <<<<"number", n>>>>)
           b == pushad(a)
           c == Push(b, Values(m, Segments))
           d == Push(c, Values(m, Controls))
           s == m.stack
<1>0. <<"number", n>> \in Words
  BY WordForms
<1>1. /\ a \in Machines /\ Len(s) \in Nat /\ Len(a.stack) = 1 + Len(s)
      /\ a.regs["esp"] = <<"stack", 1 + Len(s)>>
      /\ \A r \in Registers \ {"esp"} : a.regs[r] = m.regs[r]
      /\ a.stack[1] = <<"number", n>>
      /\ \A k \in 1 .. Len(s) : a.stack[1 + k] = s[k]
  <2>1. /\ a \in Machines /\ Len(s) \in Nat /\ Len(a.stack) = 1 + Len(s) /\ Balanced(a)
        /\ \A r \in Registers \ {"esp"} : a.regs[r] = m.regs[r]
        /\ a.stack[1] = <<"number", n>>
        /\ \A k \in 1 .. Len(s) : a.stack[1 + k] = s[k]
    BY <1>0, PushWord
  <2> HIDE DEF a
  <2> QED BY <2>1 DEF Balanced
<1> HIDE DEF a
<1>2. /\ b \in Machines /\ Len(b.stack) = 8 + Len(a.stack)
      /\ \A k \in 1 .. 8 : b.stack[k] = a.regs[General[k]]
      /\ \A k \in 1 .. Len(a.stack) : b.stack[8 + k] = a.stack[k]
  <2>1. General \in Seq(Registers) /\ Len(General) = 8
    BY NameLists
  <2>2. /\ b \in Machines /\ Len(b.stack) = Len(General) + Len(a.stack)
        /\ \A k \in 1 .. Len(General) : b.stack[k] = a.regs[General[k]]
        /\ \A k \in 1 .. Len(a.stack) : b.stack[Len(General) + k] = a.stack[k]
    BY <1>1, <2>1, PushValues DEF pushad
  <2> HIDE DEF b
  <2> QED BY <2>1, <2>2
<1> HIDE DEF b
<1>3. /\ c \in Machines /\ Len(c.stack) = 6 + Len(b.stack)
      /\ \A k \in 1 .. 6 : c.stack[k] = m.regs[Segments[k]]
      /\ \A k \in 1 .. Len(b.stack) : c.stack[6 + k] = b.stack[k]
  <2>1. Segments \in Seq(Registers) /\ Len(Segments) = 6
    BY DEF Segments, Registers
  <2>2. /\ c \in Machines /\ Len(c.stack) = Len(Segments) + Len(b.stack)
        /\ \A k \in 1 .. Len(Segments) : c.stack[k] = m.regs[Segments[k]]
        /\ \A k \in 1 .. Len(b.stack) : c.stack[Len(Segments) + k] = b.stack[k]
    <3>1. b \in Machines
      BY <1>2
    <3> QED BY <2>1, <3>1, PushValues
  <2> HIDE DEF c
  <2> QED BY <2>1, <2>2
<1> HIDE DEF c
<1>4. /\ d \in Machines /\ Len(d.stack) = 4 + Len(c.stack)
      /\ \A k \in 1 .. 4 : d.stack[k] = m.regs[Controls[k]]
      /\ \A k \in 1 .. Len(c.stack) : d.stack[4 + k] = c.stack[k]
  <2>1. Controls \in Seq(Registers) /\ Len(Controls) = 4
    BY DEF Controls, Registers
  <2>2. /\ d \in Machines /\ Len(d.stack) = Len(Controls) + Len(c.stack)
        /\ \A k \in 1 .. Len(Controls) : d.stack[k] = m.regs[Controls[k]]
        /\ \A k \in 1 .. Len(c.stack) : d.stack[Len(Controls) + k] = c.stack[k]
    BY <1>3, <2>1, PushValues
  <2> HIDE DEF d
  <2> QED BY <2>1, <2>2
<1> HIDE DEF d
<1>5. ISRc(m, n) = d
  BY DEF ISRc, a, b, c, d, Segments, Controls
<1>6. /\ Len(d.stack) = 19 + Len(s) /\ Len(c.stack) = 15 + Len(s)
      /\ Len(b.stack) = 9 + Len(s) /\ Len(a.stack) = 1 + Len(s) /\ Len(s) \in Nat
  BY <1>1, <1>2, <1>3, <1>4
<1>7. ASSUME NEW k \in 1 .. 6 PROVE d.stack[4 + k] = m.regs[Segments[k]]
  <2>1. k \in 1 .. Len(c.stack)
    BY <1>6
  <2> QED BY <1>3, <1>4, <2>1
<1>8. ASSUME NEW k \in 1 .. 9 + Len(s) PROVE d.stack[10 + k] = b.stack[k]
  <2>1. 6 + k \in 1 .. Len(c.stack) /\ k \in 1 .. Len(b.stack) /\ 4 + (6 + k) = 10 + k
    BY <1>6
  <2> QED BY <1>3, <1>4, <2>1
<1>9. ASSUME NEW k \in 1 .. 1 + Len(s) PROVE d.stack[18 + k] = a.stack[k]
  <2>1. 8 + k \in 1 .. 9 + Len(s) /\ k \in 1 .. Len(a.stack) /\ 10 + (8 + k) = 18 + k
    BY <1>6
  <2> QED BY <1>2, <1>8, <2>1
<1>10. \A k \in 1 .. 8 : d.stack[10 + k] = a.regs[General[k]]
  <2>1. ASSUME NEW k \in 1 .. 8 PROVE d.stack[10 + k] = a.regs[General[k]]
    <3>1. k \in 1 .. 9 + Len(s)
      BY <1>6
    <3> QED BY <1>2, <1>8, <3>1
  <2> QED BY <2>1
<1>11. /\ d.stack[14] = <<"stack", 1 + Len(s)>>
       /\ \A k \in 1 .. 8 \ {4} : d.stack[10 + k] = m.regs[General[k]]
  <2>1. General[4] = "esp" /\ \A k \in 1 .. 8 \ {4} : General[k] \in Registers \ {"esp"}
    BY DEF General, Registers
  <2>2. d.stack[14] = a.regs[General[4]]
    <3>1. 4 \in 1 .. 8 /\ 10 + 4 = 14
      OBVIOUS
    <3> QED BY <1>10, <3>1
  <2> QED BY <1>1, <1>10, <2>1, <2>2
<1>12. d.stack[19] = <<"number", n>>
  <2>1. 1 \in 1 .. 1 + Len(s) /\ 18 + 1 = 19
    BY <1>6
  <2> QED BY <1>1, <1>9, <2>1
<1>13. ASSUME NEW k \in 1 .. Len(s) PROVE d.stack[19 + k] = s[k]
  <2>1. 1 + k \in 1 .. 1 + Len(s) /\ 18 + (1 + k) = 19 + k
    BY <1>6
  <2> QED BY <1>1, <1>9, <2>1
<1> QED BY <1>4, <1>5, <1>6, <1>7, <1>11, <1>12, <1>13

(* No label of the template appears twice.                                  *)
LEMMA LabelsDistinct ==
    ASSUME NEW i \in 1 .. 21
    PROVE  (CHOOSE j \in 1 .. Len(print_exception_template) :
               print_exception_template[j] = print_exception_template[i]) = i
<1> DEFINE label == print_exception_template
<1>1. Len(label) = 21
  BY DEF print_exception_template
<1>2. \A j, k \in 1 .. 21 : label[j] = label[k] => j = k
  BY DEF print_exception_template
<1> HIDE DEF label
<1> QED BY <1>1, <1>2 DEF label

(* Every register has its label.                                            *)
LEMMA LabelsComplete ==
    ASSUME NEW r \in Registers \ {"esp", "ss", "eip", "cs", "eflags"}
    PROVE  \/ \E k \in 1 .. 8 \ {4} : r = General[k]
           \/ \E k \in 2 .. 5 : r = Segments[k]
           \/ \E k \in 1 .. 4 : r = Controls[k]
BY DEF Registers, General, Segments, Controls

(* What kernel_exception shows of a machine m on whose stack the processor, *)
(* or the handler, has left a code, and the processor the frame.            *)
LEMMA ScreenShows ==
    ASSUME NEW m \in Machines, NEW n \in Nat, Len(m.stack) >= 4
    PROVE  LET k == kernel_exception(ISRc(m, n))
           IN  /\ k.title = <<"number", n>>
               /\ k.shown["err"] = m.stack[1] /\ k.shown["eip"] = m.stack[2]
               /\ k.shown["cs"] = m.stack[3] /\ k.shown["eflags"] = m.stack[4]
               /\ \A r \in Registers \ {"esp", "ss", "eip", "cs", "eflags"} :
                     k.shown[r] = m.regs[r]
               /\ k.stack = <<<<"number", n>>, m.stack[1], m.stack[2]>>
<1> DEFINE x == ISRc(m, n)
           t == x.stack
           k == kernel_exception(x)
           a == Arguments(t)
           label == print_exception_template
           values == print_regs(a.gregs, [a.sregs EXCEPT !.cs = a.frame.cs], a.cregs,
                                a.frame.eip, a.frame.eflags, a.frame.error_code)
<1>1. /\ Len(m.stack) \in Nat /\ Len(t) = 19 + Len(m.stack)
      /\ \A i \in 1 .. 4 : t[i] = m.regs[Controls[i]]
      /\ \A i \in 1 .. 6 : t[4 + i] = m.regs[Segments[i]]
      /\ \A i \in 1 .. 8 \ {4} : t[10 + i] = m.regs[General[i]]
      /\ t[14] = <<"stack", 1 + Len(m.stack)>>
      /\ t[19] = <<"number", n>>
      /\ \A i \in 1 .. Len(m.stack) : t[19 + i] = m.stack[i]
  BY IsrcStack
<1>2. /\ k.title = a.frame.exception_number
      /\ k.shown = [l \in Registers \cup {"err"} |->
                       values[CHOOSE i \in 1 .. Len(label) : label[i] = l]]
      /\ k.stack = [i \in 1 .. 3 |-> Deref(t, a.gregs.esp, i - 1)]
  BY DEF kernel_exception
<1> HIDE DEF x, k, t
<1> DEFINE size == Len(m.stack)
<1>0. size \in Nat /\ size >= 4 /\ Len(t) = 19 + size
  BY <1>1
<1> HIDE DEF size
<1>3. \A i \in 1 .. 23 : i <= Len(t)
  BY <1>0
<1>4. a = [cregs |-> [cr0 |-> t[1], cr2 |-> t[2], cr3 |-> t[3], cr4 |-> t[4]],
           sregs |-> [cs |-> t[5], ds |-> t[6], es |-> t[7], fs |-> t[8],
                      gs |-> t[9], ss |-> t[10]],
           gregs |-> [edi |-> t[11], esi |-> t[12], ebp |-> t[13], esp |-> t[14],
                      ebx |-> t[15], edx |-> t[16], ecx |-> t[17], eax |-> t[18]],
           frame |-> [exception_number |-> t[19], error_code |-> t[20],
                      eip |-> t[21], cs |-> t[22], eflags |-> t[23]]]
  BY <1>3 DEF Arguments
<1> HIDE DEF a
<1>5. values = <<t[18], t[15], t[17], t[16], t[12], t[11], t[13], t[14], t[21], t[22],
                 t[6], t[7], t[8], t[9], t[10], t[23], t[1], t[2], t[3], t[4], t[20]>>
  BY <1>4 DEF print_regs
<1> HIDE DEF values
<1>6. ASSUME NEW i \in 1 .. 21 PROVE k.shown[label[i]] = values[i]
  <2>1. label[i] \in Registers \cup {"err"}
    BY DEF print_exception_template, Registers
  <2>2. k.shown[label[i]] = values[CHOOSE j \in 1 .. Len(label) : label[j] = label[i]]
    BY <1>2, <2>1
  <2> QED BY <2>2, LabelsDistinct
<1>7. /\ k.shown["eax"] = t[18] /\ k.shown["ebx"] = t[15] /\ k.shown["ecx"] = t[17]
      /\ k.shown["edx"] = t[16] /\ k.shown["esi"] = t[12] /\ k.shown["edi"] = t[11]
      /\ k.shown["ebp"] = t[13]
      /\ k.shown["eip"] = t[21] /\ k.shown["cs"] = t[22] /\ k.shown["eflags"] = t[23]
      /\ k.shown["ds"] = t[6] /\ k.shown["es"] = t[7] /\ k.shown["fs"] = t[8]
      /\ k.shown["gs"] = t[9]
      /\ k.shown["cr0"] = t[1] /\ k.shown["cr2"] = t[2] /\ k.shown["cr3"] = t[3]
      /\ k.shown["cr4"] = t[4] /\ k.shown["err"] = t[20]
  <2>1. /\ label[1] = "eax" /\ label[2] = "ebx" /\ label[3] = "ecx" /\ label[4] = "edx"
        /\ label[5] = "esi" /\ label[6] = "edi" /\ label[7] = "ebp"
        /\ label[9] = "eip" /\ label[10] = "cs" /\ label[11] = "ds" /\ label[12] = "es"
        /\ label[13] = "fs" /\ label[14] = "gs" /\ label[16] = "eflags"
        /\ label[17] = "cr0" /\ label[18] = "cr2" /\ label[19] = "cr3"
        /\ label[20] = "cr4" /\ label[21] = "err"
    BY DEF print_exception_template
  <2>2. /\ values[1] = t[18] /\ values[2] = t[15] /\ values[3] = t[17]
        /\ values[4] = t[16] /\ values[5] = t[12] /\ values[6] = t[11]
        /\ values[7] = t[13] /\ values[9] = t[21] /\ values[10] = t[22]
        /\ values[11] = t[6] /\ values[12] = t[7] /\ values[13] = t[8]
        /\ values[14] = t[9] /\ values[16] = t[23] /\ values[17] = t[1]
        /\ values[18] = t[2] /\ values[19] = t[3] /\ values[20] = t[4]
        /\ values[21] = t[20]
    BY <1>5
  <2> HIDE DEF label
  <2>3. \A i \in 1 .. 21 : k.shown[label[i]] = values[i]
    BY <1>6
  <2>4. /\ k.shown[label[1]] = t[18] /\ k.shown[label[2]] = t[15]
        /\ k.shown[label[3]] = t[17] /\ k.shown[label[4]] = t[16]
        /\ k.shown[label[5]] = t[12] /\ k.shown[label[6]] = t[11]
        /\ k.shown[label[7]] = t[13]
    BY <2>2, <2>3
  <2>5. /\ k.shown[label[9]] = t[21] /\ k.shown[label[10]] = t[22]
        /\ k.shown[label[11]] = t[6] /\ k.shown[label[12]] = t[7]
        /\ k.shown[label[13]] = t[8] /\ k.shown[label[14]] = t[9]
        /\ k.shown[label[16]] = t[23]
    BY <2>2, <2>3
  <2>6. /\ k.shown[label[17]] = t[1] /\ k.shown[label[18]] = t[2]
        /\ k.shown[label[19]] = t[3] /\ k.shown[label[20]] = t[4]
        /\ k.shown[label[21]] = t[20]
    BY <2>2, <2>3
  <2> QED BY <2>1, <2>4, <2>5, <2>6
<1>8. /\ t[20] = m.stack[1] /\ t[21] = m.stack[2] /\ t[22] = m.stack[3]
      /\ t[23] = m.stack[4]
  <2>1. \A i \in 1 .. 4 : i \in 1 .. size
    BY <1>0
  <2>2. \A i \in 1 .. 4 : t[19 + i] = m.stack[i]
    BY <1>1, <2>1 DEF size
  <2> QED BY <2>2
<1>9. ASSUME NEW r \in Registers \ {"esp", "ss", "eip", "cs", "eflags"}
      PROVE  k.shown[r] = m.regs[r]
  <2>1. /\ t[11] = m.regs["edi"] /\ t[12] = m.regs["esi"] /\ t[13] = m.regs["ebp"]
        /\ t[15] = m.regs["ebx"] /\ t[16] = m.regs["edx"] /\ t[17] = m.regs["ecx"]
        /\ t[18] = m.regs["eax"]
    <3>1. /\ General[1] = "edi" /\ General[2] = "esi" /\ General[3] = "ebp"
          /\ General[5] = "ebx" /\ General[6] = "edx" /\ General[7] = "ecx"
          /\ General[8] = "eax"
      BY DEF General
    <3>2. \A i \in {1, 2, 3, 5, 6, 7, 8} : t[10 + i] = m.regs[General[i]]
      <4>1. {1, 2, 3, 5, 6, 7, 8} = 1 .. 8 \ {4}
        OBVIOUS
      <4> QED BY <1>1, <4>1
    <3>3. /\ t[11] = m.regs[General[1]] /\ t[12] = m.regs[General[2]]
          /\ t[13] = m.regs[General[3]] /\ t[15] = m.regs[General[5]]
          /\ t[16] = m.regs[General[6]] /\ t[17] = m.regs[General[7]]
          /\ t[18] = m.regs[General[8]]
      BY <3>2
    <3> QED BY <3>1, <3>3
  <2>2. /\ t[6] = m.regs["ds"] /\ t[7] = m.regs["es"] /\ t[8] = m.regs["fs"]
        /\ t[9] = m.regs["gs"]
    BY <1>1 DEF Segments
  <2>3. /\ t[1] = m.regs["cr0"] /\ t[2] = m.regs["cr2"] /\ t[3] = m.regs["cr3"]
        /\ t[4] = m.regs["cr4"]
    BY <1>1 DEF Controls
  <2>4. r \in {"edi", "esi", "ebp", "ebx", "edx", "ecx", "eax", "ds", "es", "fs", "gs",
               "cr0", "cr2", "cr3", "cr4"}
    BY DEF Registers
  <2> QED BY <1>7, <2>1, <2>2, <2>3, <2>4
<1>10. k.title = <<"number", n>>
  BY <1>1, <1>2, <1>4
<1>11. k.stack = <<<<"number", n>>, m.stack[1], m.stack[2]>>
  <2>1. a.gregs.esp = <<"stack", 1 + Len(m.stack)>>
    BY <1>1, <1>4
  <2>2. ASSUME NEW i \in 0 .. 2
        PROVE  Deref(t, a.gregs.esp, i) = t[19 + i]
    <3> DEFINE p == a.gregs.esp
    <3>1. p[1] = "stack" /\ p[2] = 1 + size
      BY <2>1 DEF size
    <3> HIDE DEF p
    <3>2. p[2] - i \in 1 .. Len(t) /\ Len(t) - p[2] + i + 1 = 19 + i
      BY <1>0, <3>1
    <3>3. Deref(t, p, i) = t[Len(t) - p[2] + i + 1]
      BY <3>1, <3>2 DEF Deref
    <3> QED BY <3>2, <3>3 DEF p
  <2>3. k.stack = [i \in 1 .. 3 |-> t[18 + i]]
    <3>1. \A i \in 1 .. 3 : i - 1 \in 0 .. 2 /\ 19 + (i - 1) = 18 + i
      OBVIOUS
    <3>2. \A i \in 1 .. 3 : Deref(t, a.gregs.esp, i - 1) = t[18 + i]
      BY <2>1, <2>2, <3>1
    <3> QED BY <1>2, <3>2
  <2>4. [i \in 1 .. 3 |-> t[18 + i]] = <<t[19], t[20], t[21]>>
    OBVIOUS
  <2> QED BY <1>1, <1>8, <2>3, <2>4
<1> QED BY <1>7, <1>8, <1>9, <1>10, <1>11 DEF k, x

-----------------------------------------------------------------------------
(* The registers from an interrupt to the return from it                    *)

(* The registers that the processor loads when it enters a handler.         *)
Loaded == {"eip", "cs", "eflags", "esp", "ss"}

(* The registers of a program that runs.                                    *)
ProgramRegs(g) ==
    /\ g \in [Registers -> Words]
    /\ g.cs = Sel(IF current_task \in TaskIds THEN "CODE_3" ELSE "CODE_0")
    /\ current_task \notin TaskIds => g.ss = Sel("DATA_0") /\ g.esp = <<"stack", 0>>

(* Whom the last interrupt found, and what the processor pushed: the code,  *)
(* the frame and, if it was a task, where its stack is.                     *)
Interrupted == [regs |-> entry.regs, stack |-> <<>>]

Code == IF entry.vector \in ErrorCodes THEN <<entry.error>> ELSE <<>>

Back == IF entry.regs.cs = Sel("CODE_3") THEN Values(Interrupted, Outer) ELSE <<>>

(* A handler begins on h; below the frame there is rest.                    *)
Entered(h, rest) ==
    /\ h \in Machines /\ Balanced(h)
    /\ h.regs.cs = Sel("CODE_0") /\ h.regs.ss = Sel("DATA_0")
    /\ \A r \in Registers \ Loaded : h.regs[r] = entry.regs[r]
    /\ h.stack = Code \o (Values(Interrupted, Frame) \o rest)

(* The draw call has been made on h, and m is where it is.                  *)
Drawing(m, h) ==
    /\ m \in Machines
    /\ m.stack = <<<<"draw", "frame">>, h.regs.eax>> \o pushad(h).stack
    /\ \A r \in Registers : ~In(r, General) => m.regs[r] = h.regs[r]

(* What has no handler for it ends in a protection fault.                   *)
EntryInv ==
    LET unknown == \/ entry.kind = "int" /\ entry.asked \notin {88, 98}
                   \/ entry.kind = "hardware" /\ entry.asked \notin {32, 33}
        source == IF entry.kind = "hardware" THEN 3 ELSE 2
    IN  /\ entry.regs \in [Registers -> Words] /\ entry.error \in Words
        /\ unknown => /\ status \in {"handler", "stopped"} /\ entry.vector = 13
                      /\ entry.error = <<"vector", 8 * entry.asked + source>>

HandlerInv ==
    status = "handler" =>
        \E rest \in Seq(Words) :
            /\ Entered(Machine, rest)
            /\ viewport = 0 => rest = Back /\ ProgramRegs(entry.regs)

CopyingInv ==
    status = "copying" =>
        /\ entry.vector = 88 /\ ProgramRegs(entry.regs)
        /\ \E h \in Machines : Entered(h, Back) /\ Drawing(Machine, h)

RegInv ==
    /\ EntryInv
    /\ status = "program" => ProgramRegs(regs) /\ ProgramResumes
    /\ HandlerInv
    /\ CopyingInv
    /\ ExceptionShown

(* Through a gate: what the processor saves and what it loads.              *)
LEMMA Delivered ==
    ASSUME NEW m \in Machines, m.regs.cs \in {Sel("CODE_0"), Sel("CODE_3")},
           NEW n \in DOMAIN idt_init, NEW error \in Words
    PROVE  LET d == Deliver(m, n, error)
               code == IF n \in ErrorCodes THEN <<error>> ELSE <<>>
               outer == IF m.regs.cs = Sel("CODE_3") THEN Values(m, Outer) ELSE <<>>
           IN  /\ d \in Machines /\ Balanced(d)
               /\ d.regs.cs = Sel("CODE_0") /\ d.regs.ss = Sel("DATA_0")
               /\ \A r \in Registers \ Loaded : d.regs[r] = m.regs[r]
               /\ d.stack = code \o (Values(m, Frame) \o (outer \o m.stack))
<1> DEFINE code == IF n \in ErrorCodes THEN <<error>> ELSE <<>>
           outer == IF m.regs.cs = Sel("CODE_3") THEN Values(m, Outer) ELSE <<>>
           f == Values(m, Frame)
           g == [m.regs EXCEPT !.cs = idt_init[n].segsel, !.eip = <<"isr", n>>,
                               !.eflags = <<"eflags", "kernel">>, !.ss = Sel("DATA_0")]
           e == [regs |-> g, stack |-> m.stack]
           d == Deliver(m, n, error)
<1>1. f \in Seq(Words) /\ Values(m, Outer) \in Seq(Words)
  BY NameLists, ValuesFacts
<1>2. <<>> \in Seq(Words) /\ <<error>> \in Seq(Words)
  OBVIOUS
<1>3. m.regs \in [Registers -> Words] /\ m.stack \in Seq(Words)
  BY DEF Machines
<1>4. Level(m.regs.cs) > Level(idt_init[n].segsel) <=> m.regs.cs = Sel("CODE_3")
  BY Levels
<1>5. d = Push(e, code \o f \o outer)
  BY <1>4 DEF Deliver
<1>6. n \in Nat /\ idt_init[n].segsel = Sel("CODE_0")
  BY Levels DEF idt_init
<1> HIDE DEF f
<1>7. code \in Seq(Words) /\ outer \in Seq(Words)
  BY <1>1, <1>2
<1> HIDE DEF code, outer, d
<1>8. /\ g \in [Registers -> Words]
      /\ g.cs = Sel("CODE_0") /\ g.ss = Sel("DATA_0")
      /\ \A r \in Registers \ Loaded : g[r] = m.regs[r]
  <2>1. Sel("CODE_0") \in Words /\ Sel("DATA_0") \in Words /\ <<"isr", n>> \in Words
    BY <1>6, WordForms
  <2>2. <<"eflags", "kernel">> \in Words
    BY WordForms DEF Registers
  <2>3. {"cs", "eip", "eflags", "ss"} \subseteq Registers
    BY DEF Registers
  <2>4. g = [r \in Registers |->
               IF r = "cs" THEN Sel("CODE_0") ELSE IF r = "eip" THEN <<"isr", n>>
               ELSE IF r = "eflags" THEN <<"eflags", "kernel">>
               ELSE IF r = "ss" THEN Sel("DATA_0") ELSE m.regs[r]]
    BY <1>3, <1>6
  <2> HIDE DEF g
  <2> QED BY <1>3, <2>1, <2>2, <2>3, <2>4 DEF Loaded
<1> HIDE DEF g
<1>9. e \in Machines /\ e.regs = g /\ e.stack = m.stack
  BY <1>3, <1>8 DEF Machines
<1> HIDE DEF e
<1>10. code \o f \in Seq(Words) /\ code \o f \o outer \in Seq(Words)
  BY <1>1, <1>7, ConcatProperties
<1>11. /\ d \in Machines /\ Balanced(d) /\ d.stack = (code \o f \o outer) \o m.stack
       /\ \A r \in Registers \ {"esp"} : d.regs[r] = g[r]
  BY <1>5, <1>9, <1>10, PushFacts
<1>12. (code \o f \o outer) \o m.stack = code \o (f \o (outer \o m.stack))
  <2>1. outer \o m.stack \in Seq(Words)
    BY <1>3, <1>7, ConcatProperties
  <2> HIDE DEF Words
  <2>0. \A u, v, w \in Seq(Words) : (u \o v) \o w = u \o (v \o w)
    <3>1. SUFFICES ASSUME NEW u \in Seq(Words), NEW v \in Seq(Words), NEW w \in Seq(Words)
                   PROVE  (u \o v) \o w = u \o (v \o w)
      OBVIOUS
    <3> QED BY ConcatAssociative
  <2>2. ((code \o f) \o outer) \o m.stack = (code \o f) \o (outer \o m.stack)
    BY <1>3, <1>7, <1>10, <2>0, Zenon
  <2>3. (code \o f) \o (outer \o m.stack) = code \o (f \o (outer \o m.stack))
    BY <1>1, <1>7, <2>0, <2>1, Zenon
  <2> QED BY <2>2, <2>3
<1> QED BY <1>8, <1>11, <1>12 DEF code, outer, f, d, Loaded, Registers

(* What an interrupt or exception leaves: the handler begins, below the     *)
(* frame is what the stack held, and the history tells whom it found.       *)
LEMMA RaiseEnters ==
    ASSUME regs \in [Registers -> Words], NEW s \in Seq(Words), stack = s,
           regs.cs \in {Sel("CODE_0"), Sel("CODE_3")},
           NEW n \in Nat, NEW kind, Raise(n, kind)
    PROVE  /\ status' = "handler" /\ Entered(Machine, Back \o s)'
           /\ entry'.regs \in [Registers -> Words] /\ entry'.error \in Words
           /\ \A r \in Registers \ {"cr2"} : entry'.regs[r] = regs[r]
           /\ entry'.kind = kind /\ entry'.asked = n
           /\ LET gate == n \in DOMAIN idt_init
                            /\ (kind = "int" => Level(regs.cs) <= idt_init[n].dpl)
              IN  ~gate => /\ entry'.vector = 13
                           /\ entry'.error =
                                 <<"vector", 8 * n + IF kind = "hardware" THEN 3 ELSE 2>>
<1> DEFINE gate == n \in DOMAIN idt_init
                     /\ (kind = "int" => Level(regs.cs) <= idt_init[n].dpl)
           vector == IF gate THEN n ELSE 13
           error == IF gate THEN <<"cause", n>>
                            ELSE <<"vector", 8 * n + IF kind = "hardware" THEN 3 ELSE 2>>
           found == IF vector = 14 THEN [regs EXCEPT !.cr2 = <<"cr2", "fault">>] ELSE regs
           m == [regs |-> found, stack |-> s]
           d == Deliver(m, vector, error)
<1>1. /\ status' = "handler" /\ Machine' = [regs |-> d.regs, stack |-> d.stack]
      /\ entry' = [regs |-> found, kind |-> kind, asked |-> n, vector |-> vector,
                   error |-> error]
  <2>1. [Machine EXCEPT !.regs = found] = m
    BY DEF Machine
  <2>2. /\ status' = "handler" /\ regs' = d.regs /\ stack' = d.stack
        /\ entry' = [regs |-> found, kind |-> kind, asked |-> n, vector |-> vector,
                     error |-> error]
    BY <2>1 DEF Raise
  <2>3. Machine' = [regs |-> regs', stack |-> stack']
    BY DEF Machine
  <2> QED BY <2>2, <2>3
<1>2. vector \in DOMAIN idt_init
  BY DEF idt_init
<1>3. error \in Words
  <2>1. 8 * n + 3 \in Nat /\ 8 * n + 2 \in Nat
    OBVIOUS
  <2>2. <<"cause", n>> \in Words /\ <<"vector", 8 * n + 3>> \in Words
        /\ <<"vector", 8 * n + 2>> \in Words
    BY <2>1, WordForms
  <2> QED BY <2>2
<1>4. found \in [Registers -> Words] /\ \A r \in Registers \ {"cr2"} : found[r] = regs[r]
  BY WordForms
<1>5. ~gate => vector = 13 /\ error = <<"vector", 8 * n + IF kind = "hardware" THEN 3 ELSE 2>>
  OBVIOUS
<1> HIDE DEF vector, error, found
<1>6. m \in Machines /\ m.regs = found /\ m.stack = s
  BY <1>4 DEF Machines
<1>7. found.cs = regs.cs
  BY <1>4 DEF Registers
<1> HIDE DEF m
<1> DEFINE code == IF vector \in ErrorCodes THEN <<error>> ELSE <<>>
           outer == IF m.regs.cs = Sel("CODE_3") THEN Values(m, Outer) ELSE <<>>
<1>8. /\ d \in Machines /\ Balanced(d)
      /\ d.regs.cs = Sel("CODE_0") /\ d.regs.ss = Sel("DATA_0")
      /\ \A r \in Registers \ Loaded : d.regs[r] = m.regs[r]
      /\ d.stack = code \o (Values(m, Frame) \o (outer \o m.stack))
  BY <1>2, <1>3, <1>6, <1>7, Delivered
<1> HIDE DEF d
<1>9. Machine' = d
  BY <1>1, <1>8 DEF Machines
<1>10. /\ entry'.regs = found /\ entry'.vector = vector /\ entry'.error = error
       /\ entry'.kind = kind /\ entry'.asked = n
  BY <1>1
<1>11. Code' = code /\ Interrupted'.regs = m.regs
  BY <1>6, <1>10 DEF Code, Interrupted
<1>12. Back' = outer
  BY <1>6, <1>10, <1>11 DEF Back, Values
<1>13. Values(Interrupted, Frame)' = Values(m, Frame)
  BY <1>11 DEF Values
<1>14. Entered(Machine, Back \o s)'
  BY <1>6, <1>8, <1>9, <1>10, <1>11, <1>12, <1>13 DEF Entered
<1> QED BY <1>1, <1>3, <1>4, <1>5, <1>10, <1>14

(* A program is interrupted.                                                *)
LEMMA ProgramInterrupted ==
    ASSUME RegInv, DrawInv, status = "program", NEW n \in Nat, NEW kind, Raise(n, kind),
           kind = "int" => current_task \in TaskIds,
           kind = "hardware" => n \in 32 .. 47
    PROVE  RegInv'
<1>1. ProgramRegs(regs) /\ stack = <<>>
  BY DEF RegInv, ProgramResumes
<1>2. regs \in [Registers -> Words] /\ regs.cs \in {Sel("CODE_0"), Sel("CODE_3")}
  BY <1>1 DEF ProgramRegs
<1>3. <<>> \in Seq(Words)
  BY EmptySeq
<1>4. /\ status' = "handler" /\ Entered(Machine, Back \o <<>>)'
      /\ entry'.regs \in [Registers -> Words] /\ entry'.error \in Words
      /\ \A r \in Registers \ {"cr2"} : entry'.regs[r] = regs[r]
      /\ entry'.kind = kind /\ entry'.asked = n
      /\ LET gate == n \in DOMAIN idt_init
                       /\ (kind = "int" => Level(regs.cs) <= idt_init[n].dpl)
         IN  ~gate => /\ entry'.vector = 13
                      /\ entry'.error =
                            <<"vector", 8 * n + IF kind = "hardware" THEN 3 ELSE 2>>
  BY <1>1, <1>2, <1>3, RaiseEnters
<1>5. UNCHANGED <<current_task, viewport, screen>>
  BY DEF Raise, draw_vars
<1>6. EntryInv'
  <2>1. CASE kind = "int" /\ n \notin {88, 98}
    <3>1. ~(n \in DOMAIN idt_init /\ Level(regs.cs) <= idt_init[n].dpl)
      <4>1. Level(regs.cs) = 3
        BY <1>1, <2>1, Levels DEF ProgramRegs
      <4>2. n \in DOMAIN idt_init => idt_init[n].dpl = 0
        BY <2>1 DEF idt_init
      <4> QED BY <4>1, <4>2
    <3> QED BY <1>4, <2>1, <3>1 DEF EntryInv
  <2>2. CASE kind = "hardware" /\ n \notin {32, 33}
    <3>1. n \notin DOMAIN idt_init
      BY <2>2 DEF idt_init
    <3> QED BY <1>4, <2>2, <3>1 DEF EntryInv
  <2>3. CASE ~(kind = "int" /\ n \notin {88, 98}) /\ ~(kind = "hardware" /\ n \notin {32, 33})
    BY <1>4, <2>3 DEF EntryInv
  <2> QED BY <2>1, <2>2, <2>3
<1>7. Back' \in Seq(Words) /\ Back' \o <<>> = Back'
  <2>1. Interrupted' \in Machines
    BY <1>3, <1>4 DEF Interrupted, Machines
  <2>2. Values(Interrupted', Outer) \in Seq(Words)
    BY <2>1, NameLists, ValuesFacts
  <2>3. Back' \in Seq(Words)
    BY <1>3, <2>2 DEF Back, Values
  <2> QED BY <2>3, ConcatEmptySeq
<1>8. ProgramRegs(entry.regs)'
  <2>1. {"cs", "ss", "esp"} \subseteq Registers \ {"cr2"}
    BY DEF Registers
  <2> QED BY <1>1, <1>4, <1>5, <2>1 DEF ProgramRegs
<1>9. HandlerInv'
  BY <1>4, <1>7, <1>8 DEF HandlerInv
<1> QED BY <1>4, <1>6, <1>9 DEF RegInv, CopyingInv, ExceptionShown

(* The copy of a viewport faults: the frame lies on what the call has on    *)
(* the stack.                                                               *)
LEMMA CopyInterrupted ==
    ASSUME RegInv, DrawInv, isr88_fault
    PROVE  RegInv'
<1>1. status = "copying" /\ viewport # 0
  BY DEF isr88_fault, Copying, DrawInv
<1>2. PICK h \in Machines : Entered(h, Back) /\ Drawing(Machine, h)
  BY <1>1 DEF RegInv, CopyingInv
<1>3. Machine \in Machines /\ Machine.regs = regs /\ Machine.stack = stack
  BY <1>2 DEF Drawing, Machine
<1>4. regs \in [Registers -> Words] /\ stack \in Seq(Words)
  BY <1>3 DEF Machines
<1>5. regs.cs = Sel("CODE_0")
  <2>1. "cs" \in Registers /\ ~In("cs", General)
    BY NameLists DEF Registers, In, General
  <2> QED BY <1>2, <1>3, <2>1 DEF Drawing, Entered
<1>6. PICK n \in {13, 14} : Raise(n, "exception")
  BY DEF isr88_fault
<1>7. PICK s \in Seq(Words) : stack = s
  BY <1>4
<1>8. n \in Nat
  OBVIOUS
<1>9. /\ status' = "handler" /\ Entered(Machine, Back \o s)'
      /\ entry'.regs \in [Registers -> Words] /\ entry'.error \in Words
      /\ \A r \in Registers \ {"cr2"} : entry'.regs[r] = regs[r]
      /\ entry'.kind = "exception"
  BY <1>4, <1>5, <1>6, <1>7, <1>8, RaiseEnters
<1>10. EntryInv'
  BY <1>9 DEF EntryInv
<1>11. Back' = <<>>
  <2>1. entry'.regs.cs = Sel("CODE_0")
    BY <1>5, <1>9 DEF Registers
  <2> QED BY <2>1 DEF Back, Sel
<1>12. HandlerInv'
  <2>1. Back' \o s \in Seq(Words)
    BY <1>11, EmptySeq, ConcatProperties
  <2>2. viewport' # 0
    BY <1>1, <1>6 DEF Raise, draw_vars
  <2> QED BY <1>9, <2>1, <2>2 DEF HandlerInv
<1> QED BY <1>9, <1>10, <1>12 DEF RegInv, CopyingInv, ExceptionShown

(* The return from a handler that has kept the registers: the program has   *)
(* those of g, and the stack of level 0 is empty.                           *)
LEMMA Returned ==
    ASSUME ProgramRegs(entry.regs),
           NEW h \in Machines, h.regs.cs = Sel("CODE_0"), h.regs.ss = Sel("DATA_0"),
           h.stack = Values(Interrupted, Frame) \o Back,
           NEW g \in [Registers -> Words],
           \A r \in Registers \ Loaded : h.regs[r] = g[r],
           \A r \in Loaded : g[r] = entry.regs[r]
    PROVE  iret(h).regs = g /\ iret(h).stack = <<>>
<1>1. /\ Interrupted \in Machines /\ Interrupted.regs = entry.regs
      /\ Interrupted.regs.cs \in {Sel("CODE_0"), Sel("CODE_3")}
  BY EmptySeq DEF ProgramRegs, Interrupted, Machines
<1> DEFINE i == iret(h)
<1>2. /\ i \in Machines /\ i.stack = <<>>
      /\ \A r \in {"eip", "cs", "eflags"} : i.regs[r] = entry.regs[r]
      /\ \A r \in Registers \ {"eip", "cs", "eflags", "esp", "ss"} : i.regs[r] = h.regs[r]
      /\ IF entry.regs.cs = Sel("CODE_3")
         THEN i.regs["esp"] = entry.regs["esp"] /\ i.regs["ss"] = entry.regs["ss"]
         ELSE i.regs["esp"] = <<"stack", 0>> /\ i.regs["ss"] = h.regs["ss"]
  <2> DEFINE e == Interrupted
  <2>1. h.stack = Values(e, Frame)
                    \o IF e.regs.cs = Sel("CODE_3") THEN Values(e, Outer) ELSE <<>>
    BY <1>1 DEF Back
  <2>2. e \in Machines /\ e.regs = entry.regs /\ e.regs.cs \in {Sel("CODE_0"), Sel("CODE_3")}
    BY <1>1
  <2> HIDE DEF e, i
  <2>3. /\ i \in Machines /\ i.stack = <<>>
        /\ \A r \in {"eip", "cs", "eflags"} : i.regs[r] = e.regs[r]
        /\ \A r \in Registers \ {"eip", "cs", "eflags", "esp", "ss"} : i.regs[r] = h.regs[r]
        /\ IF e.regs.cs = Sel("CODE_3")
           THEN i.regs["esp"] = e.regs["esp"] /\ i.regs["ss"] = e.regs["ss"]
           ELSE i.regs["esp"] = <<"stack", 0>> /\ i.regs["ss"] = h.regs["ss"]
    BY <2>1, <2>2, IretRestores DEF i
  <2> QED BY <2>2, <2>3
<1> HIDE DEF i
<1>3. i.regs["esp"] = entry.regs["esp"] /\ i.regs["ss"] = entry.regs["ss"]
  BY <1>2 DEF ProgramRegs, Sel
<1>4. ASSUME NEW r \in Registers PROVE i.regs[r] = g[r]
  BY <1>2, <1>3 DEF Loaded
<1>5. i.regs \in [Registers -> Words]
  BY <1>2 DEF Machines
<1> QED BY <1>2, <1>4, <1>5 DEF i

(* A program goes on with the registers it is promised.                     *)
LEMMA ProgramGoesOn ==
    ASSUME RegInv, ProgramRegs(entry.regs), entry.vector # 13,
           NEW m, Resume(m), m.stack = <<>>,
           m.regs = IF entry.vector = 98 THEN [entry.regs EXCEPT !.eax = <<"number", 98>>]
                                         ELSE entry.regs
    PROVE  RegInv'
<1>1. /\ status' = "program" /\ stack' = <<>> /\ regs' = m.regs
      /\ UNCHANGED <<entry, current_task, screen>>
  BY DEF Resume
<1>2. <<"number", 98>> \in Words
  BY WordForms
<1>3. ProgramRegs(m.regs)
  BY <1>2 DEF ProgramRegs, Registers
<1>4. ProgramRegs(regs)' /\ ProgramResumes'
  BY <1>1, <1>3 DEF ProgramRegs, ProgramResumes
<1>5. EntryInv'
  BY <1>1 DEF RegInv, EntryInv
<1> QED BY <1>1, <1>4, <1>5 DEF RegInv, HandlerInv, CopyingInv, ExceptionShown

(* The handlers that return: what they find.                                *)
LEMMA HandlerBegins ==
    ASSUME RegInv, DrawInv, status = "handler", entry.vector # 13
    PROVE  /\ Machine \in Machines /\ Balanced(Machine) /\ ProgramRegs(entry.regs)
           /\ regs.cs = Sel("CODE_0") /\ regs.ss = Sel("DATA_0")
           /\ \A r \in Registers \ Loaded : regs[r] = entry.regs[r]
           /\ stack = Code \o (Values(Interrupted, Frame) \o Back)
           /\ Values(Interrupted, Frame) \o Back \in Seq(Words)
<1>1. viewport = 0
  BY DEF DrawInv, CallInv
<1>2. Back \in Seq(Words) /\ Entered(Machine, Back) /\ ProgramRegs(entry.regs)
  BY <1>1 DEF RegInv, HandlerInv
<1>3. Interrupted \in Machines
  BY <1>2, EmptySeq DEF Interrupted, Machines, ProgramRegs
<1>4. Values(Interrupted, Frame) \in Seq(Words)
  BY <1>3, NameLists, ValuesFacts
<1>5. Machine.regs = regs /\ Machine.stack = stack
  BY DEF Machine
<1> QED BY <1>2, <1>4, <1>5, ConcatProperties DEF Entered

(* The clock and the keyboard.                                              *)
LEMMA ServedGoesOn ==
    ASSUME RegInv, DrawInv, isr32_33
    PROVE  RegInv'
<1>1. status = "handler" /\ entry.vector \in {32, 33} /\ Resume(iret(Served(Machine)))
  BY DEF isr32_33, Handles
<1>2. /\ Machine \in Machines /\ Balanced(Machine) /\ ProgramRegs(entry.regs)
      /\ regs.cs = Sel("CODE_0") /\ regs.ss = Sel("DATA_0")
      /\ \A r \in Registers \ Loaded : regs[r] = entry.regs[r]
      /\ stack = Code \o (Values(Interrupted, Frame) \o Back)
      /\ Values(Interrupted, Frame) \o Back \in Seq(Words)
  BY <1>1, HandlerBegins
<1>3. Machine.regs = regs /\ Machine.stack = Values(Interrupted, Frame) \o Back
  <2>1. Code = <<>>
    BY <1>1 DEF Code, ErrorCodes
  <2> QED BY <1>2, <2>1, ConcatEmptySeq DEF Machine
<1>4. Resume(iret(Machine))
  BY <1>1, <1>2, ServedSame
<1>5. iret(Machine).regs = entry.regs /\ iret(Machine).stack = <<>>
  <2>1. entry.regs \in [Registers -> Words]
    BY <1>2 DEF ProgramRegs
  <2>2. Machine.regs.cs = Sel("CODE_0") /\ Machine.regs.ss = Sel("DATA_0")
        /\ \A r \in Registers \ Loaded : Machine.regs[r] = entry.regs[r]
    BY <1>2, <1>3
  <2> QED BY <1>2, <1>3, <2>1, <2>2, Returned
<1> QED BY <1>1, <1>2, <1>4, <1>5, ProgramGoesOn

(* int 98 gives the task its answer in eax.                                 *)
LEMMA Isr98GoesOn ==
    ASSUME RegInv, DrawInv, isr98
    PROVE  RegInv'
<1> DEFINE h == [Machine EXCEPT !.regs.eax = <<"number", 98>>]
           g == [entry.regs EXCEPT !.eax = <<"number", 98>>]
<1>1. status = "handler" /\ entry.vector = 98 /\ Resume(iret(h))
  BY DEF isr98, Handles
<1>2. /\ Machine \in Machines /\ Balanced(Machine) /\ ProgramRegs(entry.regs)
      /\ regs.cs = Sel("CODE_0") /\ regs.ss = Sel("DATA_0")
      /\ \A r \in Registers \ Loaded : regs[r] = entry.regs[r]
      /\ stack = Code \o (Values(Interrupted, Frame) \o Back)
      /\ Values(Interrupted, Frame) \o Back \in Seq(Words)
  BY <1>1, HandlerBegins
<1>3. Machine.regs = regs /\ Machine.stack = Values(Interrupted, Frame) \o Back
  <2>1. Code = <<>>
    BY <1>1 DEF Code, ErrorCodes
  <2> QED BY <1>2, <2>1, ConcatEmptySeq DEF Machine
<1>4. <<"number", 98>> \in Words
  BY WordForms
<1>5. regs \in [Registers -> Words] /\ stack \in Seq(Words)
  BY <1>2 DEF Machine, Machines
<1>6. h = [regs |-> [regs EXCEPT !.eax = <<"number", 98>>], stack |-> stack]
  BY DEF Machine
<1> HIDE DEF h
<1>7. h \in Machines /\ h.stack = Machine.stack /\ h.regs = [regs EXCEPT !.eax = <<"number", 98>>]
  BY <1>4, <1>5, <1>6 DEF Machines, Machine
<1>8. g \in [Registers -> Words] /\ \A r \in Loaded : g[r] = entry.regs[r]
  BY <1>2, <1>4 DEF ProgramRegs, Loaded, Registers
<1>9. \A r \in Registers \ Loaded : h.regs[r] = g[r]
  BY <1>2, <1>5, <1>7 DEF ProgramRegs
<1>10. h.regs.cs = Sel("CODE_0") /\ h.regs.ss = Sel("DATA_0")
  BY <1>2, <1>5, <1>7 DEF Registers
<1> HIDE DEF g
<1>11. iret(h).regs = g /\ iret(h).stack = <<>>
  BY <1>2, <1>3, <1>7, <1>8, <1>9, <1>10, Returned
<1>12. entry.vector # 13
       /\ iret(h).regs = IF entry.vector = 98 THEN [entry.regs EXCEPT !.eax = <<"number", 98>>]
                                               ELSE entry.regs
  BY <1>1, <1>11 DEF g
<1> QED BY <1>1, <1>2, <1>11, <1>12, ProgramGoesOn

(* A page that was mapped: the handler drops cr2 and the error code.        *)
LEMMA Isr14GoesOn ==
    ASSUME RegInv, DrawInv, Handles(14),
           Resume(iret(Drop(popad(Drop(call(Push(pushad(Machine), <<regs.cr2>>)), 1)), 1)))
    PROVE  RegInv'
<1> DEFINE a == pushad(Machine)
           b == Push(a, <<regs.cr2>>)
           c == call(b)
           d == Drop(c, 1)
           e == Drop(popad(d), 1)
           w == <<regs.cr2>>
           rest == Values(Interrupted, Frame) \o Back
<1>1. status = "handler" /\ entry.vector = 14 /\ Resume(iret(e))
  BY DEF Handles
<1>2. /\ Machine \in Machines /\ Balanced(Machine) /\ ProgramRegs(entry.regs)
      /\ regs.cs = Sel("CODE_0") /\ regs.ss = Sel("DATA_0")
      /\ \A r \in Registers \ Loaded : regs[r] = entry.regs[r]
      /\ stack = Code \o rest /\ rest \in Seq(Words)
  BY <1>1, HandlerBegins
<1>3. Machine.regs = regs /\ Machine.stack = <<entry.error>> \o rest
  BY <1>1, <1>2 DEF Code, ErrorCodes, Machine
<1>4. entry.error \in Words /\ regs.cr2 \in Words
  <2>1. regs \in [Registers -> Words] /\ "cr2" \in Registers
    BY <1>2, <1>3 DEF Machines, Registers
  <2> QED BY <2>1 DEF RegInv, EntryInv
<1>5. /\ a \in Machines /\ a.stack \in Seq(Words)
      /\ \A r \in Registers \ {"esp"} : a.regs[r] = regs[r]
  <2>1. Values(Machine, General) \in Seq(Words)
    BY <1>2, NameLists, ValuesFacts
  <2>2. a \in Machines /\ \A r \in Registers \ {"esp"} : a.regs[r] = Machine.regs[r]
    BY <1>2, <2>1, PushFacts DEF pushad
  <2> QED BY <1>3, <2>2 DEF Machines
<1> HIDE DEF a, rest
<1>6. /\ b \in Machines /\ b.stack = w \o a.stack
      /\ \A r \in Registers \ {"esp"} : b.regs[r] = a.regs[r]
  <2>1. w \in Seq(Words)
    BY <1>4
  <2> QED BY <1>5, <2>1, PushFacts
<1> HIDE DEF b
<1>7. /\ c \in Machines /\ c.stack = w \o a.stack
      /\ \A r \in Registers : ~In(r, General) => c.regs[r] = b.regs[r]
  BY <1>6, CallFacts
<1> HIDE DEF c
<1>8. /\ d \in Machines /\ d.stack = a.stack
      /\ \A r \in Registers \ {"esp"} : d.regs[r] = c.regs[r]
  <2>1. w \in Seq(Words) /\ Len(w) = 1
    BY <1>4
  <2>2. /\ Drop(c, Len(w)) \in Machines /\ Drop(c, Len(w)).stack = a.stack
        /\ \A r \in Registers \ {"esp"} : Drop(c, Len(w)).regs[r] = c.regs[r]
    BY <1>5, <1>7, <2>1, DropFacts
  <2> QED BY <2>1, <2>2
<1> HIDE DEF d
<1>9. popad(d) = Machine
  <2>1. In("esp", General)
    BY NameLists DEF In, General
  <2>2. \A r \in Registers : ~In(r, General) => d.regs[r] = Machine.regs[r]
    BY <1>3, <1>5, <1>6, <1>7, <1>8, <2>1
  <2> QED BY <1>2, <1>8, <2>2, PopadRestores DEF a
<1>10. /\ e \in Machines /\ e.stack = rest
       /\ \A r \in Registers \ {"esp"} : e.regs[r] = regs[r]
  <2> DEFINE v == <<entry.error>>
  <2>1. v \in Seq(Words) /\ Len(v) = 1
    BY <1>4
  <2>2. Machine.stack = v \o rest
    BY <1>3
  <2> HIDE DEF v
  <2>3. /\ Drop(Machine, Len(v)) \in Machines /\ Drop(Machine, Len(v)).stack = rest
        /\ \A r \in Registers \ {"esp"} : Drop(Machine, Len(v)).regs[r] = Machine.regs[r]
    BY <1>2, <2>1, <2>2, DropFacts
  <2> QED BY <1>3, <1>9, <2>1, <2>3
<1> HIDE DEF e
<1>11. iret(e).regs = entry.regs /\ iret(e).stack = <<>>
  <2>1. entry.regs \in [Registers -> Words]
    BY <1>2 DEF ProgramRegs
  <2>2. /\ e.regs.cs = Sel("CODE_0") /\ e.regs.ss = Sel("DATA_0")
        /\ \A r \in Registers \ Loaded : e.regs[r] = entry.regs[r]
    BY <1>2, <1>10 DEF Loaded, Registers
  <2>3. e.stack = Values(Interrupted, Frame) \o Back
    BY <1>10 DEF rest
  <2> QED BY <1>2, <1>10, <2>1, <2>2, <2>3, Returned
<1> QED BY <1>1, <1>2, <1>11, ProgramGoesOn

(* Where the draw call is after it has been made.                           *)
LEMMA CalledDraws ==
    ASSUME Machine \in Machines, regs \in [Registers -> Words]
    PROVE  Drawing(Called, Machine) /\ Drawing(call(Called), Machine)
<1> DEFINE a == pushad(Machine)
           w == <<<<"draw", "frame">>, regs.eax>>
           c == Called
           d == call(c)
<1>1. /\ a \in Machines /\ \A r \in Registers \ {"esp"} : a.regs[r] = Machine.regs[r]
  <2>1. Values(Machine, General) \in Seq(Words)
    BY NameLists, ValuesFacts
  <2> QED BY <2>1, PushFacts DEF pushad
<1>2. w \in Seq(Words)
  <2>1. regs.eax \in Words /\ <<"draw", "frame">> \in Words
    BY WordForms DEF Registers
  <2> QED BY <2>1
<1> HIDE DEF a
<1>3. /\ c \in Machines /\ c.stack = w \o a.stack
      /\ \A r \in Registers \ {"esp"} : c.regs[r] = a.regs[r]
  BY <1>1, <1>2, PushFacts DEF Called, a
<1> HIDE DEF c
<1>4. /\ d \in Machines /\ d.stack = w \o a.stack
      /\ \A r \in Registers : ~In(r, General) => d.regs[r] = c.regs[r]
  BY <1>3, CallFacts
<1> HIDE DEF d
<1>5. In("esp", General) /\ Machine.regs = regs
  BY NameLists DEF In, General, Machine
<1>6. Drawing(c, Machine)
  BY <1>1, <1>3, <1>5 DEF Drawing, a
<1>7. Drawing(d, Machine)
  BY <1>1, <1>3, <1>4, <1>5 DEF Drawing, a
<1> QED BY <1>6, <1>7 DEF c, d

(* The return from the draw call.                                           *)
LEMMA DrawReturns ==
    ASSUME ProgramRegs(entry.regs), entry.vector = 88,
           NEW h \in Machines, Entered(h, Back), NEW m \in Machines, Drawing(m, h)
    PROVE  iret(popad(Drop(m, 2))).regs = entry.regs /\ iret(popad(Drop(m, 2))).stack = <<>>
<1> DEFINE w == <<<<"draw", "frame">>, h.regs.eax>>
           a == pushad(h)
           d == Drop(m, 2)
<1>1. h.regs.eax \in Words /\ <<"draw", "frame">> \in Words
  BY WordForms DEF Machines, Registers
<1>2. w \in Seq(Words) /\ Len(w) = 2
  BY <1>1
<1>3. a.stack \in Seq(Words)
  <2>1. Values(h, General) \in Seq(Words)
    BY NameLists, ValuesFacts
  <2> QED BY <2>1, PushFacts DEF pushad, Machines
<1>4. /\ m \in Machines /\ m.stack = w \o a.stack
      /\ \A r \in Registers : ~In(r, General) => m.regs[r] = h.regs[r]
  BY DEF Drawing
<1> HIDE DEF w, a
<1>5. /\ d \in Machines /\ d.stack = a.stack
      /\ \A r \in Registers \ {"esp"} : d.regs[r] = m.regs[r]
  <2>1. /\ Drop(m, Len(w)) \in Machines /\ Drop(m, Len(w)).stack = a.stack
        /\ \A r \in Registers \ {"esp"} : Drop(m, Len(w)).regs[r] = m.regs[r]
    <3> DEFINE s == a.stack
    <3>1. m \in Machines /\ w \in Seq(Words) /\ s \in Seq(Words) /\ m.stack = w \o s
      BY <1>2, <1>3, <1>4
    <3> HIDE DEF s
    <3>2. /\ Drop(m, Len(w)) \in Machines /\ Drop(m, Len(w)).stack = s
          /\ \A r \in Registers \ {"esp"} : Drop(m, Len(w)).regs[r] = m.regs[r]
      BY ONLY <3>1, DropFacts
    <3> QED BY <3>2 DEF s
  <2> QED BY <1>2, <2>1
<1> HIDE DEF d
<1>6. popad(d) = h
  <2>1. In("esp", General)
    BY NameLists DEF In, General
  <2>2. \A r \in Registers : ~In(r, General) => d.regs[r] = h.regs[r]
    BY <1>4, <1>5, <2>1
  <2> QED BY <1>5, <2>2, PopadRestores DEF a, Entered
<1>7. h.stack = Values(Interrupted, Frame) \o Back
  <2>1. Code = <<>>
    BY DEF Code, ErrorCodes
  <2>2. Interrupted \in Machines
    BY EmptySeq DEF Interrupted, Machines, ProgramRegs
  <2>3. Values(Interrupted, Frame) \in Seq(Words) /\ Values(Interrupted, Outer) \in Seq(Words)
    BY <2>2, NameLists, ValuesFacts
  <2>4. Back \in Seq(Words)
    BY <2>3, EmptySeq DEF Back
  <2>5. Values(Interrupted, Frame) \o Back \in Seq(Words)
    BY <2>3, <2>4, ConcatProperties
  <2> QED BY <2>1, <2>5, ConcatEmptySeq DEF Entered
<1>8. iret(h).regs = entry.regs /\ iret(h).stack = <<>>
  <2>1. entry.regs \in [Registers -> Words]
    BY DEF ProgramRegs
  <2> QED BY <1>7, <2>1, Returned DEF Entered
<1> QED BY <1>6, <1>8 DEF d

(* What the draw call finds is what every handler finds.                    *)
LEMMA DrawBegins ==
    ASSUME RegInv, DrawInv, Handles(88)
    PROVE  /\ Machine \in Machines /\ regs \in [Registers -> Words]
           /\ ProgramRegs(entry.regs) /\ entry.vector = 88 /\ Entered(Machine, Back)
<1>1. status = "handler" /\ entry.vector = 88
  BY DEF Handles
<1>2. /\ Machine \in Machines /\ Balanced(Machine) /\ ProgramRegs(entry.regs)
      /\ regs.cs = Sel("CODE_0") /\ regs.ss = Sel("DATA_0")
      /\ \A r \in Registers \ Loaded : regs[r] = entry.regs[r]
      /\ stack = Code \o (Values(Interrupted, Frame) \o Back)
  BY <1>1, HandlerBegins
<1>3. Machine.regs = regs /\ Machine.stack = stack
  BY DEF Machine
<1> QED BY <1>1, <1>2, <1>3 DEF Entered, Machines

(* A call whose pointer is refused, a call that copies, and one that ends.  *)
LEMMA IgnoredGoesOn ==
    ASSUME RegInv, DrawInv, isr88_ignored
    PROVE  RegInv'
<1>1. Handles(88) /\ Resume(iret(popad(Drop(Called, 2))))
  BY DEF isr88_ignored, isr88_fin
<1>2. /\ Machine \in Machines /\ regs \in [Registers -> Words]
      /\ ProgramRegs(entry.regs) /\ entry.vector = 88 /\ Entered(Machine, Back)
  BY <1>1, DrawBegins
<1>3. Drawing(Called, Machine) /\ Called \in Machines
  BY <1>2, CalledDraws DEF Drawing
<1>4. /\ iret(popad(Drop(Called, 2))).regs = entry.regs
      /\ iret(popad(Drop(Called, 2))).stack = <<>>
  BY <1>2, <1>3, DrawReturns
<1> QED BY <1>1, <1>2, <1>4, ProgramGoesOn

(* The handler of 88 calls what copies the screen of the task, and keeps   *)
(* the frame of the program below what it pushed.                          *)
LEMMA CallCopies ==
    ASSUME RegInv, DrawInv, isr88_call
    PROVE  RegInv'
<1>1. /\ Handles(88) /\ status' = "copying"
      /\ regs' = call(Called).regs /\ stack' = Called.stack
      /\ UNCHANGED <<entry, screen, current_task>>
  BY DEF isr88_call
<1>2. /\ Machine \in Machines /\ regs \in [Registers -> Words]
      /\ ProgramRegs(entry.regs) /\ entry.vector = 88 /\ Entered(Machine, Back)
  BY <1>1, DrawBegins
<1>3. Drawing(Called, Machine) /\ Drawing(call(Called), Machine)
  BY <1>2, CalledDraws
<1>4. Machine' = call(Called)
  <2>1. Called \in Machines /\ call(Called) \in Machines
    BY <1>3 DEF Drawing
  <2>2. call(Called).stack = Called.stack
    BY <2>1, CallFacts
  <2> QED BY <1>1, <2>1, <2>2 DEF Machine, Machines
<1>5. PICK h \in Machines : h = Machine
  BY <1>2
<1>6. Entered(h, Back)' /\ Drawing(Machine, h)'
  <2>1. Entered(h, Back) /\ Drawing(call(Called), h)
    BY <1>2, <1>3, <1>5
  <2>2. Back' = Back /\ Code' = Code /\ Interrupted' = Interrupted
    BY <1>1 DEF Back, Code, Interrupted
  <2>3. Entered(h, Back)'
    BY <1>1, <2>1, <2>2 DEF Entered
  <2> QED BY <1>4, <2>1, <2>3 DEF Drawing
<1>7. ProgramRegs(entry.regs)'
  BY <1>1, <1>2 DEF ProgramRegs
<1>8. EntryInv'
  <2>1. entry.vector # 13
    BY <1>2
  <2> QED BY <1>1, <2>1 DEF RegInv, EntryInv
<1>9. CopyingInv'
  BY <1>1, <1>2, <1>6, <1>7 DEF CopyingInv
<1> QED BY <1>1, <1>8, <1>9 DEF RegInv, HandlerInv, ExceptionShown

(* When that has returned, the program goes on with its registers.         *)
LEMMA ReturnGoesOn ==
    ASSUME RegInv, DrawInv, isr88_return
    PROVE  RegInv'
<1>1. status = "copying" /\ Resume(iret(popad(Drop(Machine, 2))))
  BY DEF isr88_return, isr88_fin
<1>2. PICK h \in Machines : Entered(h, Back) /\ Drawing(Machine, h)
  BY <1>1 DEF RegInv, CopyingInv
<1>3. ProgramRegs(entry.regs) /\ entry.vector = 88 /\ Machine \in Machines
  BY <1>1, <1>2 DEF RegInv, CopyingInv, Drawing
<1>4. /\ iret(popad(Drop(Machine, 2))).regs = entry.regs
      /\ iret(popad(Drop(Machine, 2))).stack = <<>>
  BY <1>2, <1>3, DrawReturns
<1> QED BY <1>1, <1>3, <1>4, ProgramGoesOn

(* The code, of the processor or 0, lies on the frame.                      *)
LEMMA CodeOnFrame ==
    ASSUME NEW e \in Machines, NEW rest \in Seq(Words), NEW c \in Words
    PROVE  LET s == <<c>> \o (Values(e, Frame) \o rest)
           IN  /\ Len(s) >= 4 /\ s[1] = c
               /\ s[2] = e.regs["eip"] /\ s[3] = e.regs["cs"] /\ s[4] = e.regs["eflags"]
<1> DEFINE f == Values(e, Frame)
           t == f \o rest
           w == <<c>>
           s == w \o t
<1>1. /\ f \in Seq(Words) /\ Len(f) = 3
      /\ f[1] = e.regs["eip"] /\ f[2] = e.regs["cs"] /\ f[3] = e.regs["eflags"]
  <2>1. /\ f \in Seq(Words) /\ Len(f) = Len(Frame)
        /\ \A k \in 1 .. Len(Frame) : f[k] = e.regs[Frame[k]]
    BY NameLists, ValuesFacts
  <2>2. Len(Frame) = 3 /\ Frame[1] = "eip" /\ Frame[2] = "cs" /\ Frame[3] = "eflags"
    BY DEF Frame
  <2> HIDE DEF f
  <2> QED BY <2>1, <2>2
<1>2. w \in Seq(Words) /\ Len(w) = 1 /\ w[1] = c
  OBVIOUS
<1> HIDE DEF f, w
<1>3. /\ Len(rest) \in Nat /\ t \in Seq(Words) /\ Len(t) = 3 + Len(rest)
      /\ \A k \in 1 .. 3 : t[k] = f[k]
  <2>1. /\ Len(f) \in Nat /\ Len(rest) \in Nat /\ Len(f \o rest) = Len(f) + Len(rest)
        /\ \A k \in 1 .. Len(f) : (f \o rest)[k] = f[k]
    BY <1>1, TopOfStack
  <2> QED BY <1>1, <2>1, ConcatProperties
<1> HIDE DEF t
<1>4. /\ Len(w \o t) = Len(w) + Len(t)
      /\ \A i \in 1 .. Len(w) + Len(t) :
            (w \o t)[i] = IF i <= Len(w) THEN w[i] ELSE t[i - Len(w)]
  <2>1. w \in Seq(Words) /\ t \in Seq(Words)
    BY <1>2, <1>3
  <2> QED BY ONLY <2>1, ConcatProperties
<1>5. s = w \o t
  OBVIOUS
<1> HIDE DEF s
<1>6. Len(s) = 4 + Len(rest) /\ s[1] = c
  BY <1>2, <1>3, <1>4, <1>5
<1>7. ASSUME NEW k \in 1 .. 3 PROVE s[1 + k] = f[k]
  <2>1. 1 + k \in 1 .. Len(w) + Len(t) /\ ~(1 + k <= Len(w)) /\ (1 + k) - Len(w) = k
    BY ONLY <1>2, <1>3, k \in 1 .. 3
  <2> QED BY <1>3, <1>4, <1>5, <2>1
<1>8. s[2] = f[1] /\ s[3] = f[2] /\ s[4] = f[3]
  <2>1. 1 + 1 = 2 /\ 1 + 2 = 3 /\ 1 + 3 = 4 /\ 1 \in 1 .. 3 /\ 2 \in 1 .. 3 /\ 3 \in 1 .. 3
    OBVIOUS
  <2>2. s[1 + 1] = f[1] /\ s[1 + 2] = f[2] /\ s[1 + 3] = f[3]
    BY <1>7, <2>1
  <2> QED BY ONLY <2>1, <2>2
<1> QED BY <1>1, <1>3, <1>6, <1>8 DEF s, w, t, f

(* An exception is shown.                                                   *)
LEMMA ExceptionStops ==
    ASSUME RegInv, isr_exception
    PROVE  RegInv'
<1> PICK n \in (0 .. 20) \ {14} :
       LET coded == IF n \in ISRNE THEN Push(Machine, <<<<"number", 0>>>>) ELSE Machine
           saved == ISRc(coded, n)
       IN  Handles(n) /\ Stop(saved, popad(Drop(call(saved), 10)))
  BY DEF isr_exception
<1> DEFINE coded == IF n \in ISRNE THEN Push(Machine, <<<<"number", 0>>>>) ELSE Machine
           code == IF n \in ErrorCodes THEN entry.error ELSE <<"number", 0>>
           k == kernel_exception(ISRc(coded, n))
           frame == Values(Interrupted, Frame)
<1>1. /\ status = "handler" /\ entry.vector = n
      /\ status' = "stopped" /\ screen' = k
      /\ UNCHANGED <<entry, current_task>>
  BY DEF Handles, Stop
<1>2. PICK rest \in Seq(Words) : Entered(Machine, rest)
  BY <1>1 DEF RegInv, HandlerInv
<1>3. n \in ISRNE <=> n \notin ErrorCodes
  BY DEF ISRNE, ErrorCodes
<1>4. entry.error \in Words /\ <<"number", 0>> \in Words
      /\ entry.regs \in [Registers -> Words]
  BY WordForms DEF RegInv, EntryInv
<1>5. Interrupted \in Machines /\ Interrupted.regs = entry.regs
  BY <1>4, EmptySeq DEF Interrupted, Machines
<1>6. frame \o rest \in Seq(Words)
  BY <1>5, NameLists, ValuesFacts, ConcatProperties
<1> HIDE DEF frame
<1>7. /\ coded \in Machines /\ coded.stack = <<code>> \o (frame \o rest)
      /\ \A r \in Registers \ Loaded : coded.regs[r] = entry.regs[r]
  <2>1. CASE n \in ErrorCodes
    <3>1. coded = Machine
      BY <1>3, <2>1
    <3>2. Code = <<code>>
      BY <1>1, <2>1 DEF Code
    <3> HIDE DEF coded, code
    <3> QED BY <1>2, <3>1, <3>2 DEF Entered, frame
  <2>2. CASE n \notin ErrorCodes
    <3> DEFINE w == <<<<"number", 0>>>>
    <3>1. coded = Push(Machine, w) /\ code = <<"number", 0>>
      BY <1>3, <2>2
    <3>2. Machine \in Machines /\ w \in Seq(Words)
      BY <1>2, <1>4 DEF Entered
    <3>3. /\ coded \in Machines /\ coded.stack = w \o Machine.stack
          /\ \A r \in Registers \ {"esp"} : coded.regs[r] = Machine.regs[r]
      BY <3>1, <3>2, PushFacts
    <3>4. Machine.stack = frame \o rest
      <4>1. Code = <<>>
        BY <1>1, <2>2 DEF Code
      <4> QED BY <1>2, <1>6, <4>1, ConcatEmptySeq DEF Entered, frame
    <3> HIDE DEF coded
    <3> QED BY <1>2, <3>1, <3>3, <3>4 DEF Entered, Loaded
  <2> QED BY <2>1, <2>2
<1>8. code \in Words
  BY <1>4
<1> HIDE DEF coded, code
<1>9. /\ Len(coded.stack) >= 4 /\ coded.stack[1] = code
      /\ coded.stack[2] = entry.regs["eip"] /\ coded.stack[3] = entry.regs["cs"]
      /\ coded.stack[4] = entry.regs["eflags"]
  <2> DEFINE s == coded.stack
             e == Interrupted
             g == entry.regs
  <2>1. s \in Seq(Words) /\ s = <<code>> \o (Values(e, Frame) \o rest)
    BY <1>7 DEF Machines, frame
  <2>2. e \in Machines /\ e.regs = g /\ code \in Words /\ rest \in Seq(Words)
    BY <1>5, <1>8
  <2> HIDE DEF s, e, g
  <2>3. /\ Len(s) >= 4 /\ s[1] = code
        /\ s[2] = e.regs["eip"] /\ s[3] = e.regs["cs"] /\ s[4] = e.regs["eflags"]
    BY ONLY <2>1, <2>2, CodeOnFrame
  <2> QED BY <2>2, <2>3 DEF s, g
<1>10. /\ k.title = <<"number", n>>
       /\ k.shown["err"] = coded.stack[1] /\ k.shown["eip"] = coded.stack[2]
       /\ k.shown["cs"] = coded.stack[3] /\ k.shown["eflags"] = coded.stack[4]
       /\ \A r \in Registers \ {"esp", "ss", "eip", "cs", "eflags"} :
             k.shown[r] = coded.regs[r]
       /\ k.stack = <<<<"number", n>>, coded.stack[1], coded.stack[2]>>
  <2>1. n \in Nat
    OBVIOUS
  <2> QED BY <1>7, <1>9, <2>1, ScreenShows
<1> HIDE DEF k
<1>11. \A r \in Registers \ {"esp", "ss"} : k.shown[r] = entry.regs[r]
  BY <1>7, <1>9, <1>10 DEF Loaded
<1>12. ExceptionShown'
  BY <1>1, <1>9, <1>10, <1>11 DEF ExceptionShown, code
<1>13. EntryInv'
  BY <1>1 DEF RegInv, EntryInv
<1> QED BY <1>1, <1>12, <1>13 DEF RegInv, HandlerInv, CopyingInv

(* A page fault is shown; what of it is right is only model-checked.        *)
LEMMA PageFaultStops ==
    ASSUME RegInv, Handles(14), NEW shows, NEW m, Stop(shows, m)
    PROVE  RegInv'
<1>1. /\ status = "handler" /\ entry.vector = 14 /\ status' = "stopped"
      /\ UNCHANGED <<entry, current_task>>
  BY DEF Handles, Stop
<1>2. EntryInv'
  BY <1>1 DEF RegInv, EntryInv
<1> QED BY <1>1, <1>2 DEF RegInv, HandlerInv, CopyingInv, ExceptionShown

(* The registers and the history, while a row is copied or nothing happens. *)
LEMMA RegsKept ==
    ASSUME RegInv, UNCHANGED <<status, regs, stack, entry, screen, current_task>>,
           status = "handler" => viewport' = viewport
    PROVE  RegInv'
<1>1. /\ Machine' = Machine /\ Back' = Back /\ Code' = Code /\ Interrupted' = Interrupted
  BY DEF Machine, Back, Code, Interrupted
<1>2. EntryInv' /\ ExceptionShown' /\ ProgramResumes'
      /\ (ProgramRegs(regs) => ProgramRegs(regs)')
      /\ (ProgramRegs(entry.regs) => ProgramRegs(entry.regs)')
  BY DEF RegInv, EntryInv, ExceptionShown, ProgramResumes, ProgramRegs
<1>3. HandlerInv'
  BY <1>1, <1>2 DEF RegInv, HandlerInv, Entered
<1>4. CopyingInv'
  BY <1>1, <1>2 DEF RegInv, CopyingInv, Entered, Drawing
<1> QED BY <1>2, <1>3, <1>4 DEF RegInv

(* No program has been interrupted yet.                                     *)
LEMMA RegInvInit == Init => RegInv
<1> SUFFICES ASSUME Init PROVE RegInv
  OBVIOUS
<1>1. ProgramRegs(Program(current_task))
  <2>1. \A r \in Registers : Program(current_task)[r] \in Words
    <3>1. /\ \A r \in Registers : <<r, "program">> \in Words
          /\ \A s \in {"CODE_0", "CODE_3", "DATA_0", "DATA_3"} : Sel(s) \in Words
          /\ <<"stack", 0>> \in Words
      BY WordForms
    <3> QED BY <3>1 DEF Program
  <2>2. {"cs", "ss", "esp"} \subseteq Registers
    BY DEF Registers
  <2> QED BY <2>1, <2>2 DEF ProgramRegs, Program
<1>2. <<"number", 0>> \in Words
  BY WordForms
<1>3. entry.regs = regs /\ entry.kind = "none" /\ entry.vector = -1
      /\ entry.error = <<"number", 0>>
  BY DEF Init
<1>4. EntryInv
  BY <1>1, <1>2, <1>3 DEF Init, EntryInv, ProgramRegs
<1> QED BY <1>1, <1>3, <1>4
        DEF Init, RegInv, HandlerInv, CopyingInv, ExceptionShown, ProgramResumes

(* Every step keeps the registers and the stack in step with what the last  *)
(* interrupt found.                                                         *)
LEMMA RegInvNext == RegInv /\ DrawInv /\ [Next]_vars => RegInv'
<1> SUFFICES ASSUME RegInv, DrawInv, [Next]_vars
             PROVE  RegInv'
  OBVIOUS
<1>1. CASE Interrupt
  <2> PICK n \in 32 .. 47 : status = "program" /\ Raise(n, "hardware")
    BY <1>1 DEF Interrupt
  <2> QED BY ProgramInterrupted
<1>2. CASE Abort
  <2> PICK n \in {2, 18} : status = "program" /\ Raise(n, "exception")
    BY <1>2 DEF Abort
  <2> QED BY ProgramInterrupted
<1>3. CASE SoftwareInterrupt
  <2> PICK n \in Calls : status = "program" /\ current_task # Idle /\ Raise(n, "int")
    BY <1>3 DEF SoftwareInterrupt
  <2>1. n \in Nat /\ current_task \in TaskIds
    BY InterruptAssumption DEF DrawInv
  <2> QED BY <2>1, ProgramInterrupted
<1>4. CASE Exception
  <2> PICK n \in {0, 1, 5, 6, 7, 10, 11, 12, 13, 14, 16, 17, 19} :
         status = "program" /\ Raise(n, "exception")
    BY <1>4 DEF Exception
  <2> QED BY ProgramInterrupted
<1>5. CASE isr_exception
  BY <1>5, ExceptionStops
<1>6. CASE isr14
  BY <1>6, Isr14GoesOn, PageFaultStops DEF isr14
<1>7. CASE isr32_33
  BY <1>7, ServedGoesOn
<1>8. CASE isr98
  BY <1>8, Isr98GoesOn
<1>9. CASE isr88_ignored
  BY <1>9, IgnoredGoesOn
<1>10. CASE isr88_call
  BY <1>10, CallCopies
<1>11. CASE isr88_copy
  BY <1>11, RegsKept DEF isr88_copy, Copying
<1>12. CASE isr88_fault
  BY <1>12, CopyInterrupted
<1>13. CASE isr88_return
  BY <1>13, ReturnGoesOn
<1>14. CASE Stopped \/ UNCHANGED vars
  BY <1>14, RegsKept DEF Stopped, vars, draw_vars
<1> QED
  BY <1>1, <1>2, <1>3, <1>4, <1>5, <1>6, <1>7, <1>8, <1>9, <1>10, <1>11, <1>12, <1>13,
     <1>14 DEF Next

(* A program that goes on has its registers and an empty stack of level 0,  *)
(* whatever it held in them (isr.asm, lines 147-255).                       *)
THEOREM ProgramResumesHolds == Spec => []ProgramResumes
<1>1. RegInv => ProgramResumes
  BY DEF RegInv, ProgramResumes
<1> QED BY <1>1, DrawInvInit, DrawInvNext, RegInvInit, RegInvNext, PTL DEF Spec

(* The screen of an exception shows what the program or the kernel was      *)
(* interrupted with (isr.asm, lines 36-141; idt.c, lines 180-271).          *)
THEOREM ExceptionShownHolds == Spec => []ExceptionShown
<1>1. RegInv => ExceptionShown
  BY DEF RegInv
<1> QED BY <1>1, DrawInvInit, DrawInvNext, RegInvInit, RegInvNext, PTL DEF Spec

(* A vector without a handler, of whatever task or line, is a protection    *)
(* fault that names it, and the end (idt.c, lines 70-101).                  *)
THEOREM UnknownStopsHolds == Spec => []UnknownStops
<1>1. RegInv => UnknownStops
  <2> SUFFICES ASSUME RegInv,
                      \/ entry.kind = "int" /\ entry.asked \notin {88, 98}
                      \/ entry.kind = "hardware" /\ entry.asked \notin {32, 33},
                      ~(status = "handler" /\ entry.vector = 13)
               PROVE  /\ status = "stopped" /\ screen.title = <<"number", 13>>
                      /\ screen.shown.err =
                            <<"vector", 8 * entry.asked
                                          + IF entry.kind = "hardware" THEN 3 ELSE 2>>
    BY DEF UnknownStops
  <2>1. /\ status = "stopped" /\ entry.vector = 13
        /\ entry.error = <<"vector", 8 * entry.asked
                                       + IF entry.kind = "hardware" THEN 3 ELSE 2>>
    BY DEF RegInv, EntryInv
  <2>2. screen.title = <<"number", 13>> /\ screen.shown.err = entry.error
    BY <2>1 DEF RegInv, ExceptionShown, ErrorCodes
  <2> QED BY <2>1, <2>2
<1> QED BY <1>1, DrawInvInit, DrawInvNext, RegInvInit, RegInvNext, PTL DEF Spec
=============================================================================
