------------------------------ MODULE Viewport ------------------------------
(***************************************************************************)
(* The system call that draws (tasks_syscall_draw, src/src/tasks.c): the   *)
(* check of the pointer that a task passes, and the copy of its viewport,  *)
(* row after row, into the window of the task.  It runs with interrupts    *)
(* off, in the address space of the task: of the addresses a task can pass *)
(* that are not below TASK_CODE_VIRTUAL, those up to the end of the shared *)
(* page are mapped.  How the call is entered and left, and what becomes of *)
(* an access that faults, is in Interrupts.                                *)
(***************************************************************************)
EXTENDS Integers

CONSTANTS
    WORD,                  \* values of a uintptr_t
    PAGE_SIZE,
    TASK_CODE_VIRTUAL, TASK_SHARED_PAGE,
    Addresses              \* the pointers that tasks pass

TASK_VIEWPORT_WIDTH == 38

TASK_VIEWPORT_HEIGHT == 23

(* A character and its attributes (ca) are two bytes. *)
Sizeof == [row |-> 2 * TASK_VIEWPORT_WIDTH,
           viewport |-> 2 * TASK_VIEWPORT_WIDTH * TASK_VIEWPORT_HEIGHT]

ASSUME AddressAssumption ==
    /\ Addresses \subseteq 0 .. WORD - 1
    /\ WORD \in Nat /\ PAGE_SIZE \in Nat
    /\ TASK_CODE_VIRTUAL \in Nat \ {0} /\ TASK_SHARED_PAGE \in Nat
    /\ TASK_CODE_VIRTUAL < TASK_SHARED_PAGE
    /\ TASK_SHARED_PAGE + PAGE_SIZE < WORD
    /\ Sizeof.viewport <= PAGE_SIZE

VARIABLES
    current_task,
    viewport,     \* the argument of the call that is drawing; else 0
    y,            \* the next row
    drawn         \* the cells of the screen that the call has written

draw_vars == <<viewport, y, drawn>>

NotDrawing == viewport = 0 /\ y = 0 /\ drawn = {}

TaskIds == 0 .. 3

(* Mutant: where the viewport ends is not looked at. *)
EndsInTaskAlways(addr) == TRUE

(* sizeof of *viewport is that of one row; the sum wraps. *)
EndsInTask(addr) == (addr + Sizeof.row) % WORD < TASK_SHARED_PAGE

Accepted(addr) == addr >= TASK_CODE_VIRTUAL /\ EndsInTask(addr)

(* Mutant: the windows on the right begin on their frame. *)
StartOnFrame(task) == [x |-> IF task \in {0, 2} THEN 1 ELSE 40,
                       y |-> IF task \in {0, 1} THEN 1 ELSE 26]

Start(task) == [x |-> IF task \in {0, 2} THEN 1 ELSE 41,
                y |-> IF task \in {0, 1} THEN 1 ELSE 26]

(* The bytes of row n of the viewport at addr. *)
Row(addr, n) == {(addr + n * Sizeof.row + b) % WORD : b \in 0 .. Sizeof.row - 1}

Mapped(bytes) == bytes \subseteq TASK_CODE_VIRTUAL .. TASK_SHARED_PAGE + PAGE_SIZE - 1

Accept(addr) == viewport' = addr /\ y' = 0 /\ drawn' = {}

RowReadable == Mapped(Row(viewport, y))

CopyRow ==
    /\ drawn' = drawn \cup {[row |-> Start(current_task).y + y,
                              col |-> Start(current_task).x + x] :
                               x \in 0 .. TASK_VIEWPORT_WIDTH - 1}
    /\ y' = y + 1
    /\ UNCHANGED viewport

Return == viewport' = 0 /\ y' = 0 /\ drawn' = {}

-----------------------------------------------------------------------------
(* Properties *)

(* The boxes that tasks_screen_draw clears for the tasks: row, column,      *)
(* height and width.                                                        *)
Box(row, col, height, width) ==
    [row : row .. row + height - 1, col : col .. col + width - 1]

Content == [task \in TaskIds |->
              CASE task = 0 -> Box(1, 1, 23, 38)
                [] task = 1 -> Box(1, 41, 23, 38)
                [] task = 2 -> Box(26, 1, 23, 38)
                [] task = 3 -> Box(26, 41, 23, 38)]

(* A call writes in the box of the task that made it, and when it returns   *)
(* it has written all of it: the frames, their labels and the other tasks'  *)
(* windows are left alone (tasks.c, lines 93-117 and 158-162).              *)
WindowExact ==
    viewport # 0 =>
        /\ drawn \subseteq Content[current_task]
        /\ y = TASK_VIEWPORT_HEIGHT => drawn = Content[current_task]

(* tasks.c, line 86: a viewport that ends after the memory of the task is   *)
(* ignored.  It is not.                                                     *)
ViewportInTask ==
    viewport # 0 => viewport + Sizeof.viewport <= TASK_SHARED_PAGE
==============================================================================
