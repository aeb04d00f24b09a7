---------------------------- MODULE MCInterrupts ----------------------------
(***************************************************************************)
(* The screen and the viewport at their real size, in an address space of  *)
(* 32 pages.  The pointers are those around each bound: the first and the  *)
(* last that the check accepts, the last whose viewport ends in the memory *)
(* of the task, and the last bytes of the address space.  The calls are    *)
(* the two that exist, int 3 and int 4, those of an exception and of the   *)
(* clock, and some without a gate.                                         *)
(***************************************************************************)
EXTENDS Interrupts

MCAddresses ==
    LET around(a) == {a - 1, a, a + 1}
    IN  {0, WORD - 1} \cup around(TASK_CODE_VIRTUAL) \cup around(TASK_SHARED_PAGE)
          \cup around(TASK_SHARED_PAGE - Sizeof.viewport)
          \cup around(TASK_SHARED_PAGE - Sizeof.row)
          \cup around(WORD - Sizeof.row)

MCCalls == {0, 3, 4, 13, 14, 20, 21, 32, 33, 34, 87, 88, 98, 255}
==============================================================================
