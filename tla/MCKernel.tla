------------------------------ MODULE MCKernel ------------------------------
(***************************************************************************)
(* The kernel with its four slots.  tasks_init creates four tasks; boots   *)
(* with none and with one task reach the paths of the clock handler that   *)
(* do not jump, and a boot with five the failed kassert.                   *)
(***************************************************************************)
EXTENDS Kernel

MCSelectors == {Selector(g) : g \in GDT_TSS_START .. GDT_COUNT - 1}
==============================================================================
