------------------------------- MODULE MCMmu -------------------------------
(***************************************************************************)
(* A small instance of Mmu: two tasks with code of their own.  The eleven  *)
(* pages of the pool are exactly those that the tables and stacks need     *)
(* (five for each task, one for the windows of copy_page), and the memory  *)
(* is full of garbage at power on.                                         *)
(***************************************************************************)
EXTENDS Mmu

MCTasks == {"A", "B"}
MCCodeStart == [t \in MCTasks |-> IF t = "B" THEN 5 ELSE 3]

MCGarbage == [attrs |-> {MMU_P, MMU_W, MMU_U}, page |-> 1]
MCBootMemories == {[p \in KernelPages |-> [i \in Indexes |-> MCGarbage]]}
=============================================================================
