---------------------------- MODULE AddressSpaces ----------------------------
(***************************************************************************)
(* What the memory manager promises to the tasks: each task sees its code  *)
(* and the shared page, which it cannot write, a stack page of its own,    *)
(* and, once it has asked for it, the on-demand page that all share.       *)
(* Nothing else of the machine is visible to a task.                       *)
(***************************************************************************)
EXTENDS Integers

CONSTANTS
    Tasks,          \* the tasks of the system
    CodeStart,      \* first page of the code of each task
    UserPages,      \* the pages stacks are taken from
    SHARED,         \* the page of the shared structures
    TASK_CODE_VIRTUAL, TASK_SHARED_PAGE,
    ON_DEMAND_MEM_START_VIRTUAL, ON_DEMAND_MEM_START_PHYSICAL

VARIABLES view, open   \* what each task sees; whether tasks may still be created

ReadOnly(virt, page) == [virt |-> virt, page |-> page, write |-> FALSE]
ReadWrite(virt, page) == [virt |-> virt, page |-> page, write |-> TRUE]

(* The stack lies right below the shared page. *)
FirstView(t, stack) ==
    {ReadOnly(TASK_CODE_VIRTUAL, CodeStart[t]),
     ReadOnly(TASK_CODE_VIRTUAL + 1, CodeStart[t] + 1),
     ReadWrite(TASK_SHARED_PAGE - 1, stack),
     ReadOnly(TASK_SHARED_PAGE, SHARED)}

OnDemand == ReadWrite(ON_DEMAND_MEM_START_VIRTUAL, ON_DEMAND_MEM_START_PHYSICAL)

Seen == {m.page : m \in UNION {view[t] : t \in Tasks}}

Init == view = [t \in Tasks |-> {}] /\ open = TRUE

Create(t) ==
    /\ open
    /\ view[t] = {}
    /\ \E stack \in UserPages \ Seen :
          view' = [view EXCEPT ![t] = FirstView(t, stack)]
    /\ UNCHANGED open

Demand(t) ==
    /\ ~open
    /\ view[t] # {}
    /\ view' = [view EXCEPT ![t] = @ \cup {OnDemand}]
    /\ UNCHANGED open

Close == open' = FALSE /\ UNCHANGED view

Next == Close \/ \E t \in Tasks : Create(t) \/ Demand(t)

Spec == Init /\ [][Next]_<<view, open>>
==============================================================================
