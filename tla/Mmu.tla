--------------------------------- MODULE Mmu ---------------------------------
(***************************************************************************)
(* The memory manager (src/src/mmu.c): page directories and tables, which  *)
(* are ordinary pages of the kernel's pool, the two pools, the on-demand   *)
(* page and the copy of pages through two windows.  The processor is       *)
(* modelled as the code uses it: cr3, the walk of the two levels, and a    *)
(* TLB that may cache any present translation until it is flushed.         *)
(*                                                                         *)
(* Addresses are page numbers; a directory and a table have ENTRIES        *)
(* entries, so the first ENTRIES pages are those of the identity mapping.  *)
(* All of mmu.c runs with interrupts off: one call is one step.            *)
(***************************************************************************)
EXTENDS Integers, FiniteSets

CONSTANTS
    ENTRIES,               \* entries of a directory or table: 1024
    Tasks, CodeStart,      \* the tasks, and where the code of each begins
    KERNEL_PAGE_DIR, KERNEL_PAGE_TABLE_0, SHARED,
    FIRST_KERNEL_PAGE,     \* next_free_kernel_page at boot
    FIRST_USER_PAGE,       \* next_free_user_page at boot
    TASK_CODE_VIRTUAL, TASK_SHARED_PAGE,
    ON_DEMAND_MEM_START_VIRTUAL, ON_DEMAND_MEM_START_PHYSICAL,
    DST_VIRT_PAGE, SRC_VIRT_PAGE,
    CopyPages,             \* pages that copy_page is used on
    BootMemories,          \* what the pages may hold at power on, as tables
    TLB_SIZE               \* bound: translations cached at once

VARIABLES
    mem,                   \* the pages of the identity mapping, as tables
    data,                  \* whose contents each of CopyPages holds
    next_free_kernel_page, next_free_user_page,
    tlb,                   \* cached translations of the current directory
    cr3,
    space,                 \* directory and kernel stack of each task
    running,               \* "boot", "idle" or a task
    fault                  \* the page whose access stopped the system, or NONE

vars == <<mem, data, next_free_kernel_page, next_free_user_page, tlb, cr3, space,
          running, fault>>

NONE == -1
stopped == fault # NONE

MMU_P == "P"
MMU_W == "W"
MMU_U == "U"

Indexes == 0 .. ENTRIES - 1
KernelPages == 0 .. ENTRIES - 1
VirtPages == 0 .. ENTRIES * ENTRIES - 1

VIRT_PAGE_DIR(virt) == virt \div ENTRIES
VIRT_PAGE_TABLE(virt) == virt % ENTRIES

Entry == [attrs : SUBSET {MMU_P, MMU_W, MMU_U}, page : Nat]

NoEntry == [attrs |-> {}, page |-> 0]
ZeroPage == [i \in Indexes |-> NoEntry]
NoSpace == [cr3 |-> 0, stack0 |-> 0]

ASSUME LayoutAssumption ==
    /\ ENTRIES \in Nat \ {0, 1} /\ IsFiniteSet(Tasks) /\ TLB_SIZE \in Nat
    /\ "boot" \notin Tasks /\ "idle" \notin Tasks
    /\ CodeStart \in [Tasks -> Nat]
    /\ {KERNEL_PAGE_DIR, KERNEL_PAGE_TABLE_0} \subseteq 1 .. FIRST_KERNEL_PAGE - 1
    /\ KERNEL_PAGE_DIR # KERNEL_PAGE_TABLE_0
    /\ FIRST_KERNEL_PAGE \in Nat /\ FIRST_KERNEL_PAGE <= ENTRIES
    /\ FIRST_USER_PAGE \in Nat /\ FIRST_USER_PAGE >= ENTRIES
    /\ CopyPages \subseteq Nat
    /\ \A b \in BootMemories : b \in [KernelPages -> [Indexes -> Entry]]

(* The pages of the tasks lie in no entry of the identity mapping, and the  *)
(* four pages of a task share one table.                                    *)
ASSUME VirtualAssumption ==
    LET dirs == <<VIRT_PAGE_DIR(TASK_CODE_VIRTUAL),
                  VIRT_PAGE_DIR(ON_DEMAND_MEM_START_VIRTUAL),
                  VIRT_PAGE_DIR(SRC_VIRT_PAGE)>>
    IN  /\ {TASK_CODE_VIRTUAL, ON_DEMAND_MEM_START_VIRTUAL, SRC_VIRT_PAGE,
            DST_VIRT_PAGE} \subseteq VirtPages
        /\ \A i \in 1 .. 3 : dirs[i] \in 1 .. ENTRIES - 1
        /\ \A i, j \in 1 .. 3 : i # j => dirs[i] # dirs[j]
        /\ TASK_SHARED_PAGE = TASK_CODE_VIRTUAL + 3
        /\ VIRT_PAGE_DIR(TASK_SHARED_PAGE) = dirs[1]
        /\ VIRT_PAGE_DIR(DST_VIRT_PAGE) = dirs[3]
        /\ DST_VIRT_PAGE # SRC_VIRT_PAGE

(* The pages that the tasks get for their stacks. *)
UserPages == FIRST_USER_PAGE .. FIRST_USER_PAGE + Cardinality(Tasks) - 1

(* What the tasks share and their code are neither the kernel's nor stacks. *)
(* The kernel's pool is enough: five pages for each task and the table of   *)
(* the windows of copy_page.                                                *)
ASSUME PhysicalAssumption ==
    LET code == UNION {{CodeStart[t], CodeStart[t] + 1} : t \in Tasks}
    IN  /\ {SHARED, ON_DEMAND_MEM_START_PHYSICAL} \subseteq Nat
        /\ \A p \in {SHARED, ON_DEMAND_MEM_START_PHYSICAL} \cup code :
              /\ p \notin {KERNEL_PAGE_DIR, KERNEL_PAGE_TABLE_0}
              /\ p \notin FIRST_KERNEL_PAGE .. ENTRIES - 1
              /\ p \notin UserPages
        /\ FIRST_KERNEL_PAGE + 5 * Cardinality(Tasks) + 1 <= ENTRIES

-----------------------------------------------------------------------------
(* The functions of mmu.c change the memory, the kernel's pool and the TLB. *)

Now == [mem |-> mem, kfree |-> next_free_kernel_page, tlb |-> tlb]

Becomes(s) == /\ mem' = s.mem
              /\ next_free_kernel_page' = s.kfree
              /\ tlb' = s.tlb

tlbflush(s) == [s EXCEPT !.tlb = {}]

(* Mutant: the page keeps what it held. *)
mmu_next_free_kernel_page_dirty(s) == [s EXCEPT !.kfree = @ + 1]

(* Mutant: the pool does not advance. *)
mmu_next_free_kernel_page_again(s) == [s EXCEPT !.mem[s.kfree] = ZeroPage]

(* The page handed out is s.kfree. *)
mmu_next_free_kernel_page(s) ==
    [s EXCEPT !.kfree = @ + 1, !.mem[s.kfree] = ZeroPage]

Present(pde) == MMU_P \in pde.attrs

(* mmu_map_page for several pages that share a table: pages[i] is mapped by *)
(* entry i of the table of directory entry dir.                             *)
mmu_map_pages(s, c, dir, pages, attrs) ==
    LET pde   == s.mem[c][dir]
        found == Present(pde)
        s1    == IF found THEN s ELSE mmu_next_free_kernel_page(s)
        table == IF found THEN pde.page ELSE s.kfree
        new   == IF found THEN [pde EXCEPT !.attrs = @ \cup attrs]
                          ELSE [attrs |-> {MMU_P, MMU_W, MMU_U}, page |-> table]
    IN  tlbflush([s1 EXCEPT !.mem[c][dir] = new,
                            !.mem[table] =
                               [i \in Indexes |-> IF i \in DOMAIN pages
                                                    THEN [attrs |-> attrs, page |-> pages[i]]
                                                    ELSE @[i]]])

mmu_map_page(s, c, virt, phy, attrs) ==
    mmu_map_pages(s, c, VIRT_PAGE_DIR(virt), [i \in {VIRT_PAGE_TABLE(virt)} |-> phy], attrs)

(* Mutant: the translation stays in the TLB. *)
mmu_unmap_page_no_flush(s, c, virt) ==
    LET pde == s.mem[c][VIRT_PAGE_DIR(virt)]
    IN  IF ~Present(pde) THEN s
        ELSE [s EXCEPT !.mem[pde.page][VIRT_PAGE_TABLE(virt)] = NoEntry]

mmu_unmap_page(s, c, virt) ==
    LET pde == s.mem[c][VIRT_PAGE_DIR(virt)]
    IN  IF ~Present(pde) THEN s
        ELSE tlbflush([s EXCEPT !.mem[pde.page][VIRT_PAGE_TABLE(virt)] = NoEntry])

(* Mutant: the last page of the identity mapping is left out. *)
IdentityPagesShort == [i \in 0 .. ENTRIES - 2 |-> i]

IdentityPages == [i \in Indexes |-> i]

(* The directory of a task: it is at s.kfree; stack is a page of the user   *)
(* pool.                                                                    *)
mmu_init_task_dir(s, phy_start, stack) ==
    LET c   == s.kfree
        map(t, virt, phy, attrs) == mmu_map_page(t, c, virt, phy, attrs)
        s1  == mmu_map_pages(mmu_next_free_kernel_page(s), c, 0, IdentityPages,
                             {MMU_P, MMU_W})
        s2  == map(s1, TASK_CODE_VIRTUAL, phy_start, {MMU_P, MMU_U})
        s3  == map(s2, TASK_CODE_VIRTUAL + 1, phy_start + 1, {MMU_P, MMU_U})
        s4  == map(s3, TASK_SHARED_PAGE - 1, stack, {MMU_P, MMU_W, MMU_U})
    IN  map(s4, TASK_SHARED_PAGE, SHARED, {MMU_P, MMU_U})

-----------------------------------------------------------------------------
(* The processor's translation *)

(* The rights that both levels grant, and the page. *)
Walk(m, c, virt) ==
    LET pde == m[c][VIRT_PAGE_DIR(virt)]
        pte == m[pde.page][VIRT_PAGE_TABLE(virt)]
    IN  IF ~(MMU_P \in pde.attrs) \/ ~(MMU_P \in pte.attrs)
          THEN [virt |-> virt, attrs |-> {}, page |-> 0]
          ELSE [virt |-> virt, attrs |-> pde.attrs \cap pte.attrs, page |-> pte.page]

(* A cached translation is used before the tables are walked. *)
Lookup(s, c, virt) ==
    IF \E e \in s.tlb : e.virt = virt
      THEN CHOOSE e \in s.tlb : e.virt = virt
      ELSE Walk(s.mem, c, virt)

UserMay(e, write) == /\ {MMU_P, MMU_U} \subseteq e.attrs
                     /\ write => MMU_W \in e.attrs

(* Mutant: the window of the destination is left mapped. *)
CloseWindowsSource(s, c) == mmu_unmap_page(s, c, SRC_VIRT_PAGE)

CloseWindows(s, c) == mmu_unmap_page(mmu_unmap_page(s, c, SRC_VIRT_PAGE), c, DST_VIRT_PAGE)

(* Mutant: source and destination are swapped. *)
OpenWindowsSwapped(s, c, dst, src) ==
    mmu_map_page(mmu_map_page(s, c, SRC_VIRT_PAGE, dst, {MMU_P}),
                 c, DST_VIRT_PAGE, src, {MMU_P, MMU_W})

OpenWindows(s, c, dst, src) ==
    mmu_map_page(mmu_map_page(s, c, SRC_VIRT_PAGE, src, {MMU_P}),
                 c, DST_VIRT_PAGE, dst, {MMU_P, MMU_W})

-----------------------------------------------------------------------------
(* Boot: kernel.asm, lines 131-137 and 169; nothing is paged before *)

Init ==
    /\ mem \in BootMemories
    /\ data = [p \in CopyPages |-> p]
    /\ next_free_kernel_page = FIRST_KERNEL_PAGE
    /\ next_free_user_page = FIRST_USER_PAGE
    /\ tlb = {}
    /\ cr3 = 0
    /\ space = [t \in Tasks |-> NoSpace]
    /\ running = "boot"
    /\ fault = NONE

Paging == cr3 # 0

mmu_init_kernel_dir ==
    /\ ~Paging
    /\ mem' = [mem EXCEPT
                 ![KERNEL_PAGE_DIR] =
                    [ZeroPage EXCEPT ![0] = [attrs |-> {MMU_P, MMU_W},
                                             page |-> KERNEL_PAGE_TABLE_0]],
                 ![KERNEL_PAGE_TABLE_0] =
                    [i \in Indexes |-> [attrs |-> {MMU_P, MMU_W}, page |-> i]]]
    /\ cr3' = KERNEL_PAGE_DIR
    /\ UNCHANGED <<data, next_free_kernel_page, next_free_user_page, tlb, space,
                   running, fault>>

Booting == running = "boot" /\ Paging /\ ~stopped

(* Mutant: the user pool does not advance. *)
SameUserPage == next_free_user_page' = next_free_user_page

(* Mutant: a call takes two pages. *)
SkippedUserPage == next_free_user_page' = next_free_user_page + 2

mmu_next_free_user_page == next_free_user_page' = next_free_user_page + 1

(* The part of tss_create_user_task that is about memory: the address space *)
(* and the page of the stack of level 0.                                    *)
tss_create_user_task(t) ==
    /\ Booting
    /\ space[t] = NoSpace
    /\ LET s == mmu_init_task_dir(Now, CodeStart[t], next_free_user_page)
       IN  /\ Becomes(mmu_next_free_kernel_page(s))
           /\ space' = [space EXCEPT ![t] = [cr3 |-> next_free_kernel_page,
                                             stack0 |-> s.kfree]]
    /\ mmu_next_free_user_page
    /\ UNCHANGED <<data, cr3, running, fault>>

(* The copy, through the two windows of the current directory; both         *)
(* translations are in the TLB after it.                                    *)
copy_page(dst, src) ==
    /\ Booting
    /\ LET s    == OpenWindows(Now, cr3, dst, src)
           from == Lookup(s, cr3, SRC_VIRT_PAGE)
           to   == Lookup(s, cr3, DST_VIRT_PAGE)
       IN  /\ data' = [data EXCEPT ![to.page] = data[from.page]]
           /\ Becomes(CloseWindows([s EXCEPT !.tlb = @ \cup {from, to}], cr3))
    /\ UNCHANGED <<next_free_user_page, cr3, space, running, fault>>

-----------------------------------------------------------------------------
(* The running system *)

(* The hardware task switch loads cr3, which empties the TLB; the idle task *)
(* runs in the kernel's directory.                                          *)
SwitchTo(x) ==
    /\ Paging /\ ~stopped
    /\ x = "idle" \/ (x \in Tasks /\ running # "boot" /\ space[x] # NoSpace)
    /\ running' = x
    /\ cr3' = IF x = "idle" THEN KERNEL_PAGE_DIR ELSE space[x].cr3
    /\ tlb' = {}
    /\ UNCHANGED <<mem, data, next_free_kernel_page, next_free_user_page, space, fault>>

(* The processor caches a translation it has walked, whenever it likes. *)
TlbFill(virt) ==
    /\ Paging /\ ~stopped
    /\ Cardinality(tlb) < TLB_SIZE
    /\ LET e == Lookup(Now, cr3, virt)
       IN  MMU_P \in e.attrs /\ tlb' = tlb \cup {e}
    /\ UNCHANGED <<mem, data, next_free_kernel_page, next_free_user_page, cr3, space,
                   running, fault>>

TlbEvict(e) ==
    /\ tlb' = tlb \ {e}
    /\ UNCHANGED <<mem, data, next_free_kernel_page, next_free_user_page, cr3, space,
                   running, fault>>

(* Mutant: the on-demand page is mapped without MMU_W. *)
OnDemandAttrsReadOnly == {MMU_P, MMU_U}

OnDemandAttrs == {MMU_P, MMU_W, MMU_U}

(* The handler's range ends one byte before the end of the page. *)
InOnDemandArea(virt, last_byte) ==
    virt = ON_DEMAND_MEM_START_VIRTUAL /\ ~last_byte

(* An access of a task, to the last byte of a page or to another, that its  *)
(* rights do not allow: _isr14 and page_fault_handler.  An access outside   *)
(* the on-demand area is an exception, and the system stops.                *)
page_fault(virt, write, last_byte) ==
    /\ running \in Tasks /\ ~stopped
    /\ ~UserMay(Lookup(Now, cr3, virt), write)
    /\ \/ /\ InOnDemandArea(virt, last_byte)
          /\ Becomes(mmu_map_page(Now, cr3, ON_DEMAND_MEM_START_VIRTUAL,
                                  ON_DEMAND_MEM_START_PHYSICAL, OnDemandAttrs))
          /\ UNCHANGED fault
       \/ /\ ~InOnDemandArea(virt, last_byte)
          /\ fault' = virt
          /\ UNCHANGED <<mem, next_free_kernel_page, tlb>>
    /\ UNCHANGED <<data, next_free_user_page, cr3, space, running>>

Stopped == stopped /\ UNCHANGED vars

(* The pages whose translations matter to a property. *)
Touched == {0, ENTRIES - 1, SRC_VIRT_PAGE, DST_VIRT_PAGE, ON_DEMAND_MEM_START_VIRTUAL}
             \cup TASK_CODE_VIRTUAL .. TASK_SHARED_PAGE

Next ==
    \/ mmu_init_kernel_dir
    \/ \E t \in Tasks : tss_create_user_task(t)
    \/ \E dst, src \in CopyPages : copy_page(dst, src)
    \/ \E x \in Tasks \cup {"idle"} : SwitchTo(x)
    \/ \E virt \in Touched : TlbFill(virt)
    \/ \E e \in tlb : TlbEvict(e)
    \/ \E virt \in Touched, write, last_byte \in BOOLEAN :
          page_fault(virt, write, last_byte)
    \/ Stopped

Spec == Init /\ [][Next]_vars

-----------------------------------------------------------------------------
(* Properties *)

Translation == [virt : VirtPages, attrs : SUBSET {MMU_P, MMU_W, MMU_U}, page : Nat]

(* The kernel's pool ends where the identity mapping does. *)
TypeOK ==
    /\ \A p \in KernelPages : DOMAIN mem[p] = Indexes /\ \A i \in Indexes : mem[p][i] \in Entry
    /\ data \in [CopyPages -> CopyPages]
    /\ next_free_kernel_page \in FIRST_KERNEL_PAGE .. ENTRIES
    /\ next_free_user_page \in FIRST_USER_PAGE .. FIRST_USER_PAGE + Cardinality(Tasks)
    /\ tlb \subseteq Translation
    /\ cr3 \in KernelPages
    /\ space \in [Tasks -> [cr3 : KernelPages, stack0 : KernelPages]]
    /\ running \in {"boot", "idle"} \cup Tasks
    /\ fault \in VirtPages \cup {NONE}

(* A cached translation is what the tables say now: every change of a       *)
(* present entry is followed by a flush (mmu.c, lines 137 and 162).         *)
TLBCoherent == \A e \in tlb : e = Walk(mem, cr3, e.virt)

Created == {t \in Tasks : space[t] # NoSpace}

Directories == {KERNEL_PAGE_DIR} \cup {space[t].cr3 : t \in Created}

(* The kernel reaches every page of its pool at its own address, whatever   *)
(* the address space: mmu.c reads and writes tables through physical        *)
(* addresses, also in a page fault of a task (mmu.c, line 229).             *)
IdentityEverywhere ==
    Paging => \A c \in Directories, p \in KernelPages :
                 Walk(mem, c, p) = [virt |-> p, attrs |-> {MMU_P, MMU_W}, page |-> p]

(* The directory and the tables of an address space. *)
Structures(c) == {c} \cup {mem[c][i].page : i \in {j \in Indexes : Present(mem[c][j])}}

(* No page is a directory or table of two address spaces, or that and a     *)
(* kernel stack, or two kernel stacks.                                      *)
StructuresPrivate ==
    Paging =>
      /\ \A c, d \in Directories : c # d => Structures(c) \cap Structures(d) = {}
      /\ \A t \in Created : \A c \in Directories : space[t].stack0 \notin Structures(c)
      /\ \A t, u \in Created : t # u => space[t].stack0 # space[u].stack0

(* The virtual pages that a task may read: those of the entries of its      *)
(* directory that grant it anything.                                        *)
Visible(t) ==
    {v \in UNION {d * ENTRIES .. d * ENTRIES + ENTRIES - 1 :
                     d \in {i \in Indexes : t \in Created /\ MMU_U \in mem[space[t].cr3][i].attrs}} :
        UserMay(Walk(mem, space[t].cr3, v), FALSE)}

UserView(t) ==
    {[virt |-> e.virt, page |-> e.page, write |-> MMU_W \in e.attrs] :
        e \in {Walk(mem, space[t].cr3, v) : v \in Visible(t)}}

(* What one task can write, another cannot see, but for the on-demand page; *)
(* and no task sees a page of the kernel's pool or structures.              *)
Isolation ==
    \A t \in Created : \A m \in UserView(t) :
      /\ m.page \notin {KERNEL_PAGE_DIR, KERNEL_PAGE_TABLE_0}
      /\ m.page \notin FIRST_KERNEL_PAGE .. ENTRIES - 1
      /\ m.write /\ m.page # ON_DEMAND_MEM_START_PHYSICAL =>
            \A u \in Created \ {t} : \A n \in UserView(u) : n.page # m.page

(* The windows of copy_page are closed after it: no later access reaches a  *)
(* page through them (mmu.c, lines 192-193).                                *)
WindowsClosed ==
    Paging => \A c \in Directories : \A v \in {SRC_VIRT_PAGE, DST_VIRT_PAGE} :
                 ~(MMU_P \in Walk(mem, c, v).attrs)

(* A fault that the handler returns from does not come again: the access is *)
(* allowed now, whichever task got to the page first, and to an access that *)
(* is not to its last byte this always happens.  No fault outside the page  *)
(* is served (mmu.c, lines 224-234).                                        *)
FaultServed ==
    [][\A virt \in Touched, write, last_byte \in BOOLEAN :
          page_fault(virt, write, last_byte) =>
            /\ virt # ON_DEMAND_MEM_START_VIRTUAL => stopped'
            /\ ~stopped' \/ (virt = ON_DEMAND_MEM_START_VIRTUAL /\ ~last_byte) =>
                 UserMay(Walk(mem', cr3', virt), write)]_vars

(* Every access to the on-demand page that faults is served, as mmu.c, 226, *)
(* and 03_paginacion.md, lines 59 to 63 and 211 to 214, have it.            *)
OnDemandServed ==
    [][\A write, last_byte \in BOOLEAN :
          page_fault(ON_DEMAND_MEM_START_VIRTUAL, write, last_byte) =>
             UserMay(Walk(mem', cr3', ON_DEMAND_MEM_START_VIRTUAL), write)]_vars

(* copy_page makes dst a copy of src and changes no other page. *)
CopyRight ==
    [][\A dst, src \in CopyPages :
          copy_page(dst, src) => data' = [data EXCEPT ![dst] = data[src]]]_vars

AS == INSTANCE AddressSpaces WITH
        view <- [t \in Tasks |-> UserView(t)],
        open <- running = "boot"

(* The tables give each task the address space that AddressSpaces promises. *)
ImplementsAddressSpaces == AS!Spec
==============================================================================
