----------------------------- MODULE MmuProofs -----------------------------
(***************************************************************************)
(* The memory manager for every number of tasks, every layout of the       *)
(* memory that the assumptions allow and whatever the pages hold at power  *)
(* on.  The invariant says to the last entry what the directories and the  *)
(* tables hold; an owner for each page that was taken from the kernel's    *)
(* pool keeps them apart.                                                  *)
(***************************************************************************)
EXTENDS Mmu, FiniteSetTheorems, TLAPS

Full == {MMU_P, MMU_W, MMU_U}

Table == [Indexes -> Entry]

Memories == [KernelPages -> Table]

(* The argument and the result of the functions of mmu.c.                   *)
States == [mem : Memories, kfree : Nat, tlb : SUBSET Translation]

-----------------------------------------------------------------------------
(* Addresses and entries                                                    *)

(* A page number is its entry in the directory and its entry in the table.  *)
LEMMA Division ==
    ASSUME NEW v \in Nat
    PROVE  /\ VIRT_PAGE_DIR(v) \in Nat /\ VIRT_PAGE_TABLE(v) \in Indexes
           /\ v = ENTRIES * VIRT_PAGE_DIR(v) + VIRT_PAGE_TABLE(v)
  BY LayoutAssumption DEF VIRT_PAGE_DIR, VIRT_PAGE_TABLE, Indexes

(* The first pages are those of entry 0.                                    *)
LEMMA LowPages ==
    ASSUME NEW p \in KernelPages
    PROVE  VIRT_PAGE_DIR(p) = 0 /\ VIRT_PAGE_TABLE(p) = p
  BY LayoutAssumption DEF VIRT_PAGE_DIR, VIRT_PAGE_TABLE, KernelPages

(* The page after one that is not the last of its table.                    *)
LEMMA NextPage ==
    ASSUME NEW v \in Nat, NEW k \in 0 .. 3, VIRT_PAGE_DIR(v + 3) = VIRT_PAGE_DIR(v)
    PROVE  VIRT_PAGE_DIR(v + k) = VIRT_PAGE_DIR(v)
           /\ VIRT_PAGE_TABLE(v + k) = VIRT_PAGE_TABLE(v) + k
  BY LayoutAssumption DEF VIRT_PAGE_DIR, VIRT_PAGE_TABLE

(* Two pages with the same entries are one.                                 *)
LEMMA SamePage ==
    ASSUME NEW v \in Nat, NEW u \in Nat, VIRT_PAGE_DIR(v) = VIRT_PAGE_DIR(u),
           VIRT_PAGE_TABLE(v) = VIRT_PAGE_TABLE(u)
    PROVE  v = u
  BY Division

(* The directory entries of the tasks' pages, and the entry of the first    *)
(* page of code in its table.                                               *)
CodeDir == VIRT_PAGE_DIR(TASK_CODE_VIRTUAL)

DemandDir == VIRT_PAGE_DIR(ON_DEMAND_MEM_START_VIRTUAL)

WindowDir == VIRT_PAGE_DIR(SRC_VIRT_PAGE)

First == VIRT_PAGE_TABLE(TASK_CODE_VIRTUAL)

DemandSlot == VIRT_PAGE_TABLE(ON_DEMAND_MEM_START_VIRTUAL)

SrcSlot == VIRT_PAGE_TABLE(SRC_VIRT_PAGE)

DstSlot == VIRT_PAGE_TABLE(DST_VIRT_PAGE)

(* Where the pages of the tasks are in their tables.                        *)
LEMMA Slots ==
    /\ ENTRIES \in Nat /\ ENTRIES > 1
    /\ CodeDir \in 1 .. ENTRIES - 1 /\ DemandDir \in 1 .. ENTRIES - 1
    /\ WindowDir \in 1 .. ENTRIES - 1
    /\ CodeDir # DemandDir /\ CodeDir # WindowDir /\ DemandDir # WindowDir
    /\ \A k \in 0 .. 3 : /\ First + k \in Indexes
                         /\ VIRT_PAGE_DIR(TASK_CODE_VIRTUAL + k) = CodeDir
                         /\ VIRT_PAGE_TABLE(TASK_CODE_VIRTUAL + k) = First + k
    /\ TASK_CODE_VIRTUAL \in Nat /\ TASK_SHARED_PAGE = TASK_CODE_VIRTUAL + 3
    /\ First \in Nat /\ ON_DEMAND_MEM_START_VIRTUAL \in Nat
    /\ SRC_VIRT_PAGE \in Nat /\ DST_VIRT_PAGE \in Nat
    /\ DemandSlot \in Indexes /\ SrcSlot \in Indexes /\ DstSlot \in Indexes
    /\ SrcSlot # DstSlot /\ VIRT_PAGE_DIR(DST_VIRT_PAGE) = WindowDir
<1> DEFINE dirs == <<VIRT_PAGE_DIR(TASK_CODE_VIRTUAL),
                     VIRT_PAGE_DIR(ON_DEMAND_MEM_START_VIRTUAL),
                     VIRT_PAGE_DIR(SRC_VIRT_PAGE)>>
<1>1. ENTRIES \in Nat /\ ENTRIES > 1 /\ VirtPages \subseteq Nat
  BY LayoutAssumption DEF VirtPages
<1>2. /\ TASK_CODE_VIRTUAL \in Nat /\ ON_DEMAND_MEM_START_VIRTUAL \in Nat
      /\ SRC_VIRT_PAGE \in Nat /\ DST_VIRT_PAGE \in Nat
  BY <1>1, VirtualAssumption
<1>3. /\ \A i \in 1 .. 3 : dirs[i] \in 1 .. ENTRIES - 1
      /\ \A i, j \in 1 .. 3 : i # j => dirs[i] # dirs[j]
      /\ TASK_SHARED_PAGE = TASK_CODE_VIRTUAL + 3
      /\ VIRT_PAGE_DIR(TASK_SHARED_PAGE) = dirs[1]
      /\ VIRT_PAGE_DIR(DST_VIRT_PAGE) = dirs[3]
      /\ DST_VIRT_PAGE # SRC_VIRT_PAGE
  BY VirtualAssumption
<1>4. dirs[1] = CodeDir /\ dirs[2] = DemandDir /\ dirs[3] = WindowDir
  BY DEF CodeDir, DemandDir, WindowDir
<1> HIDE DEF dirs
<1>5. /\ CodeDir \in 1 .. ENTRIES - 1 /\ DemandDir \in 1 .. ENTRIES - 1
      /\ WindowDir \in 1 .. ENTRIES - 1
      /\ CodeDir # DemandDir /\ CodeDir # WindowDir /\ DemandDir # WindowDir
  BY <1>3, <1>4
<1>6. ASSUME NEW k \in 0 .. 3
      PROVE  /\ VIRT_PAGE_DIR(TASK_CODE_VIRTUAL + k) = CodeDir
             /\ VIRT_PAGE_TABLE(TASK_CODE_VIRTUAL + k) = First + k
             /\ First + k \in Indexes
  <2>1. VIRT_PAGE_DIR(TASK_CODE_VIRTUAL + 3) = VIRT_PAGE_DIR(TASK_CODE_VIRTUAL)
    BY <1>3, <1>4 DEF CodeDir
  <2>2. /\ VIRT_PAGE_DIR(TASK_CODE_VIRTUAL + k) = CodeDir
        /\ VIRT_PAGE_TABLE(TASK_CODE_VIRTUAL + k) = First + k
    BY <1>2, <2>1, NextPage DEF CodeDir, First
  <2>3. TASK_CODE_VIRTUAL + k \in Nat
    BY <1>2
  <2> QED BY <2>2, <2>3, Division
<1>7. DemandSlot \in Indexes /\ SrcSlot \in Indexes /\ DstSlot \in Indexes /\ First \in Nat
  BY <1>2, Division DEF DemandSlot, SrcSlot, DstSlot, First, Indexes
<1>8. SrcSlot # DstSlot
  BY <1>2, <1>3, <1>4, SamePage DEF SrcSlot, DstSlot, WindowDir
<1> QED BY <1>1, <1>2, <1>3, <1>4, <1>5, <1>6, <1>7, <1>8

(* The rights are three, and no entry grants none of them by being there.   *)
LEMMA Rights ==
    /\ MMU_P # MMU_W /\ MMU_P # MMU_U /\ MMU_W # MMU_U
    /\ Full \in SUBSET Full /\ {MMU_P, MMU_W} \in SUBSET Full
    /\ {MMU_P, MMU_U} \in SUBSET Full /\ {MMU_P} \in SUBSET Full
    /\ OnDemandAttrs = Full /\ NoEntry \in Entry /\ ZeroPage \in Table
  BY DEF MMU_P, MMU_W, MMU_U, Full, OnDemandAttrs, NoEntry, Entry, ZeroPage, Table

-----------------------------------------------------------------------------
(* The functions of mmu.c                                                   *)

Link(p) == [attrs |-> Full, page |-> p]

(* A table with pages mapped in it, and with one page.                      *)
Filled(t, pages, attrs) ==
    [i \in Indexes |-> IF i \in DOMAIN pages THEN [attrs |-> attrs, page |-> pages[i]]
                                             ELSE t[i]]

WithPage(t, virt, phy, attrs) ==
    [t EXCEPT ![VIRT_PAGE_TABLE(virt)] = [attrs |-> attrs, page |-> phy]]

Without(t, virt) == [t EXCEPT ![VIRT_PAGE_TABLE(virt)] = NoEntry]

(* From s to r a function put t into page table, and flushed the TLB.       *)
Changed(s, r, table, t) ==
    /\ r \in States /\ r.kfree = s.kfree /\ r.tlb = {}
    /\ r.mem[table] = t
    /\ \A p \in KernelPages \ {table} : r.mem[p] = s.mem[p]

(* The same with a new page, which it linked to entry dir of directory c.   *)
Made(s, r, c, dir, t) ==
    /\ r \in States /\ r.kfree = s.kfree + 1 /\ r.tlb = {}
    /\ r.mem[c] = [s.mem[c] EXCEPT ![dir] = Link(s.kfree)]
    /\ r.mem[s.kfree] = t
    /\ \A p \in KernelPages \ {c, s.kfree} : r.mem[p] = s.mem[p]

(* The arguments and results are what their three parts are.                *)
LEMMA StateParts ==
    /\ \A s \in States : /\ s.mem \in Memories /\ s.kfree \in Nat
                         /\ s.tlb \in SUBSET Translation
                         /\ s = [mem |-> s.mem, kfree |-> s.kfree, tlb |-> s.tlb]
    /\ \A m \in Memories, k \in Nat, b \in SUBSET Translation :
          [mem |-> m, kfree |-> k, tlb |-> b] \in States
  BY DEF States

(* A page of the kernel's pool.                                             *)
LEMMA NewPage ==
    ASSUME NEW s \in States, s.kfree \in KernelPages
    PROVE  LET r == mmu_next_free_kernel_page(s)
           IN  /\ r \in States /\ r.kfree = s.kfree + 1 /\ r.tlb = s.tlb
               /\ r.mem[s.kfree] = ZeroPage
               /\ \A p \in KernelPages \ {s.kfree} : r.mem[p] = s.mem[p]
<1> DEFINE r == mmu_next_free_kernel_page(s)
           m == [s.mem EXCEPT ![s.kfree] = ZeroPage]
<1>1. /\ s.mem \in Memories /\ s.kfree \in Nat /\ s.tlb \in SUBSET Translation
      /\ s = [mem |-> s.mem, kfree |-> s.kfree, tlb |-> s.tlb]
  BY StateParts
<1>2. /\ m \in Memories /\ m[s.kfree] = ZeroPage
      /\ \A p \in KernelPages \ {s.kfree} : m[p] = s.mem[p]
  BY <1>1, Rights DEF Memories
<1>3. r = [mem |-> m, kfree |-> s.kfree + 1, tlb |-> s.tlb]
  <2>1. PICK a, k, b : s = [mem |-> a, kfree |-> k, tlb |-> b]
    BY <1>1
  <2>2. r = [mem |-> [a EXCEPT ![k] = ZeroPage], kfree |-> k + 1, tlb |-> b]
    <3> DEFINE x == [s EXCEPT !.kfree = @ + 1]
    <3>1. x = [mem |-> a, kfree |-> k + 1, tlb |-> b] /\ s.kfree = k
      BY <2>1
    <3>2. r = [x EXCEPT !.mem[s.kfree] = ZeroPage]
      BY DEF mmu_next_free_kernel_page
    <3> HIDE DEF x, r
    <3> QED BY <3>1, <3>2
  <2> QED BY <2>1, <2>2
<1> HIDE DEF r, m
<1>4. r \in States
  BY <1>1, <1>2, <1>3, StateParts
<1> QED BY <1>2, <1>3, <1>4 DEF r

(* mmu_map_page in a table that is there.                                   *)
LEMMA MapFound ==
    ASSUME NEW s \in States, NEW c \in KernelPages, NEW dir \in Indexes,
           NEW table \in KernelPages, table # c,
           s.mem[c][dir] = Link(table),
           NEW pages, DOMAIN pages \subseteq Indexes, \A i \in DOMAIN pages : pages[i] \in Nat,
           NEW attrs \in SUBSET Full
    PROVE  Changed(s, mmu_map_pages(s, c, dir, pages, attrs), table,
                   Filled(s.mem[table], pages, attrs))
<1> DEFINE r == mmu_map_pages(s, c, dir, pages, attrs)
           pde == s.mem[c][dir]
           found == Present(pde)
           s1 == IF found THEN s ELSE mmu_next_free_kernel_page(s)
           tab == IF found THEN pde.page ELSE s.kfree
           new == IF found THEN [pde EXCEPT !.attrs = @ \cup attrs]
                           ELSE [attrs |-> {MMU_P, MMU_W, MMU_U}, page |-> tab]
           t == [i \in Indexes |-> IF i \in DOMAIN pages
                                    THEN [attrs |-> attrs, page |-> pages[i]]
                                    ELSE s.mem[table][i]]
           m == [s.mem EXCEPT ![table] = t]
<1>1. /\ s.mem \in Memories /\ s.kfree \in Nat /\ s.tlb \in SUBSET Translation
      /\ s = [mem |-> s.mem, kfree |-> s.kfree, tlb |-> s.tlb]
  BY StateParts
<1>2. s.mem[c] \in Table /\ s.mem[table] \in Table
  BY <1>1 DEF Memories
<1>3. r = tlbflush([s1 EXCEPT !.mem[c][dir] = new,
                              !.mem[tab] = [i \in Indexes |->
                                 IF i \in DOMAIN pages
                                 THEN [attrs |-> attrs, page |-> pages[i]] ELSE @[i]]])
  BY DEF mmu_map_pages
<1>4. s1 = s /\ tab = table /\ new = pde
  <2>1. found
    BY DEF Present, Link, Full
  <2>2. pde = [attrs |-> Full, page |-> table] /\ Full \cup attrs = Full
    BY DEF Link
  <2> HIDE DEF found
  <2> QED BY <2>1, <2>2
<1>5. t \in Table
  <2>1. \A i \in DOMAIN pages : [attrs |-> attrs, page |-> pages[i]] \in Entry
    BY DEF Entry, Full
  <2> QED BY <1>2, <2>1 DEF Table
<1> HIDE DEF s1, tab, new
<1>6. [s.mem EXCEPT ![c][dir] = pde] = s.mem
  BY <1>1, <1>2 DEF Memories, Table
<1>7. r = [mem |-> m, kfree |-> s.kfree, tlb |-> {}]
  <2>1. r = tlbflush([s EXCEPT !.mem[c][dir] = pde,
                               !.mem[table] = [i \in Indexes |->
                                  IF i \in DOMAIN pages
                                  THEN [attrs |-> attrs, page |-> pages[i]] ELSE @[i]]])
    BY <1>3, <1>4
  <2>2. [s EXCEPT !.mem[c][dir] = pde] = s
    BY <1>1, <1>6
  <2> QED BY <1>1, <2>1, <2>2 DEF tlbflush
<1> HIDE DEF r, t
<1>8. /\ m \in Memories /\ m[table] = t
      /\ \A p \in KernelPages \ {table} : m[p] = s.mem[p]
  BY <1>1, <1>5 DEF Memories
<1> HIDE DEF m
<1>9. r \in States
  BY <1>1, <1>7, <1>8, StateParts
<1> QED BY <1>7, <1>8, <1>9 DEF r, t, Changed, Filled

(* mmu_map_page in a new table.                                             *)
LEMMA MapNew ==
    ASSUME NEW s \in States, s.kfree \in KernelPages,
           NEW c \in KernelPages, c # s.kfree, NEW dir \in Indexes,
           s.mem[c][dir] = NoEntry,
           NEW pages, DOMAIN pages \subseteq Indexes, \A i \in DOMAIN pages : pages[i] \in Nat,
           NEW attrs \in SUBSET Full
    PROVE  Made(s, mmu_map_pages(s, c, dir, pages, attrs), c, dir,
                Filled(ZeroPage, pages, attrs))
<1> DEFINE r == mmu_map_pages(s, c, dir, pages, attrs)
           pde == s.mem[c][dir]
           found == Present(pde)
           z == mmu_next_free_kernel_page(s)
           s1 == IF found THEN s ELSE z
           tab == IF found THEN pde.page ELSE s.kfree
           new == IF found THEN [pde EXCEPT !.attrs = @ \cup attrs]
                           ELSE [attrs |-> {MMU_P, MMU_W, MMU_U}, page |-> tab]
           link == [attrs |-> Full, page |-> s.kfree]
           t == [i \in Indexes |-> IF i \in DOMAIN pages
                                    THEN [attrs |-> attrs, page |-> pages[i]]
                                    ELSE NoEntry]
           d == [z.mem[c] EXCEPT ![dir] = link]
           m == [[z.mem EXCEPT ![c] = d] EXCEPT ![s.kfree] = t]
<1>1. /\ s.mem \in Memories /\ s.kfree \in Nat /\ s.tlb \in SUBSET Translation
  BY StateParts
<1>2. /\ z \in States /\ z.kfree = s.kfree + 1 /\ z.tlb = s.tlb
      /\ z.mem[s.kfree] = ZeroPage
      /\ \A p \in KernelPages \ {s.kfree} : z.mem[p] = s.mem[p]
  BY NewPage
<1>3. r = tlbflush([s1 EXCEPT !.mem[c][dir] = new,
                              !.mem[tab] = [i \in Indexes |->
                                 IF i \in DOMAIN pages
                                 THEN [attrs |-> attrs, page |-> pages[i]] ELSE @[i]]])
  BY DEF mmu_map_pages
<1> HIDE DEF z
<1>4. s1 = z /\ tab = s.kfree /\ new = link
  <2>1. ~found
    BY DEF Present, NoEntry
  <2> HIDE DEF found
  <2> QED BY <2>1 DEF Full
<1>5. t \in Table
  <2>1. \A i \in DOMAIN pages : [attrs |-> attrs, page |-> pages[i]] \in Entry
    BY DEF Entry, Full
  <2> QED BY <2>1, Rights DEF Table
<1>6. d \in Table /\ z.mem \in Memories
  <2>1. z.mem \in Memories /\ z.mem[c] \in Table
    BY <1>2, StateParts DEF Memories
  <2>2. link \in Entry
    BY <1>1 DEF Entry, Full
  <2> QED BY <2>1, <2>2 DEF Table
<1> HIDE DEF s1, tab, new, r
<1>7. r = [mem |-> m, kfree |-> s.kfree + 1, tlb |-> {}]
  <2>1. r = tlbflush([z EXCEPT !.mem[c][dir] = link,
                               !.mem[s.kfree] = [i \in Indexes |->
                                  IF i \in DOMAIN pages
                                  THEN [attrs |-> attrs, page |-> pages[i]] ELSE @[i]]])
    BY <1>3, <1>4
  <2>2. PICK a, k, b : z = [mem |-> a, kfree |-> k, tlb |-> b]
    BY <1>2, StateParts
  <2>3. a = z.mem /\ k = s.kfree + 1
    BY <1>2, <2>2
  <2>4. [z EXCEPT !.mem[c][dir] = link] = [mem |-> [a EXCEPT ![c] = d], kfree |-> k, tlb |-> b]
    BY <2>2, <2>3
  <2> DEFINE w == [a EXCEPT ![c] = d]
             x == [z EXCEPT !.mem[c][dir] = link]
  <2>5. [i \in Indexes |-> IF i \in DOMAIN pages
                           THEN [attrs |-> attrs, page |-> pages[i]] ELSE ZeroPage[i]] = t
    BY DEF ZeroPage
  <2> HIDE DEF d, t, link, w
  <2>6. x = [mem |-> w, kfree |-> k, tlb |-> b]
    BY <2>4 DEF w
  <2>7. [x EXCEPT !.mem[s.kfree] = [i \in Indexes |->
                                     IF i \in DOMAIN pages
                                     THEN [attrs |-> attrs, page |-> pages[i]]
                                     ELSE z.mem[s.kfree][i]]]
        = [mem |-> [w EXCEPT ![s.kfree] = t], kfree |-> k, tlb |-> b]
    <3>1. z.mem[s.kfree] = ZeroPage
      BY <1>2
    <3> HIDE DEF x
    <3> QED BY <2>5, <2>6, <3>1
  <2>8. [z EXCEPT !.mem[c][dir] = link,
                 !.mem[s.kfree] = [i \in Indexes |->
                    IF i \in DOMAIN pages
                    THEN [attrs |-> attrs, page |-> pages[i]] ELSE @[i]]]
        = [mem |-> [w EXCEPT ![s.kfree] = t], kfree |-> k, tlb |-> b]
    BY <2>7
  <2>9. r = tlbflush([mem |-> [w EXCEPT ![s.kfree] = t], kfree |-> k, tlb |-> b])
    BY <2>1, <2>8
  <2> QED BY <2>3, <2>9 DEF tlbflush, w
<1> HIDE DEF t
<1>8. /\ m \in Memories /\ m[s.kfree] = t /\ m[c] = d
      /\ \A p \in KernelPages \ {c, s.kfree} : m[p] = s.mem[p]
  <2> HIDE DEF d
  <2> QED BY <1>2, <1>5, <1>6 DEF Memories
<1>9. d = [s.mem[c] EXCEPT ![dir] = link]
  BY <1>2
<1> HIDE DEF m, d
<1>10. r \in States
  BY <1>1, <1>7, <1>8, StateParts
<1>11. t = Filled(ZeroPage, pages, attrs)
  BY DEF t, Filled, ZeroPage
<1> QED BY <1>7, <1>8, <1>9, <1>10, <1>11 DEF r, Made, Link

-----------------------------------------------------------------------------
(* What the directories and the tables hold                                 *)

IdentityTable == [i \in Indexes |-> [attrs |-> {MMU_P, MMU_W}, page |-> i]]

(* The table of the code, the stack and the shared page of t.               *)
TaskTable(t, stack) ==
    [i \in Indexes |->
       IF i = First THEN [attrs |-> {MMU_P, MMU_U}, page |-> CodeStart[t]]
       ELSE IF i = First + 1 THEN [attrs |-> {MMU_P, MMU_U}, page |-> CodeStart[t] + 1]
       ELSE IF i = First + 2 THEN [attrs |-> Full, page |-> stack]
       ELSE IF i = First + 3 THEN [attrs |-> {MMU_P, MMU_U}, page |-> SHARED]
       ELSE NoEntry]

DemandTable ==
    [ZeroPage EXCEPT ![DemandSlot] = [attrs |-> OnDemandAttrs,
                                      page |-> ON_DEMAND_MEM_START_PHYSICAL]]

(* The directory of a task at page c: its tables are the next two pages and *)
(* e is the entry of the on-demand page.                                    *)
TaskDir(c, e) ==
    [i \in Indexes |-> IF i = 0 THEN Link(c + 1)
                       ELSE IF i = CodeDir THEN Link(c + 2)
                       ELSE IF i = DemandDir THEN e ELSE NoEntry]

(* The directory of the kernel, with the entry of the windows.              *)
KernelDir(e) ==
    [i \in Indexes |-> IF i = 0 THEN [attrs |-> {MMU_P, MMU_W}, page |-> KERNEL_PAGE_TABLE_0]
                       ELSE IF i = WindowDir THEN e ELSE NoEntry]

(* The pages that a task took from the kernel's pool, its kernel stack the  *)
(* fourth of them, and those that the windows of copy_page did.             *)
Held(m, c) == (c .. c + 3) \cup {p \in KernelPages : m[c][DemandDir] = Link(p)}

WindowPages(m) == {p \in KernelPages : m[KERNEL_PAGE_DIR][WindowDir] = Link(p)}

DemandMade(m, c) ==
    \E p \in KernelPages : /\ m[c][DemandDir] = Link(p) /\ m[p] = DemandTable
                           /\ p \notin c .. c + 3

TaskSpace(m, t, c) ==
    /\ m[c] = TaskDir(c, m[c][DemandDir])
    /\ m[c + 1] = IdentityTable
    /\ m[c + 2] = TaskTable(t, m[c + 2][First + 2].page)
    /\ m[c][DemandDir] = NoEntry \/ DemandMade(m, c)

WindowMade(m) ==
    \E p \in KernelPages : m[KERNEL_PAGE_DIR][WindowDir] = Link(p) /\ m[p] = ZeroPage

KernelSpace(m) ==
    /\ m[KERNEL_PAGE_DIR] = KernelDir(m[KERNEL_PAGE_DIR][WindowDir])
    /\ m[KERNEL_PAGE_TABLE_0] = IdentityTable
    /\ m[KERNEL_PAGE_DIR][WindowDir] = NoEntry \/ WindowMade(m)

-----------------------------------------------------------------------------
(* The functions of mmu.c on those tables                                   *)

(* mmu_map_page of one page, in a table that is there.                      *)
LEMMA MapPageFound ==
    ASSUME NEW s \in States, NEW c \in KernelPages, NEW virt \in Nat,
           VIRT_PAGE_DIR(virt) \in Indexes, NEW table \in KernelPages, table # c,
           s.mem[c][VIRT_PAGE_DIR(virt)] = Link(table),
           NEW phy \in Nat, NEW attrs \in SUBSET Full
    PROVE  Changed(s, mmu_map_page(s, c, virt, phy, attrs), table,
                   WithPage(s.mem[table], virt, phy, attrs))
<1> DEFINE slot == VIRT_PAGE_TABLE(virt)
           pages == [i \in {slot} |-> phy]
           dir == VIRT_PAGE_DIR(virt)
           r == mmu_map_pages(s, c, dir, pages, attrs)
<1>1. slot \in Indexes
  BY Division
<1> HIDE DEF slot
<1>2. DOMAIN pages = {slot} /\ DOMAIN pages \subseteq Indexes
      /\ \A i \in DOMAIN pages : pages[i] = phy /\ pages[i] \in Nat
  BY <1>1
<1>3. dir \in Indexes /\ s.mem[c][dir] = Link(table)
  OBVIOUS
<1> HIDE DEF pages, dir
<1>4. Changed(s, r, table, Filled(s.mem[table], pages, attrs))
  BY <1>2, <1>3, MapFound
<1>5. s.mem[table] \in Table
  BY StateParts DEF Memories
<1>6. Filled(s.mem[table], pages, attrs) = WithPage(s.mem[table], virt, phy, attrs)
  BY <1>1, <1>2, <1>5 DEF Table, Filled, WithPage, slot
<1>7. r = mmu_map_page(s, c, virt, phy, attrs)
  BY DEF r, mmu_map_page, pages, dir, slot
<1> QED BY <1>4, <1>6, <1>7

(* mmu_map_page of one page, in a new table.                                *)
LEMMA MapPageNew ==
    ASSUME NEW s \in States, s.kfree \in KernelPages,
           NEW c \in KernelPages, c # s.kfree, NEW virt \in Nat,
           VIRT_PAGE_DIR(virt) \in Indexes, s.mem[c][VIRT_PAGE_DIR(virt)] = NoEntry,
           NEW phy \in Nat, NEW attrs \in SUBSET Full
    PROVE  Made(s, mmu_map_page(s, c, virt, phy, attrs), c, VIRT_PAGE_DIR(virt),
                WithPage(ZeroPage, virt, phy, attrs))
<1> DEFINE slot == VIRT_PAGE_TABLE(virt)
           pages == [i \in {slot} |-> phy]
           dir == VIRT_PAGE_DIR(virt)
           r == mmu_map_pages(s, c, dir, pages, attrs)
<1>1. slot \in Indexes
  BY Division
<1> HIDE DEF slot
<1>2. DOMAIN pages = {slot} /\ DOMAIN pages \subseteq Indexes
      /\ \A i \in DOMAIN pages : pages[i] = phy /\ pages[i] \in Nat
  BY <1>1
<1>3. s.mem[c][dir] = NoEntry /\ dir \in Indexes
  OBVIOUS
<1> HIDE DEF pages, dir
<1>4. Made(s, r, c, dir, Filled(ZeroPage, pages, attrs))
  BY <1>2, <1>3, MapNew
<1>5. Filled(ZeroPage, pages, attrs) = WithPage(ZeroPage, virt, phy, attrs)
  BY <1>1, <1>2 DEF ZeroPage, Filled, WithPage, slot
<1>6. r = mmu_map_page(s, c, virt, phy, attrs)
  BY DEF r, mmu_map_page, pages, dir, slot
<1> QED BY <1>4, <1>5, <1>6 DEF dir

(* mmu_unmap_page in a table that is there.                                 *)
LEMMA UnmapPage ==
    ASSUME NEW s \in States, NEW c \in KernelPages, NEW virt \in Nat,
           NEW table \in KernelPages, s.mem[c][VIRT_PAGE_DIR(virt)] = Link(table)
    PROVE  Changed(s, mmu_unmap_page(s, c, virt), table, Without(s.mem[table], virt))
<1> DEFINE pde == s.mem[c][VIRT_PAGE_DIR(virt)]
           slot == VIRT_PAGE_TABLE(virt)
           r == mmu_unmap_page(s, c, virt)
           t == [s.mem[table] EXCEPT ![slot] = NoEntry]
           m == [s.mem EXCEPT ![table] = t]
<1>1. Present(pde) /\ pde.page = table
  BY DEF Present, Link, Full
<1>2. r = tlbflush([s EXCEPT !.mem[pde.page][slot] = NoEntry])
  BY <1>1 DEF mmu_unmap_page
<1> HIDE DEF pde, slot
<1>3. slot \in Indexes
  BY Division DEF slot
<1>4. /\ s.mem \in Memories /\ s.kfree \in Nat
      /\ s = [mem |-> s.mem, kfree |-> s.kfree, tlb |-> s.tlb]
  BY StateParts
<1>5. t \in Table
  BY <1>4, Rights DEF Memories, Table
<1>6. r = [mem |-> m, kfree |-> s.kfree, tlb |-> {}]
  BY <1>1, <1>2, <1>4 DEF tlbflush
<1> HIDE DEF r, t
<1>7. m \in Memories /\ m[table] = t /\ \A p \in KernelPages \ {table} : m[p] = s.mem[p]
  BY <1>4, <1>5 DEF Memories
<1> HIDE DEF m
<1>8. r \in States
  BY <1>4, <1>6, <1>7, StateParts
<1> QED BY <1>6, <1>7, <1>8 DEF r, t, slot, Changed, Without

(* From s to r the address space of t was made at the next page of the pool *)
(* (d is where only the kernel stack is missing).                           *)
SpaceMade(s, d, r, t, stack) ==
    LET c == s.kfree
    IN  /\ r \in States /\ d.kfree = c + 3 /\ r.kfree = c + 4 /\ r.tlb = {}
        /\ r.mem[c] = TaskDir(c, NoEntry)
        /\ r.mem[c + 1] = IdentityTable
        /\ r.mem[c + 2] = TaskTable(t, stack)
        /\ \A p \in KernelPages \ (c .. c + 3) : r.mem[p] = s.mem[p]

(* The address space of a new task, and its kernel stack after it.          *)
LEMMA InitTaskDir ==
    ASSUME NEW s \in States, NEW t \in Tasks, NEW stack \in Nat,
           s.kfree \in KernelPages, s.kfree + 3 \in KernelPages
    PROVE  LET d == mmu_init_task_dir(s, CodeStart[t], stack)
           IN  SpaceMade(s, d, mmu_next_free_kernel_page(d), t, stack)
<1> DEFINE c == s.kfree
           code == CodeStart[t]
           s0 == mmu_next_free_kernel_page(s)
           pw == {MMU_P, MMU_W}
           pu == {MMU_P, MMU_U}
           s1 == mmu_map_pages(s0, c, 0, IdentityPages, pw)
           s2 == mmu_map_page(s1, c, TASK_CODE_VIRTUAL, code, pu)
           s3 == mmu_map_page(s2, c, TASK_CODE_VIRTUAL + 1, code + 1, pu)
           s4 == mmu_map_page(s3, c, TASK_CODE_VIRTUAL + 2, stack, Full)
           s5 == mmu_map_page(s4, c, TASK_CODE_VIRTUAL + 3, SHARED, pu)
           d == mmu_init_task_dir(s, code, stack)
           r == mmu_next_free_kernel_page(d)
<1>1. d = s5
  BY Slots DEF mmu_init_task_dir, Full
<1> HIDE DEF d, s5
<1>12. pw \in SUBSET Full /\ pu \in SUBSET Full /\ Full \in SUBSET Full
  BY Rights
<1> HIDE DEF pw, pu
<1>2. /\ c \in Nat /\ c \in KernelPages /\ c + 1 \in KernelPages
      /\ c + 2 \in KernelPages /\ c + 3 \in KernelPages
  BY Slots DEF KernelPages
<1>3. code \in Nat /\ code + 1 \in Nat /\ SHARED \in Nat
  BY LayoutAssumption, PhysicalAssumption
<1>4. /\ TASK_SHARED_PAGE - 1 = TASK_CODE_VIRTUAL + 2
      /\ TASK_SHARED_PAGE = TASK_CODE_VIRTUAL + 3
      /\ \A k \in 0 .. 3 :
            /\ TASK_CODE_VIRTUAL + k \in Nat /\ First + k \in Indexes
            /\ VIRT_PAGE_DIR(TASK_CODE_VIRTUAL + k) = CodeDir
            /\ VIRT_PAGE_TABLE(TASK_CODE_VIRTUAL + k) = First + k
      /\ CodeDir \in Indexes /\ CodeDir # 0 /\ 0 \in Indexes
  BY Slots DEF Indexes
<1>5. TASK_CODE_VIRTUAL = TASK_CODE_VIRTUAL + 0 /\ First = First + 0 /\ First \in Nat
  BY Slots DEF Indexes
<1>6. /\ s0 \in States /\ s0.kfree = c + 1 /\ s0.mem[c] = ZeroPage
      /\ \A p \in KernelPages \ {c} : s0.mem[p] = s.mem[p]
  BY <1>2, NewPage
<1> HIDE DEF c, s0
<1>7. /\ s1 \in States /\ s1.kfree = c + 2
      /\ s1.mem[c] = [ZeroPage EXCEPT ![0] = Link(c + 1)]
      /\ s1.mem[c + 1] = IdentityTable
      /\ \A p \in KernelPages \ {c, c + 1} : s1.mem[p] = s.mem[p]
  <2>1. /\ DOMAIN IdentityPages \subseteq Indexes
        /\ \A i \in DOMAIN IdentityPages : IdentityPages[i] \in Nat
    BY DEF IdentityPages, Indexes
  <2>2. pw \in SUBSET Full
    BY <1>12
  <2>3. s0.mem[c][0] = NoEntry /\ s0.kfree \in KernelPages /\ c # s0.kfree
    BY <1>2, <1>4, <1>6 DEF ZeroPage
  <2>4. Made(s0, s1, c, 0, Filled(ZeroPage, IdentityPages, pw))
    BY ONLY <1>2, <1>4, <1>6, <2>1, <2>2, <2>3, MapNew
  <2>5. Filled(ZeroPage, IdentityPages, pw) = IdentityTable
    BY DEF Filled, IdentityPages, IdentityTable, pw
  <2> HIDE DEF s1
  <2> QED BY <1>2, <1>6, <2>4, <2>5 DEF Made
<1> HIDE DEF s1
<1>8. /\ s2 \in States /\ s2.kfree = c + 3
      /\ s2.mem[c] = [[ZeroPage EXCEPT ![0] = Link(c + 1)] EXCEPT ![CodeDir] = Link(c + 2)]
      /\ s2.mem[c + 1] = IdentityTable
      /\ s2.mem[c + 2] = [ZeroPage EXCEPT
                            ![First] = [attrs |-> pu, page |-> code]]
      /\ \A p \in KernelPages \ {c, c + 1, c + 2} : s2.mem[p] = s.mem[p]
  <2>1. /\ TASK_CODE_VIRTUAL \in Nat /\ VIRT_PAGE_DIR(TASK_CODE_VIRTUAL) = CodeDir
        /\ VIRT_PAGE_TABLE(TASK_CODE_VIRTUAL) = First
    BY Slots DEF CodeDir, First
  <2>2. s1.mem[c][CodeDir] = NoEntry
    BY <1>4, <1>7 DEF ZeroPage
  <2>3. s1.kfree \in KernelPages /\ c # s1.kfree
    BY <1>2, <1>7
  <2>4. pu \in SUBSET Full
    BY <1>12
  <2>5. Made(s1, s2, c, VIRT_PAGE_DIR(TASK_CODE_VIRTUAL),
             WithPage(ZeroPage, TASK_CODE_VIRTUAL, code, pu))
    BY <1>2, <1>3, <1>4, <1>7, <2>1, <2>2, <2>3, <2>4, MapPageNew
  <2> HIDE DEF s2
  <2> QED BY <1>2, <1>7, <2>1, <2>5 DEF Made, WithPage
<1> HIDE DEF s2
<1> DEFINE dir == [[ZeroPage EXCEPT ![0] = Link(c + 1)] EXCEPT ![CodeDir] = Link(c + 2)]
           Put(t0, k, attrs, phy) == [t0 EXCEPT ![First + k] = [attrs |-> attrs, page |-> phy]]
           t1 == [ZeroPage EXCEPT ![First] = [attrs |-> pu, page |-> code]]
           t2 == Put(t1, 1, pu, code + 1)
           t3 == Put(t2, 2, Full, stack)
           t4 == Put(t3, 3, pu, SHARED)
           Stage(x, t0) == /\ x \in States /\ x.kfree = c + 3 /\ x.mem[c] = dir
                           /\ x.mem[c + 1] = IdentityTable /\ x.mem[c + 2] = t0
                           /\ \A p \in KernelPages \ {c, c + 1, c + 2} : x.mem[p] = s.mem[p]
<1>9. dir[CodeDir] = Link(c + 2)
  BY <1>4 DEF ZeroPage
<1>10. Stage(s2, t1)
  BY <1>8
<1> HIDE DEF dir, t1, t2, t3, t4, Put, Stage
<1>11. ASSUME NEW x, NEW old, NEW k \in 0 .. 3, NEW phy \in Nat,
              NEW attrs \in SUBSET Full, Stage(x, old)
       PROVE  /\ Stage(mmu_map_page(x, c, TASK_CODE_VIRTUAL + k, phy, attrs),
                        Put(old, k, attrs, phy))
              /\ mmu_map_page(x, c, TASK_CODE_VIRTUAL + k, phy, attrs).tlb = {}
  <2> DEFINE virt == TASK_CODE_VIRTUAL + k
             y == mmu_map_page(x, c, virt, phy, attrs)
  <2>1. /\ virt \in Nat /\ VIRT_PAGE_DIR(virt) = CodeDir
        /\ VIRT_PAGE_TABLE(virt) = First + k
    BY <1>4
  <2> HIDE DEF virt
  <2>2. /\ x \in States /\ x.kfree = c + 3 /\ x.mem[c] = dir
        /\ x.mem[c + 1] = IdentityTable /\ x.mem[c + 2] = old
        /\ \A p \in KernelPages \ {c, c + 1, c + 2} : x.mem[p] = s.mem[p]
    BY <1>11 DEF Stage
  <2>3. VIRT_PAGE_DIR(virt) \in Indexes /\ x.mem[c][VIRT_PAGE_DIR(virt)] = Link(c + 2)
    BY <1>4, <1>9, <2>1, <2>2
  <2>4. c + 2 # c /\ c + 2 # c + 1
    BY <1>2
  <2>5. Changed(x, y, c + 2, WithPage(x.mem[c + 2], virt, phy, attrs))
    BY <1>2, <2>1, <2>2, <2>3, <2>4, MapPageFound
  <2> HIDE DEF y
  <2>6. y.mem[c + 2] = Put(old, k, attrs, phy)
    BY <2>1, <2>2, <2>5 DEF Changed, WithPage, Put
  <2>7. Stage(y, Put(old, k, attrs, phy)) /\ y.tlb = {}
    BY <1>2, <2>2, <2>4, <2>5, <2>6 DEF Changed, Stage
  <2> QED BY <2>7 DEF y, virt
<1>13. 1 \in 0 .. 3 /\ 2 \in 0 .. 3 /\ 3 \in 0 .. 3
  OBVIOUS
<1>14. Stage(s3, t2)
  BY <1>3, <1>10, <1>11, <1>12, <1>13 DEF t2
<1> HIDE DEF s3
<1>15. Stage(s4, t3)
  BY <1>11, <1>12, <1>13, <1>14 DEF t3
<1> HIDE DEF s4
<1>16. Stage(s5, t4) /\ s5.tlb = {}
  BY <1>3, <1>11, <1>12, <1>13, <1>15 DEF t4, s5
<1>17. dir = TaskDir(c, NoEntry) /\ t4 = TaskTable(t, stack)
  <2>1. /\ First \in Indexes /\ First + 1 \in Indexes /\ First + 2 \in Indexes
        /\ First + 3 \in Indexes /\ First \in Nat
    BY <1>4, <1>5
  <2> DEFINE e0 == [attrs |-> pu, page |-> code]
             e1 == [attrs |-> pu, page |-> code + 1]
             e2 == [attrs |-> Full, page |-> stack]
             e3 == [attrs |-> pu, page |-> SHARED]
  <2>2. /\ t1 = [ZeroPage EXCEPT ![First] = e0] /\ t2 = [t1 EXCEPT ![First + 1] = e1]
        /\ t3 = [t2 EXCEPT ![First + 2] = e2] /\ t4 = [t3 EXCEPT ![First + 3] = e3]
    BY DEF t1, t2, t3, t4, Put
  <2>3. TaskTable(t, stack) = [i \in Indexes |-> IF i = First THEN e0
                                                 ELSE IF i = First + 1 THEN e1
                                                 ELSE IF i = First + 2 THEN e2
                                                 ELSE IF i = First + 3 THEN e3 ELSE NoEntry]
    BY DEF TaskTable, pu, code
  <2> HIDE DEF e0, e1, e2, e3
  <2>4. DOMAIN t1 = Indexes /\ \A i \in Indexes : t1[i] = IF i = First THEN e0 ELSE NoEntry
    BY <2>2 DEF ZeroPage
  <2>5. DOMAIN t2 = Indexes
        /\ \A i \in Indexes : t2[i] = IF i = First + 1 THEN e1 ELSE t1[i]
    BY <2>1, <2>2, <2>4
  <2>7. DOMAIN t3 = Indexes
        /\ \A i \in Indexes : t3[i] = IF i = First + 2 THEN e2 ELSE t2[i]
    BY <2>1, <2>2, <2>5
  <2>8. t4 = [i \in Indexes |-> IF i = First + 3 THEN e3 ELSE t3[i]]
    BY <2>1, <2>2, <2>7
  <2>9. \A i \in Indexes : (IF i = First + 3 THEN e3 ELSE t3[i])
                             = IF i = First THEN e0
                               ELSE IF i = First + 1 THEN e1
                               ELSE IF i = First + 2 THEN e2
                               ELSE IF i = First + 3 THEN e3 ELSE NoEntry
    BY <2>1, <2>4, <2>5, <2>7
  <2>10. t4 = TaskTable(t, stack)
    BY <2>3, <2>8, <2>9, Zenon
  <2>6. dir = TaskDir(c, NoEntry)
    BY <1>4 DEF dir, TaskDir, ZeroPage
  <2> QED BY <2>6, <2>10
<1>18. /\ r \in States /\ r.kfree = d.kfree + 1 /\ r.tlb = d.tlb
       /\ \A p \in KernelPages \ {d.kfree} : r.mem[p] = d.mem[p]
  <2>1. d \in States /\ d.kfree \in KernelPages
    BY <1>1, <1>2, <1>16 DEF Stage
  <2> QED BY <2>1, NewPage
<1> HIDE DEF r
<1>19. /\ r \in States /\ d.kfree = c + 3 /\ r.kfree = c + 4 /\ r.tlb = {}
       /\ r.mem[c] = TaskDir(c, NoEntry) /\ r.mem[c + 1] = IdentityTable
       /\ r.mem[c + 2] = TaskTable(t, stack)
       /\ \A p \in KernelPages \ (c .. c + 3) : r.mem[p] = s.mem[p]
  BY <1>1, <1>2, <1>16, <1>17, <1>18 DEF Stage
<1> QED BY <1>19 DEF c, d, r, code, SpaceMade

(* The places of the kernel's directory and of the windows.                 *)
LEMMA WindowPlaces ==
    /\ SRC_VIRT_PAGE \in Nat /\ DST_VIRT_PAGE \in Nat /\ WindowDir # 0
    /\ VIRT_PAGE_DIR(SRC_VIRT_PAGE) = WindowDir /\ VIRT_PAGE_DIR(DST_VIRT_PAGE) = WindowDir
    /\ WindowDir \in Indexes /\ KERNEL_PAGE_DIR \in KernelPages
    /\ KERNEL_PAGE_TABLE_0 \in KernelPages /\ KERNEL_PAGE_TABLE_0 # KERNEL_PAGE_DIR
    /\ KERNEL_PAGE_DIR # 0 /\ KERNEL_PAGE_DIR < FIRST_KERNEL_PAGE
    /\ KERNEL_PAGE_TABLE_0 < FIRST_KERNEL_PAGE /\ FIRST_KERNEL_PAGE \in Nat
    /\ FIRST_KERNEL_PAGE > 0
<1>1. KERNEL_PAGE_DIR \in 1 .. FIRST_KERNEL_PAGE - 1
      /\ KERNEL_PAGE_TABLE_0 \in 1 .. FIRST_KERNEL_PAGE - 1
      /\ KERNEL_PAGE_TABLE_0 # KERNEL_PAGE_DIR
      /\ FIRST_KERNEL_PAGE \in Nat /\ FIRST_KERNEL_PAGE <= ENTRIES /\ ENTRIES \in Nat
  BY LayoutAssumption
<1> QED BY <1>1, Slots DEF Indexes, KernelPages, WindowDir

(* The table of the windows while they are open.                            *)
WindowTable(dst, src) ==
    WithPage(WithPage(ZeroPage, SRC_VIRT_PAGE, src, {MMU_P}),
             DST_VIRT_PAGE, dst, {MMU_P, MMU_W})

(* From s to r the table w of the windows becomes t: it is the one that the *)
(* kernel has, or a new one.                                                *)
WindowsBecome(s, r, w, t) ==
    /\ w \in KernelPages \ {KERNEL_PAGE_DIR}
    /\ r \in States /\ r.tlb = {}
    /\ r.mem[KERNEL_PAGE_DIR] = KernelDir(Link(w)) /\ r.mem[w] = t
    /\ \A p \in KernelPages \ {KERNEL_PAGE_DIR, w} : r.mem[p] = s.mem[p]
    /\ \/ /\ s.mem[KERNEL_PAGE_DIR][WindowDir] = NoEntry
          /\ w = s.kfree /\ r.kfree = s.kfree + 1
       \/ /\ s.mem[KERNEL_PAGE_DIR][WindowDir] = Link(w) /\ r.kfree = s.kfree

(* The entries of the windows, and what their opening and closing leaves.   *)
LEMMA WindowTables ==
    ASSUME NEW dst \in Nat, NEW src \in Nat
    PROVE  LET t == WindowTable(dst, src)
           IN  /\ DOMAIN t = Indexes
               /\ t[SrcSlot] = [attrs |-> {MMU_P}, page |-> src]
               /\ t[DstSlot] = [attrs |-> {MMU_P, MMU_W}, page |-> dst]
               /\ Without(Without(t, SRC_VIRT_PAGE), DST_VIRT_PAGE) = ZeroPage
<1> DEFINE e0 == [attrs |-> {MMU_P}, page |-> src]
           e1 == [attrs |-> {MMU_P, MMU_W}, page |-> dst]
           t0 == [ZeroPage EXCEPT ![SrcSlot] = e0]
           t == WindowTable(dst, src)
           u == Without(t, SRC_VIRT_PAGE)
<1>1. t = [t0 EXCEPT ![DstSlot] = e1]
  BY DEF WindowTable, WithPage, SrcSlot, DstSlot
<1>2. SrcSlot \in Indexes /\ DstSlot \in Indexes /\ SrcSlot # DstSlot
  BY Slots
<1> HIDE DEF e0, e1, t
<1>3. DOMAIN t0 = Indexes /\ \A i \in Indexes : t0[i] = IF i = SrcSlot THEN e0 ELSE NoEntry
  BY <1>2 DEF ZeroPage
<1> HIDE DEF t0
<1>4. DOMAIN t = Indexes /\ \A i \in Indexes : t[i] = IF i = DstSlot THEN e1 ELSE t0[i]
  BY <1>1, <1>2, <1>3
<1>5. DOMAIN u = Indexes /\ \A i \in Indexes : u[i] = IF i = SrcSlot THEN NoEntry ELSE t[i]
  BY <1>2, <1>4 DEF Without, SrcSlot
<1> HIDE DEF u
<1>6. Without(u, DST_VIRT_PAGE) = [i \in Indexes |-> IF i = DstSlot THEN NoEntry ELSE u[i]]
  BY <1>2, <1>5 DEF Without, DstSlot
<1>7. \A i \in Indexes : (IF i = DstSlot THEN NoEntry ELSE u[i]) = NoEntry
  BY <1>3, <1>4, <1>5
<1>8. Without(u, DST_VIRT_PAGE) = ZeroPage
  BY <1>6, <1>7, Zenon DEF ZeroPage
<1> QED BY <1>2, <1>3, <1>4, <1>8 DEF t, u, e0, e1

(* The windows of copy_page are opened.                                     *)
LEMMA WindowsOpen ==
    ASSUME NEW s \in States, NEW dst \in Nat, NEW src \in Nat, KernelSpace(s.mem),
           KERNEL_PAGE_DIR \notin WindowPages(s.mem),
           s.mem[KERNEL_PAGE_DIR][WindowDir] = NoEntry =>
              s.kfree \in KernelPages \ {KERNEL_PAGE_DIR}
    PROVE  \E w : WindowsBecome(s, OpenWindows(s, KERNEL_PAGE_DIR, dst, src), w,
                                WindowTable(dst, src))
<1> DEFINE K == KERNEL_PAGE_DIR
           e == s.mem[K][WindowDir]
           pr == {MMU_P}
           pw == {MMU_P, MMU_W}
           s1 == mmu_map_page(s, K, SRC_VIRT_PAGE, src, pr)
           s2 == mmu_map_page(s1, K, DST_VIRT_PAGE, dst, pw)
           t1 == WithPage(ZeroPage, SRC_VIRT_PAGE, src, pr)
           t2 == WithPage(t1, DST_VIRT_PAGE, dst, pw)
<1>1. s2 = OpenWindows(s, K, dst, src) /\ t2 = WindowTable(dst, src)
  BY DEF OpenWindows, WindowTable
<1>2. pr \in SUBSET Full /\ pw \in SUBSET Full
  BY Rights
<1> HIDE DEF pr, pw, s2, t2
<1>3. /\ SRC_VIRT_PAGE \in Nat /\ DST_VIRT_PAGE \in Nat /\ WindowDir # 0
      /\ VIRT_PAGE_DIR(SRC_VIRT_PAGE) = WindowDir /\ VIRT_PAGE_DIR(DST_VIRT_PAGE) = WindowDir
      /\ WindowDir \in Indexes /\ K \in KernelPages
  BY WindowPlaces
<1> HIDE DEF K
<1>4. s.mem[K] = KernelDir(e) /\ (e = NoEntry \/ WindowMade(s.mem))
  BY DEF KernelSpace, K
<1>5. \E w \in KernelPages \ {K} :
         /\ s1 \in States /\ s1.tlb = {} /\ s1.mem[K] = KernelDir(Link(w)) /\ s1.mem[w] = t1
         /\ \A p \in KernelPages \ {K, w} : s1.mem[p] = s.mem[p]
         /\ \/ e = NoEntry /\ w = s.kfree /\ s1.kfree = s.kfree + 1
            \/ e = Link(w) /\ s1.kfree = s.kfree
  <2>1. CASE e = NoEntry
    <3>1. s.kfree \in KernelPages /\ K # s.kfree
      BY <2>1 DEF K
    <3>2. VIRT_PAGE_DIR(SRC_VIRT_PAGE) \in Indexes
          /\ s.mem[K][VIRT_PAGE_DIR(SRC_VIRT_PAGE)] = NoEntry
      BY <1>3, <2>1
    <3>3. Made(s, s1, K, VIRT_PAGE_DIR(SRC_VIRT_PAGE), t1)
      BY <1>2, <1>3, <3>1, <3>2, MapPageNew
    <3> HIDE DEF s1, t1
    <3>4. [KernelDir(e) EXCEPT ![WindowDir] = Link(s.kfree)] = KernelDir(Link(s.kfree))
      BY <1>3 DEF KernelDir
    <3> HIDE DEF e
    <3> QED BY <1>3, <1>4, <2>1, <3>1, <3>3, <3>4 DEF Made
  <2>2. CASE e # NoEntry
    <3>1. PICK w \in KernelPages : e = Link(w) /\ s.mem[w] = ZeroPage
      BY <1>4, <2>2 DEF WindowMade, K
    <3>2. w # K
      BY <3>1 DEF WindowPages, K
    <3>3. VIRT_PAGE_DIR(SRC_VIRT_PAGE) \in Indexes
          /\ s.mem[K][VIRT_PAGE_DIR(SRC_VIRT_PAGE)] = Link(w)
      BY <1>3, <3>1
    <3>4. Changed(s, s1, w, WithPage(s.mem[w], SRC_VIRT_PAGE, src, pr))
      BY <1>2, <1>3, <3>1, <3>2, <3>3, MapPageFound
    <3>5. Changed(s, s1, w, t1)
      BY <3>1, <3>4
    <3> HIDE DEF s1, t1, e
    <3> QED BY <1>3, <1>4, <3>1, <3>2, <3>5 DEF Changed
  <2> QED BY <2>1, <2>2
<1> HIDE DEF s1, t1
<1>6. PICK w \in KernelPages \ {K} :
         /\ s1 \in States /\ s1.tlb = {} /\ s1.mem[K] = KernelDir(Link(w)) /\ s1.mem[w] = t1
         /\ \A p \in KernelPages \ {K, w} : s1.mem[p] = s.mem[p]
         /\ \/ e = NoEntry /\ w = s.kfree /\ s1.kfree = s.kfree + 1
            \/ e = Link(w) /\ s1.kfree = s.kfree
  BY <1>5
<1>7. VIRT_PAGE_DIR(DST_VIRT_PAGE) \in Indexes
      /\ s1.mem[K][VIRT_PAGE_DIR(DST_VIRT_PAGE)] = Link(w)
  BY <1>3, <1>6 DEF KernelDir
<1>8. Changed(s1, s2, w, WithPage(s1.mem[w], DST_VIRT_PAGE, dst, pw))
  BY <1>2, <1>3, <1>6, <1>7, MapPageFound DEF s2
<1>9. Changed(s1, s2, w, t2)
  BY <1>6, <1>8 DEF t2
<1>10. WindowsBecome(s, s2, w, t2)
  <2> HIDE DEF e
  <2>1. e = s.mem[KERNEL_PAGE_DIR][WindowDir] /\ K = KERNEL_PAGE_DIR
    BY DEF e, K
  <2> QED BY <1>3, <1>6, <1>9, <2>1 DEF WindowsBecome, Changed
<1> QED BY <1>1, <1>10 DEF K

(* They are closed, and their table is empty.                               *)
LEMMA WindowsClose ==
    ASSUME NEW s \in States, NEW dst \in Nat, NEW src \in Nat,
           NEW w \in KernelPages, w # KERNEL_PAGE_DIR,
           s.mem[KERNEL_PAGE_DIR] = KernelDir(Link(w)), s.mem[w] = WindowTable(dst, src)
    PROVE  Changed(s, CloseWindows(s, KERNEL_PAGE_DIR), w, ZeroPage)
<1> DEFINE K == KERNEL_PAGE_DIR
           s1 == mmu_unmap_page(s, K, SRC_VIRT_PAGE)
           s2 == mmu_unmap_page(s1, K, DST_VIRT_PAGE)
<1>1. /\ SRC_VIRT_PAGE \in Nat /\ DST_VIRT_PAGE \in Nat /\ WindowDir # 0
      /\ VIRT_PAGE_DIR(SRC_VIRT_PAGE) = WindowDir /\ VIRT_PAGE_DIR(DST_VIRT_PAGE) = WindowDir
      /\ WindowDir \in Indexes /\ K \in KernelPages
  BY WindowPlaces
<1>2. KernelDir(Link(w))[WindowDir] = Link(w)
  BY <1>1 DEF KernelDir
<1>3. Changed(s, s1, w, Without(s.mem[w], SRC_VIRT_PAGE))
  BY <1>1, <1>2, UnmapPage
<1> HIDE DEF s1
<1>4. s1 \in States /\ s1.mem[K][VIRT_PAGE_DIR(DST_VIRT_PAGE)] = Link(w)
  BY <1>1, <1>2, <1>3 DEF Changed
<1>5. Changed(s1, s2, w, Without(s1.mem[w], DST_VIRT_PAGE))
  BY <1>1, <1>4, UnmapPage
<1> HIDE DEF s2
<1>6. s1.mem[w] = Without(WindowTable(dst, src), SRC_VIRT_PAGE)
  BY <1>3 DEF Changed
<1>7. Changed(s1, s2, w, ZeroPage)
  <2>1. Without(Without(WindowTable(dst, src), SRC_VIRT_PAGE), DST_VIRT_PAGE) = ZeroPage
    BY WindowTables
  <2> QED BY <1>5, <1>6, <2>1
<1>8. s2 = CloseWindows(s, K)
  BY DEF CloseWindows, s2, s1
<1> QED BY <1>3, <1>7, <1>8 DEF Changed

-----------------------------------------------------------------------------
(* What the processor makes of those tables                                 *)

NoPage(v) == [virt |-> v, attrs |-> {}, page |-> 0]

Mapped(v, attrs, page) == [virt |-> v, attrs |-> attrs, page |-> page]

(* Rights meet in both levels.                                              *)
LEMMA WalkEntry ==
    ASSUME NEW m, NEW c, NEW v, NEW a, NEW p, NEW b, NEW q,
           m[c][VIRT_PAGE_DIR(v)] = [attrs |-> a, page |-> p],
           m[p][VIRT_PAGE_TABLE(v)] = [attrs |-> b, page |-> q]
    PROVE  Walk(m, c, v) = IF MMU_P \in a /\ MMU_P \in b THEN Mapped(v, a \cap b, q)
                                                       ELSE NoPage(v)
  BY DEF Walk, Mapped, NoPage

(* An entry of the directory that is empty.                                 *)
LEMMA WalkNowhere ==
    ASSUME NEW m, NEW c, NEW v, m[c][VIRT_PAGE_DIR(v)] = NoEntry
    PROVE  Walk(m, c, v) = NoPage(v)
  BY DEF Walk, NoPage, NoEntry

(* The table of the identity mapping.                                       *)
LEMMA WalkIdentity ==
    ASSUME NEW m, NEW c, NEW v \in Nat, NEW a, NEW p, MMU_P \in a, MMU_W \in a,
           m[c][VIRT_PAGE_DIR(v)] = [attrs |-> a, page |-> p], m[p] = IdentityTable
    PROVE  Walk(m, c, v) = Mapped(v, {MMU_P, MMU_W}, VIRT_PAGE_TABLE(v))
<1> DEFINE slot == VIRT_PAGE_TABLE(v)
           b == {MMU_P, MMU_W}
<1>1. slot \in Indexes
  BY Division
<1>2. m[p][slot] = [attrs |-> b, page |-> slot]
  BY <1>1 DEF IdentityTable
<1>3. MMU_P \in b /\ a \cap b = b
  OBVIOUS
<1> HIDE DEF b
<1>4. Walk(m, c, v) = IF MMU_P \in a /\ MMU_P \in b THEN Mapped(v, a \cap b, slot)
                                                  ELSE NoPage(v)
  BY <1>2, WalkEntry
<1> QED BY <1>3, <1>4 DEF b

(* A table that is all zero.                                                *)
LEMMA WalkZero ==
    ASSUME NEW m, NEW c, NEW v \in Nat, NEW p,
           m[c][VIRT_PAGE_DIR(v)] = Link(p), m[p][VIRT_PAGE_TABLE(v)] = NoEntry
    PROVE  Walk(m, c, v) = NoPage(v)
  BY WalkEntry DEF NoEntry, Link

(* The kernel's directory, with the windows closed.                         *)
LEMMA KernelWalk ==
    ASSUME NEW m, KernelSpace(m), NEW v \in Nat, VIRT_PAGE_DIR(v) \in Indexes
    PROVE  Walk(m, KERNEL_PAGE_DIR, v)
             = IF VIRT_PAGE_DIR(v) = 0
               THEN Mapped(v, {MMU_P, MMU_W}, VIRT_PAGE_TABLE(v)) ELSE NoPage(v)
<1> DEFINE K == KERNEL_PAGE_DIR
           d == VIRT_PAGE_DIR(v)
           e == m[K][WindowDir]
           a == {MMU_P, MMU_W}
<1>1. m[K] = KernelDir(e) /\ m[KERNEL_PAGE_TABLE_0] = IdentityTable
      /\ (e = NoEntry \/ WindowMade(m))
  BY DEF KernelSpace
<1> HIDE DEF e
<1>2. m[K][d] = IF d = 0 THEN [attrs |-> a, page |-> KERNEL_PAGE_TABLE_0]
                ELSE IF d = WindowDir THEN e ELSE NoEntry
  BY <1>1 DEF KernelDir
<1>3. MMU_P \in a /\ MMU_W \in a
  OBVIOUS
<1> HIDE DEF a, d
<1>4. CASE d = 0
  <2>1. m[K][VIRT_PAGE_DIR(v)] = [attrs |-> a, page |-> KERNEL_PAGE_TABLE_0]
    BY <1>2, <1>4 DEF d
  <2>2. Walk(m, K, v) = Mapped(v, {MMU_P, MMU_W}, VIRT_PAGE_TABLE(v))
    BY <1>1, <1>3, <2>1, WalkIdentity
  <2> QED BY <1>4, <2>2 DEF d
<1>5. CASE d # 0 /\ m[K][d] = NoEntry
  BY <1>5, WalkNowhere DEF d
<1>6. CASE d # 0 /\ m[K][d] # NoEntry
  <2>1. m[K][d] = e /\ d = WindowDir /\ e # NoEntry
    BY <1>2, <1>6
  <2>2. PICK p \in KernelPages : e = Link(p) /\ m[p] = ZeroPage
    BY <1>1, <2>1 DEF WindowMade, e
  <2>3. m[p][VIRT_PAGE_TABLE(v)] = NoEntry
    BY <2>2, Division DEF ZeroPage
  <2>4. Walk(m, K, v) = NoPage(v)
    BY <2>1, <2>2, <2>3, WalkZero DEF d
  <2> QED BY <1>6, <2>4 DEF d
<1> QED BY <1>4, <1>5, <1>6

(* The directory of a task.                                                 *)
LEMMA TaskWalk ==
    ASSUME NEW m, NEW t, NEW c, TaskSpace(m, t, c), NEW v \in Nat, VIRT_PAGE_DIR(v) \in Indexes
    PROVE  LET d == VIRT_PAGE_DIR(v)
               slot == VIRT_PAGE_TABLE(v)
               e == TaskTable(t, m[c + 2][First + 2].page)[slot]
           IN  /\ d = 0 => Walk(m, c, v) = Mapped(v, {MMU_P, MMU_W}, slot)
               /\ d = CodeDir => Walk(m, c, v) = IF e = NoEntry THEN NoPage(v)
                                                 ELSE Mapped(v, e.attrs, e.page)
               /\ d = DemandDir =>
                     Walk(m, c, v) = IF m[c][DemandDir] # NoEntry /\ slot = DemandSlot
                                     THEN Mapped(v, Full, ON_DEMAND_MEM_START_PHYSICAL)
                                     ELSE NoPage(v)
               /\ d \notin {0, CodeDir, DemandDir} => Walk(m, c, v) = NoPage(v)
<1> DEFINE d == VIRT_PAGE_DIR(v)
           slot == VIRT_PAGE_TABLE(v)
           st == m[c + 2][First + 2].page
           q == m[c][DemandDir]
           e == TaskTable(t, st)[slot]
<1>1. /\ m[c] = TaskDir(c, q) /\ m[c + 1] = IdentityTable /\ m[c + 2] = TaskTable(t, st)
      /\ q = NoEntry \/ DemandMade(m, c)
  BY DEF TaskSpace
<1>2. slot \in Indexes /\ CodeDir # 0 /\ DemandDir # 0 /\ CodeDir # DemandDir
  BY Division, Slots
<1>3. m[c][d] = IF d = 0 THEN Link(c + 1) ELSE IF d = CodeDir THEN Link(c + 2)
                ELSE IF d = DemandDir THEN q ELSE NoEntry
  <2> HIDE DEF q
  <2> QED BY <1>1 DEF TaskDir
<1>4. ASSUME d = 0 PROVE Walk(m, c, v) = Mapped(v, {MMU_P, MMU_W}, slot)
  <2>1. m[c][VIRT_PAGE_DIR(v)] = [attrs |-> Full, page |-> c + 1]
    BY <1>3, <1>4 DEF Link
  <2>2. MMU_P \in Full /\ MMU_W \in Full
    BY DEF Full
  <2> QED BY <1>1, <2>1, <2>2, WalkIdentity
<1>5. ASSUME d = CodeDir
      PROVE  Walk(m, c, v) = IF e = NoEntry THEN NoPage(v) ELSE Mapped(v, e.attrs, e.page)
  <2>1. m[c][VIRT_PAGE_DIR(v)] = Link(c + 2) /\ m[c + 2][VIRT_PAGE_TABLE(v)] = e
    BY <1>1, <1>2, <1>3, <1>5
  <2>2. CASE e = NoEntry
    BY <2>1, <2>2, WalkZero
  <2>3. CASE e # NoEntry
    <3>1. \E b \in {Full, {MMU_P, MMU_U}} : \E p : e = [attrs |-> b, page |-> p]
      BY <1>2, <2>3 DEF TaskTable
    <3>2. PICK b \in {Full, {MMU_P, MMU_U}} : \E p : e = [attrs |-> b, page |-> p]
      BY <3>1
    <3>3. PICK p : e = [attrs |-> b, page |-> p]
      BY <3>2
    <3>4. MMU_P \in b /\ MMU_P \in Full /\ Full \cap b = b
      BY <3>2 DEF Full
    <3>5. Walk(m, c, v) = IF MMU_P \in Full /\ MMU_P \in b THEN Mapped(v, Full \cap b, p)
                                                         ELSE NoPage(v)
      BY <2>1, <3>2, <3>3, WalkEntry DEF Link
    <3> QED BY <2>3, <3>3, <3>4, <3>5
  <2> QED BY <2>2, <2>3
<1>6. ASSUME d = DemandDir
      PROVE  Walk(m, c, v) = IF q # NoEntry /\ slot = DemandSlot
                             THEN Mapped(v, Full, ON_DEMAND_MEM_START_PHYSICAL)
                             ELSE NoPage(v)
  <2>1. m[c][VIRT_PAGE_DIR(v)] = q
    BY <1>2, <1>6
  <2>2. CASE q = NoEntry
    BY <2>1, <2>2, WalkNowhere
  <2>3. CASE q # NoEntry
    <3>1. PICK p \in KernelPages : q = Link(p) /\ m[p] = DemandTable
      BY <1>1, <2>3 DEF DemandMade
    <3>2. CASE slot # DemandSlot
      <4>1. m[p][VIRT_PAGE_TABLE(v)] = NoEntry
        BY <1>2, <3>1, <3>2 DEF DemandTable, ZeroPage
      <4> QED BY <2>1, <3>1, <3>2, <4>1, WalkZero
    <3>3. CASE slot = DemandSlot
      <4>1. m[p][VIRT_PAGE_TABLE(v)] = [attrs |-> Full, page |-> ON_DEMAND_MEM_START_PHYSICAL]
        BY <1>2, <3>1, <3>3, Rights DEF DemandTable, ZeroPage
      <4>2. MMU_P \in Full /\ Full \cap Full = Full
        BY DEF Full
      <4>3. Walk(m, c, v) = IF MMU_P \in Full /\ MMU_P \in Full
                            THEN Mapped(v, Full \cap Full, ON_DEMAND_MEM_START_PHYSICAL)
                            ELSE NoPage(v)
        BY <2>1, <3>1, <4>1, WalkEntry DEF Link
      <4> QED BY <2>3, <3>3, <4>2, <4>3
    <3> QED BY <3>2, <3>3
  <2> QED BY <2>2, <2>3
<1>7. ASSUME d \notin {0, CodeDir, DemandDir} PROVE Walk(m, c, v) = NoPage(v)
  BY <1>3, <1>7, WalkNowhere
<1> QED BY <1>4, <1>5, <1>6, <1>7

-----------------------------------------------------------------------------
(* The invariant                                                            *)

Pool == FIRST_KERNEL_PAGE .. next_free_kernel_page - 1

Dir(t) == space[t].cr3

Stack(t) == mem[Dir(t) + 2][First + 2].page

Demanders == {t \in Created : mem[Dir(t)][DemandDir] # NoEntry}

TypeInv ==
    /\ mem \in Memories
    /\ data \in [CopyPages -> CopyPages]
    /\ tlb \subseteq Translation
    /\ cr3 \in KernelPages
    /\ space \in [Tasks -> [cr3 : KernelPages, stack0 : KernelPages]]
    /\ running \in {"boot", "idle"} \cup Tasks
    /\ fault \in VirtPages \cup {NONE}

BootInv ==
    ~Paging => /\ running = "boot" /\ tlb = {} /\ fault = NONE
               /\ Created = {} /\ next_free_kernel_page = FIRST_KERNEL_PAGE

(* A task runs in its own directory, the kernel in the first one.           *)
CurrentInv ==
    Paging => \/ running \in Created /\ cr3 = Dir(running)
              \/ running \notin Tasks /\ cr3 = KERNEL_PAGE_DIR

SpaceInv(t) ==
    /\ space[t].stack0 = Dir(t) + 3
    /\ TaskSpace(mem, t, Dir(t))
    /\ Held(mem, Dir(t)) \subseteq Pool \ WindowPages(mem)
    /\ Stack(t) \in FIRST_USER_PAGE .. next_free_user_page - 1
    /\ \A u \in Created \ {t} : /\ Held(mem, Dir(t)) \cap Held(mem, Dir(u)) = {}
                                /\ Stack(t) # Stack(u)

SpacesInv ==
    Paging => /\ KernelSpace(mem) /\ WindowPages(mem) \subseteq Pool
              /\ \A t \in Created : SpaceInv(t)

(* What was taken from the two pools.                                       *)
PoolsInv ==
    /\ next_free_user_page = FIRST_USER_PAGE + Cardinality(Created)
    /\ Paging => next_free_kernel_page =
                   FIRST_KERNEL_PAGE + 4 * Cardinality(Created) + Cardinality(Demanders)
                     + (IF mem[KERNEL_PAGE_DIR][WindowDir] = NoEntry THEN 0 ELSE 1)

MmuInv == TypeInv /\ BootInv /\ CurrentInv /\ SpacesInv /\ PoolsInv /\ TLBCoherent

-----------------------------------------------------------------------------
(* What the invariant gives at once                                         *)

(* The pools are never empty when a page is taken from them.                *)
LEMMA Counts ==
    ASSUME MmuInv, Paging
    PROVE  /\ IsFiniteSet(Created) /\ IsFiniteSet(Demanders)
           /\ Cardinality(Created) \in Nat /\ Cardinality(Demanders) \in Nat
           /\ next_free_kernel_page \in Nat /\ next_free_kernel_page >= FIRST_KERNEL_PAGE
           /\ next_free_kernel_page <= ENTRIES
           /\ next_free_user_page \in FIRST_USER_PAGE .. FIRST_USER_PAGE + Cardinality(Tasks)
           /\ Created # Tasks => /\ next_free_kernel_page + 3 \in KernelPages
                                 /\ next_free_user_page \in UserPages
           /\ Demanders # Created => next_free_kernel_page \in KernelPages
           /\ mem[KERNEL_PAGE_DIR][WindowDir] = NoEntry =>
                 next_free_kernel_page \in KernelPages
<1> DEFINE n == Cardinality(Tasks)
           k == Cardinality(Created)
           d == Cardinality(Demanders)
           w == IF mem[KERNEL_PAGE_DIR][WindowDir] = NoEntry THEN 0 ELSE 1
<1>1. IsFiniteSet(Tasks) /\ Created \subseteq Tasks /\ Demanders \subseteq Created
  BY LayoutAssumption DEF Created, Demanders
<1>2. /\ IsFiniteSet(Created) /\ IsFiniteSet(Demanders)
      /\ k \in Nat /\ d \in Nat /\ n \in Nat /\ k <= n /\ d <= k
      /\ (Created # Tasks => k < n) /\ (Demanders # Created => d < k)
  <2>1. IsFiniteSet(Created) /\ k <= n /\ (k = n => Created = Tasks)
    BY <1>1, FS_Subset
  <2>2. IsFiniteSet(Demanders) /\ d <= k /\ (d = k => Demanders = Created)
    BY <1>1, <2>1, FS_Subset
  <2>3. k \in Nat /\ d \in Nat /\ n \in Nat
    BY <1>1, <2>1, <2>2, FS_CardinalityType
  <2> HIDE DEF k, d, n
  <2> QED BY <2>1, <2>2, <2>3
<1>3. /\ next_free_user_page = FIRST_USER_PAGE + k
      /\ next_free_kernel_page = FIRST_KERNEL_PAGE + 4 * k + d + w
  BY DEF MmuInv, PoolsInv
<1>4. FIRST_KERNEL_PAGE + 5 * n + 1 <= ENTRIES
  BY PhysicalAssumption
<1>5. FIRST_KERNEL_PAGE \in Nat /\ FIRST_USER_PAGE \in Nat /\ ENTRIES \in Nat
  BY LayoutAssumption
<1>6. w \in 0 .. 1 /\ (mem[KERNEL_PAGE_DIR][WindowDir] = NoEntry => w = 0)
  OBVIOUS
<1> HIDE DEF k, d, n, w
<1>7. UserPages = FIRST_USER_PAGE .. FIRST_USER_PAGE + n - 1
  BY DEF UserPages, n
<1>8. /\ next_free_kernel_page \in Nat /\ next_free_kernel_page >= FIRST_KERNEL_PAGE
      /\ next_free_kernel_page <= ENTRIES
      /\ next_free_user_page \in FIRST_USER_PAGE .. FIRST_USER_PAGE + n
  BY <1>2, <1>3, <1>4, <1>5, <1>6
<1>9. k < n => /\ next_free_kernel_page + 3 \in KernelPages
               /\ next_free_user_page \in UserPages
  BY <1>2, <1>3, <1>4, <1>5, <1>6, <1>7 DEF KernelPages
<1>10. d < k \/ w = 0 => next_free_kernel_page \in KernelPages
  BY <1>2, <1>3, <1>4, <1>5, <1>6 DEF KernelPages
<1> QED BY <1>2, <1>6, <1>8, <1>9, <1>10 DEF k, d, n

(* The argument of a function of mmu.c.                                     *)
LEMMA NowState ==
    ASSUME MmuInv, Paging
    PROVE  /\ Now \in States /\ Now.mem = mem /\ Now.kfree = next_free_kernel_page
           /\ Now.tlb = tlb
<1>1. /\ Now = [mem |-> mem, kfree |-> next_free_kernel_page, tlb |-> tlb]
      /\ mem \in Memories /\ next_free_kernel_page \in Nat /\ tlb \in SUBSET Translation
  BY Counts DEF Now, MmuInv, TypeInv
<1> QED BY <1>1, StateParts

(* Its result.                                                              *)
LEMMA BecomesState ==
    ASSUME NEW r \in States, Becomes(r)
    PROVE  /\ mem' \in Memories /\ mem' = r.mem
           /\ next_free_kernel_page' = r.kfree /\ tlb' = r.tlb
  BY StateParts DEF Becomes

(* An address space whose pages are left alone stays.                       *)
LEMMA SpaceKept ==
    ASSUME NEW m, NEW n, NEW t, NEW c \in Nat, TaskSpace(m, t, c),
           \A p \in Held(m, c) : n[p] = m[p]
    PROVE  /\ TaskSpace(n, t, c) /\ Held(n, c) = Held(m, c)
           /\ n[c][DemandDir] = m[c][DemandDir] /\ n[c + 2] = m[c + 2]
<1>1. /\ n[c] = m[c] /\ n[c + 1] = m[c + 1] /\ n[c + 2] = m[c + 2]
  BY DEF Held
<1>2. Held(n, c) = Held(m, c)
  BY <1>1 DEF Held
<1>3. DemandMade(m, c) => DemandMade(n, c)
  BY <1>1 DEF DemandMade, Held
<1> QED BY <1>1, <1>2, <1>3 DEF TaskSpace

(* So does the kernel's.                                                    *)
LEMMA KernelKept ==
    ASSUME NEW m, NEW n, KernelSpace(m),
           n[KERNEL_PAGE_DIR] = m[KERNEL_PAGE_DIR],
           n[KERNEL_PAGE_TABLE_0] = m[KERNEL_PAGE_TABLE_0],
           \A p \in WindowPages(m) : n[p] = m[p]
    PROVE  KernelSpace(n) /\ WindowPages(n) = WindowPages(m)
<1>1. WindowPages(n) = WindowPages(m)
  BY DEF WindowPages
<1>2. WindowMade(m) => WindowMade(n)
  BY DEF WindowMade, WindowPages
<1> QED BY <1>1, <1>2 DEF KernelSpace

(* Each page belongs to one link.                                           *)
LEMMA Links ==
    ASSUME NEW p, NEW q
    PROVE  /\ Link(p) = Link(q) => p = q
           /\ Link(p) # NoEntry
  BY DEF Link, NoEntry, Full

-----------------------------------------------------------------------------
(* A task is created                                                        *)

(* What the handler does, on the pages.                                     *)
LEMMA CreateEffect ==
    ASSUME MmuInv, NEW t \in Tasks, tss_create_user_task(t)
    PROVE  LET c == next_free_kernel_page
           IN  /\ Paging /\ running = "boot" /\ t \in Tasks \ Created
               /\ c \in KernelPages /\ c + 3 \in KernelPages /\ c >= FIRST_KERNEL_PAGE
               /\ next_free_user_page \in UserPages /\ next_free_user_page \in Nat
               /\ mem' \in Memories /\ next_free_kernel_page' = c + 4 /\ tlb' = {}
               /\ mem'[c] = TaskDir(c, NoEntry)
               /\ mem'[c + 1] = IdentityTable
               /\ mem'[c + 2] = TaskTable(t, next_free_user_page)
               /\ \A p \in KernelPages \ (c .. c + 3) : mem'[p] = mem[p]
               /\ space' = [space EXCEPT ![t] = [cr3 |-> c, stack0 |-> c + 3]]
               /\ Created' = Created \cup {t}
               /\ next_free_user_page' = next_free_user_page + 1
               /\ UNCHANGED <<data, cr3, running, fault>>
<1> DEFINE c == next_free_kernel_page
           d == mmu_init_task_dir(Now, CodeStart[t], next_free_user_page)
           r == mmu_next_free_kernel_page(d)
<1>1. /\ Paging /\ running = "boot" /\ space[t] = NoSpace
      /\ Becomes(r) /\ next_free_user_page' = next_free_user_page + 1
      /\ space' = [space EXCEPT ![t] = [cr3 |-> c, stack0 |-> d.kfree]]
      /\ UNCHANGED <<data, cr3, running, fault>>
  BY DEF tss_create_user_task, Booting, mmu_next_free_user_page
<1> HIDE DEF d, r
<1>2. t \in Tasks \ Created
  BY <1>1 DEF Created
<1>3. Created # Tasks
  BY <1>2
<1>4. /\ next_free_user_page \in UserPages /\ c + 3 \in KernelPages
      /\ c \in Nat /\ c >= FIRST_KERNEL_PAGE
  BY <1>1, <1>3, Counts
<1>5. c \in KernelPages /\ next_free_user_page \in Nat /\ FIRST_KERNEL_PAGE > 0
  BY <1>4, LayoutAssumption, WindowPlaces DEF KernelPages, UserPages
<1>6. Now \in States /\ Now.mem = mem /\ Now.kfree = c
  BY <1>1, NowState
<1>7. /\ r \in States /\ d.kfree = c + 3 /\ r.kfree = c + 4 /\ r.tlb = {}
      /\ r.mem[c] = TaskDir(c, NoEntry) /\ r.mem[c + 1] = IdentityTable
      /\ r.mem[c + 2] = TaskTable(t, next_free_user_page)
      /\ \A p \in KernelPages \ (c .. c + 3) : r.mem[p] = mem[p]
  <2> HIDE DEF c
  <2>1. SpaceMade(Now, d, r, t, next_free_user_page)
    BY <1>4, <1>5, <1>6, InitTaskDir DEF d, r
  <2> QED BY <1>6, <2>1 DEF SpaceMade
<1>8. mem' \in Memories /\ mem' = r.mem /\ next_free_kernel_page' = r.kfree /\ tlb' = r.tlb
  BY <1>1, <1>7, BecomesState
<1>9. space' = [space EXCEPT ![t] = [cr3 |-> c, stack0 |-> c + 3]]
  BY <1>1, <1>7
<1> HIDE DEF c
<1>10. Created' = Created \cup {t}
  <2>1. space'[t] # NoSpace
    BY <1>4, <1>5, <1>9, LayoutAssumption DEF NoSpace, MmuInv, TypeInv
  <2>2. \A u \in Tasks \ {t} : space'[u] = space[u]
    BY <1>9 DEF MmuInv, TypeInv
  <2> QED BY <2>1, <2>2 DEF Created
<1> QED BY <1>1, <1>2, <1>4, <1>5, <1>7, <1>8, <1>9, <1>10 DEF c

(* The new pages are apart from those in use.                               *)
LEMMA CreateSpaces ==
    ASSUME MmuInv, NEW t \in Tasks, tss_create_user_task(t)
    PROVE  /\ SpacesInv'
           /\ Demanders' = Demanders
           /\ mem'[KERNEL_PAGE_DIR] = mem[KERNEL_PAGE_DIR]
           /\ \A u \in Created : /\ Dir(u)' = Dir(u) /\ Stack(u)' = Stack(u)
                                 /\ mem'[Dir(u)][DemandDir] = mem[Dir(u)][DemandDir]
           /\ Stack(t)' = next_free_user_page /\ mem'[Dir(t)'][DemandDir] = NoEntry
<1> DEFINE c == next_free_kernel_page
<1>1. /\ Paging /\ running = "boot" /\ t \in Tasks \ Created
      /\ c \in KernelPages /\ c + 3 \in KernelPages /\ c >= FIRST_KERNEL_PAGE
      /\ next_free_user_page \in Nat /\ next_free_kernel_page' = c + 4
      /\ mem'[c] = TaskDir(c, NoEntry) /\ mem'[c + 1] = IdentityTable
      /\ mem'[c + 2] = TaskTable(t, next_free_user_page)
      /\ \A p \in KernelPages \ (c .. c + 3) : mem'[p] = mem[p]
      /\ space' = [space EXCEPT ![t] = [cr3 |-> c, stack0 |-> c + 3]]
      /\ Created' = Created \cup {t}
      /\ next_free_user_page' = next_free_user_page + 1
      /\ cr3' = cr3
  BY CreateEffect
<1>2. /\ KernelSpace(mem) /\ WindowPages(mem) \subseteq Pool
      /\ \A u \in Created : SpaceInv(u)
  BY <1>1 DEF MmuInv, SpacesInv
<1>3. /\ space \in [Tasks -> [cr3 : KernelPages, stack0 : KernelPages]]
      /\ KernelPages \subseteq Nat /\ c \in Nat /\ FIRST_KERNEL_PAGE \in Nat
      /\ FIRST_USER_PAGE \in Nat
  BY <1>1, LayoutAssumption DEF MmuInv, TypeInv, KernelPages
<1> HIDE DEF c
<1>4. Pool = FIRST_KERNEL_PAGE .. c - 1 /\ Pool' = FIRST_KERNEL_PAGE .. c + 3
  BY <1>1, <1>3 DEF Pool, c
<1>5. /\ \A p \in Pool : p \in KernelPages /\ mem'[p] = mem[p]
      /\ Pool \subseteq Pool' /\ c .. c + 3 \subseteq Pool'
      /\ Pool \cap (c .. c + 3) = {}
  <2>1. /\ Pool \subseteq Pool' /\ c .. c + 3 \subseteq Pool'
        /\ Pool \cap (c .. c + 3) = {}
    BY <1>1, <1>3, <1>4
  <2>2. Pool \subseteq KernelPages
    BY <1>1, <1>3, <1>4, Slots DEF KernelPages
  <2> QED BY <1>1, <2>1, <2>2
<1>6. /\ mem'[KERNEL_PAGE_DIR] = mem[KERNEL_PAGE_DIR]
      /\ mem'[KERNEL_PAGE_TABLE_0] = mem[KERNEL_PAGE_TABLE_0]
  BY <1>1, <1>3, WindowPlaces
<1>7. KernelSpace(mem') /\ WindowPages(mem') = WindowPages(mem)
  BY <1>2, <1>5, <1>6, KernelKept
<1>8. ASSUME NEW u \in Created
      PROVE  /\ u # t /\ u \in Tasks /\ Dir(u)' = Dir(u) /\ Dir(u) \in Nat
             /\ space'[u] = space[u] /\ space[u].stack0 = Dir(u) + 3
             /\ TaskSpace(mem', u, Dir(u)) /\ Held(mem', Dir(u)) = Held(mem, Dir(u))
             /\ Held(mem, Dir(u)) \subseteq Pool \ WindowPages(mem)
             /\ mem'[Dir(u)][DemandDir] = mem[Dir(u)][DemandDir]
             /\ Stack(u)' = Stack(u)
             /\ Stack(u) \in FIRST_USER_PAGE .. next_free_user_page - 1
             /\ \A x \in Created \ {u} : /\ Held(mem, Dir(u)) \cap Held(mem, Dir(x)) = {}
                                         /\ Stack(u) # Stack(x)
  <2>1. u \in Tasks /\ u # t
    BY <1>1 DEF Created
  <2>2. space'[u] = space[u] /\ Dir(u)' = Dir(u) /\ Dir(u) \in Nat
    BY <1>1, <1>3, <2>1 DEF Dir
  <2>3. /\ TaskSpace(mem, u, Dir(u)) /\ Held(mem, Dir(u)) \subseteq Pool \ WindowPages(mem)
        /\ Stack(u) \in FIRST_USER_PAGE .. next_free_user_page - 1
        /\ space[u].stack0 = Dir(u) + 3
        /\ \A x \in Created \ {u} : /\ Held(mem, Dir(u)) \cap Held(mem, Dir(x)) = {}
                                    /\ Stack(u) # Stack(x)
    BY <1>2 DEF SpaceInv
  <2>4. \A p \in Held(mem, Dir(u)) : mem'[p] = mem[p]
    BY <1>5, <2>3
  <2>5. /\ TaskSpace(mem', u, Dir(u)) /\ Held(mem', Dir(u)) = Held(mem, Dir(u))
        /\ mem'[Dir(u)][DemandDir] = mem[Dir(u)][DemandDir]
        /\ mem'[Dir(u) + 2] = mem[Dir(u) + 2]
    BY <2>2, <2>3, <2>4, SpaceKept
  <2>6. Stack(u)' = Stack(u)
    BY <2>2, <2>5 DEF Stack
  <2> QED BY <2>1, <2>2, <2>3, <2>5, <2>6
<1>9. /\ Dir(t)' = c /\ space'[t].stack0 = c + 3
      /\ TaskSpace(mem', t, c) /\ Held(mem', c) = c .. c + 3
      /\ Stack(t)' = next_free_user_page /\ mem'[c][DemandDir] = NoEntry
  <2>1. Dir(t)' = c /\ space'[t].stack0 = c + 3
    BY <1>1, <1>3 DEF Dir
  <2>2. mem'[c][DemandDir] = NoEntry
    BY <1>1, Slots DEF TaskDir, Indexes
  <2>3. mem'[c + 2][First + 2].page = next_free_user_page
    <3>1. First + 2 \in Indexes /\ First + 2 # First /\ First + 2 # First + 1
      BY Slots
    <3> QED BY <1>1, <3>1 DEF TaskTable
  <2>4. TaskSpace(mem', t, c)
    BY <1>1, <2>2, <2>3 DEF TaskSpace
  <2>5. Held(mem', c) = c .. c + 3
    BY <2>2, Links DEF Held
  <2> QED BY <2>1, <2>2, <2>3, <2>4, <2>5 DEF Stack
<1>10. SpaceInv(t)'
  <2>1. Held(mem', Dir(t)') \subseteq Pool' \ WindowPages(mem')
    BY <1>2, <1>5, <1>7, <1>9
  <2>2. Stack(t)' \in FIRST_USER_PAGE .. next_free_user_page' - 1
    <3>1. next_free_user_page >= FIRST_USER_PAGE
      BY <1>1, Counts
    <3> QED BY <1>1, <1>3, <1>9, <3>1
  <2>3. ASSUME NEW u \in Created' \ {t}
        PROVE  Held(mem', Dir(t)') \cap Held(mem', Dir(u)') = {} /\ Stack(t)' # Stack(u)'
    <3>1. u \in Created
      BY <1>1
    <3>2. Held(mem', Dir(u)') \subseteq Pool /\ Stack(u)' \in FIRST_USER_PAGE .. next_free_user_page - 1
      BY <1>8, <3>1
    <3>3. Stack(t)' # Stack(u)'
      BY <1>1, <1>3, <1>9, <3>2
    <3> QED BY <1>5, <1>9, <3>2, <3>3
  <2> QED BY <1>9, <2>1, <2>2, <2>3 DEF SpaceInv
<1>11. ASSUME NEW u \in Created PROVE SpaceInv(u)'
  <2>1. Held(mem', Dir(u)') \subseteq Pool' \ WindowPages(mem')
    BY <1>5, <1>7, <1>8
  <2>2. Stack(u)' \in FIRST_USER_PAGE .. next_free_user_page' - 1
    BY <1>1, <1>3, <1>8
  <2>3. ASSUME NEW x \in Created' \ {u}
        PROVE  Held(mem', Dir(u)') \cap Held(mem', Dir(x)') = {} /\ Stack(u)' # Stack(x)'
    <3>1. CASE x = t
      BY <1>8, <1>10, <3>1, <1>1 DEF SpaceInv
    <3>2. CASE x # t
      BY <1>1, <1>8, <3>2
    <3> QED BY <3>1, <3>2
  <2> QED BY <1>8, <2>1, <2>2, <2>3 DEF SpaceInv
<1>12. SpacesInv'
  BY <1>1, <1>2, <1>5, <1>7, <1>10, <1>11 DEF SpacesInv
<1>13. Demanders' = Demanders
  BY <1>1, <1>8, <1>9 DEF Demanders
<1> QED BY <1>6, <1>8, <1>9, <1>12, <1>13

-----------------------------------------------------------------------------
(* A page is copied                                                         *)

(* The two translations of the copy are those of src and dst.               *)
LEMMA WindowLookup ==
    ASSUME NEW s \in States, s.tlb = {}, NEW w \in KernelPages, NEW dst \in Nat, NEW src \in Nat,
           s.mem[KERNEL_PAGE_DIR] = KernelDir(Link(w)), s.mem[w] = WindowTable(dst, src)
    PROVE  /\ Lookup(s, KERNEL_PAGE_DIR, SRC_VIRT_PAGE) = Mapped(SRC_VIRT_PAGE, {MMU_P}, src)
           /\ Lookup(s, KERNEL_PAGE_DIR, DST_VIRT_PAGE)
                = Mapped(DST_VIRT_PAGE, {MMU_P, MMU_W}, dst)
<1> DEFINE K == KERNEL_PAGE_DIR
           m == s.mem
           pr == {MMU_P}
           pw == {MMU_P, MMU_W}
<1>1. /\ m[K][VIRT_PAGE_DIR(SRC_VIRT_PAGE)] = [attrs |-> Full, page |-> w]
      /\ m[K][VIRT_PAGE_DIR(DST_VIRT_PAGE)] = [attrs |-> Full, page |-> w]
  BY WindowPlaces DEF KernelDir, Link
<1>2. /\ WindowTable(dst, src)[SrcSlot] = [attrs |-> pr, page |-> src]
      /\ WindowTable(dst, src)[DstSlot] = [attrs |-> pw, page |-> dst]
  BY WindowTables
<1>3. /\ m[w][VIRT_PAGE_TABLE(SRC_VIRT_PAGE)] = [attrs |-> pr, page |-> src]
      /\ m[w][VIRT_PAGE_TABLE(DST_VIRT_PAGE)] = [attrs |-> pw, page |-> dst]
  BY <1>2 DEF SrcSlot, DstSlot
<1>4. /\ MMU_P \in Full /\ MMU_P \in pr /\ MMU_P \in pw
      /\ Full \cap pr = pr /\ Full \cap pw = pw
  BY DEF Full
<1> HIDE DEF pr, pw, m
<1>5. ASSUME NEW v, NEW b, NEW p, MMU_P \in b, Full \cap b = b,
             m[K][VIRT_PAGE_DIR(v)] = [attrs |-> Full, page |-> w],
             m[w][VIRT_PAGE_TABLE(v)] = [attrs |-> b, page |-> p]
      PROVE  Walk(m, K, v) = Mapped(v, b, p)
  <2>1. Walk(m, K, v) = IF MMU_P \in Full /\ MMU_P \in b THEN Mapped(v, Full \cap b, p)
                                                          ELSE NoPage(v)
    BY <1>5, WalkEntry
  <2> QED BY <1>4, <1>5, <2>1
<1>6. /\ Walk(m, K, SRC_VIRT_PAGE) = Mapped(SRC_VIRT_PAGE, pr, src)
      /\ Walk(m, K, DST_VIRT_PAGE) = Mapped(DST_VIRT_PAGE, pw, dst)
  BY <1>1, <1>3, <1>4, <1>5
<1>7. \A v : Lookup(s, K, v) = Walk(m, K, v)
  BY DEF Lookup, m
<1> QED BY <1>6, <1>7 DEF pr, pw

(* What the handler does.                                                   *)
LEMMA CopyEffect ==
    ASSUME MmuInv, NEW dst \in CopyPages, NEW src \in CopyPages, copy_page(dst, src)
    PROVE  /\ Paging /\ running = "boot" /\ mem' \in Memories /\ tlb' = {}
           /\ \E w \in KernelPages \ {KERNEL_PAGE_DIR} :
                 /\ mem'[KERNEL_PAGE_DIR] = KernelDir(Link(w)) /\ mem'[w] = ZeroPage
                 /\ \A p \in KernelPages \ {KERNEL_PAGE_DIR, w} : mem'[p] = mem[p]
                 /\ \/ /\ mem[KERNEL_PAGE_DIR][WindowDir] = NoEntry
                       /\ w = next_free_kernel_page
                       /\ next_free_kernel_page' = next_free_kernel_page + 1
                    \/ /\ mem[KERNEL_PAGE_DIR][WindowDir] = Link(w)
                       /\ next_free_kernel_page' = next_free_kernel_page
           /\ data' = [data EXCEPT ![dst] = data[src]]
           /\ UNCHANGED <<next_free_user_page, cr3, space, running, fault>>
<1> DEFINE K == KERNEL_PAGE_DIR
           s == OpenWindows(Now, cr3, dst, src)
           from == Lookup(s, cr3, SRC_VIRT_PAGE)
           to == Lookup(s, cr3, DST_VIRT_PAGE)
           s1 == [s EXCEPT !.tlb = @ \cup {from, to}]
           r == CloseWindows(s1, cr3)
<1>1. /\ Paging /\ running = "boot" /\ data' = [data EXCEPT ![to.page] = data[from.page]]
      /\ Becomes(r) /\ UNCHANGED <<next_free_user_page, cr3, space, running, fault>>
  BY DEF copy_page, Booting
<1> HIDE DEF s, from, to, s1, r
<1>2. dst \in Nat /\ src \in Nat
  BY LayoutAssumption
<1>3. cr3 = K
  BY <1>1, LayoutAssumption DEF MmuInv, CurrentInv, Created
<1>4. KernelSpace(mem) /\ WindowPages(mem) \subseteq Pool
  BY <1>1 DEF MmuInv, SpacesInv
<1>5. Now \in States /\ Now.mem = mem /\ Now.kfree = next_free_kernel_page
  BY <1>1, NowState
<1>6. K \notin WindowPages(mem)
      /\ (mem[K][WindowDir] = NoEntry => next_free_kernel_page \in KernelPages \ {K})
  <2>1. /\ next_free_kernel_page \in Nat /\ next_free_kernel_page >= FIRST_KERNEL_PAGE
        /\ mem[K][WindowDir] = NoEntry => next_free_kernel_page \in KernelPages
    BY <1>1, Counts
  <2>2. K < FIRST_KERNEL_PAGE /\ FIRST_KERNEL_PAGE \in Nat /\ K \in Nat
    BY WindowPlaces, LayoutAssumption DEF KernelPages
  <2> HIDE DEF K
  <2> QED BY <1>4, <2>1, <2>2 DEF Pool
<1>7. PICK w : WindowsBecome(Now, s, w, WindowTable(dst, src))
  BY <1>2, <1>3, <1>4, <1>5, <1>6, WindowsOpen DEF s
<1>8. /\ w \in KernelPages /\ w # K /\ s \in States /\ s.tlb = {}
      /\ s.mem[K] = KernelDir(Link(w)) /\ s.mem[w] = WindowTable(dst, src)
      /\ \A p \in KernelPages \ {K, w} : s.mem[p] = mem[p]
      /\ \/ mem[K][WindowDir] = NoEntry /\ w = Now.kfree /\ s.kfree = Now.kfree + 1
         \/ mem[K][WindowDir] = Link(w) /\ s.kfree = Now.kfree
  BY <1>5, <1>7 DEF WindowsBecome
<1>9. from = Mapped(SRC_VIRT_PAGE, {MMU_P}, src) /\ to = Mapped(DST_VIRT_PAGE, {MMU_P, MMU_W}, dst)
  BY <1>2, <1>3, <1>8, WindowLookup DEF from, to
<1>10. from.page = src /\ to.page = dst /\ from \in Translation /\ to \in Translation
  BY <1>2, <1>9, VirtualAssumption DEF Mapped, Translation
<1>11. s1 \in States /\ s1.mem = s.mem /\ s1.kfree = s.kfree
  BY <1>8, <1>10 DEF s1, States
<1>12. Changed(s1, r, w, ZeroPage)
  BY <1>2, <1>3, <1>8, <1>11, WindowsClose DEF r
<1>13. /\ r \in States /\ r.kfree = s.kfree /\ r.tlb = {} /\ r.mem[w] = ZeroPage
       /\ \A p \in KernelPages \ {w} : r.mem[p] = s.mem[p]
  BY <1>11, <1>12 DEF Changed
<1>14. mem' \in Memories /\ mem' = r.mem /\ next_free_kernel_page' = r.kfree /\ tlb' = r.tlb
  BY <1>1, <1>13, BecomesState
<1>15. K \in KernelPages
  BY WindowPlaces
<1>16. /\ mem'[K] = KernelDir(Link(w)) /\ mem'[w] = ZeroPage
       /\ \A p \in KernelPages \ {K, w} : mem'[p] = mem[p]
       /\ \/ /\ mem[K][WindowDir] = NoEntry /\ w = next_free_kernel_page
             /\ next_free_kernel_page' = next_free_kernel_page + 1
          \/ /\ mem[K][WindowDir] = Link(w)
             /\ next_free_kernel_page' = next_free_kernel_page
  BY <1>5, <1>8, <1>13, <1>14, <1>15
<1> QED BY <1>1, <1>8, <1>10, <1>13, <1>14, <1>16

(* A directory of the kernel with other windows is still the kernel's.      *)
LEMMA KernelWindows ==
    ASSUME NEW m, KernelSpace(m), NEW n, NEW w \in KernelPages,
           n[KERNEL_PAGE_DIR] = KernelDir(Link(w)), n[w] = ZeroPage,
           n[KERNEL_PAGE_TABLE_0] = m[KERNEL_PAGE_TABLE_0]
    PROVE  /\ KernelSpace(n) /\ WindowPages(n) = {w}
           /\ n[KERNEL_PAGE_DIR][WindowDir] = Link(w)
<1>1. n[KERNEL_PAGE_DIR][WindowDir] = Link(w)
  BY WindowPlaces DEF KernelDir
<1>2. WindowPages(n) = {w}
  BY <1>1, Links DEF WindowPages
<1>3. WindowMade(n)
  BY <1>1 DEF WindowMade
<1> QED BY <1>1, <1>2, <1>3 DEF KernelSpace

(* No task notices it.                                                      *)
LEMMA CopySpaces ==
    ASSUME MmuInv, NEW dst \in CopyPages, NEW src \in CopyPages, copy_page(dst, src)
    PROVE  /\ SpacesInv' /\ Created' = Created /\ Demanders' = Demanders
           /\ \A u \in Created : /\ Dir(u)' = Dir(u) /\ Stack(u)' = Stack(u)
                                 /\ mem'[Dir(u)][DemandDir] = mem[Dir(u)][DemandDir]
           /\ mem'[KERNEL_PAGE_DIR][WindowDir] # NoEntry
           /\ \/ /\ mem[KERNEL_PAGE_DIR][WindowDir] = NoEntry
                 /\ next_free_kernel_page' = next_free_kernel_page + 1
              \/ /\ mem[KERNEL_PAGE_DIR][WindowDir] # NoEntry
                 /\ next_free_kernel_page' = next_free_kernel_page
<1> DEFINE K == KERNEL_PAGE_DIR
<1>1. PICK w \in KernelPages \ {K} :
         /\ mem'[K] = KernelDir(Link(w)) /\ mem'[w] = ZeroPage
         /\ \A p \in KernelPages \ {K, w} : mem'[p] = mem[p]
         /\ \/ /\ mem[K][WindowDir] = NoEntry /\ w = next_free_kernel_page
               /\ next_free_kernel_page' = next_free_kernel_page + 1
            \/ /\ mem[K][WindowDir] = Link(w)
               /\ next_free_kernel_page' = next_free_kernel_page
  BY CopyEffect
<1>2. /\ Paging /\ UNCHANGED <<next_free_user_page, cr3, space>>
  BY CopyEffect
<1>3. /\ KernelSpace(mem) /\ WindowPages(mem) \subseteq Pool
      /\ \A u \in Created : SpaceInv(u)
  BY <1>2 DEF MmuInv, SpacesInv
<1>4. /\ K \in KernelPages /\ KERNEL_PAGE_TABLE_0 \in KernelPages /\ K < FIRST_KERNEL_PAGE
      /\ KERNEL_PAGE_TABLE_0 < FIRST_KERNEL_PAGE /\ KERNEL_PAGE_TABLE_0 # K
      /\ FIRST_KERNEL_PAGE \in Nat /\ KernelPages = 0 .. ENTRIES - 1 /\ ENTRIES \in Nat
  BY WindowPlaces, Slots DEF KernelPages
<1>5. /\ next_free_kernel_page \in Nat /\ next_free_kernel_page >= FIRST_KERNEL_PAGE
      /\ next_free_kernel_page <= ENTRIES
  BY <1>2, Counts
<1> HIDE DEF K
<1>6. /\ Pool = FIRST_KERNEL_PAGE .. next_free_kernel_page - 1
      /\ Pool' = FIRST_KERNEL_PAGE .. next_free_kernel_page' - 1
  BY <1>2 DEF Pool
<1>7. \/ WindowPages(mem) = {w} /\ next_free_kernel_page' = next_free_kernel_page
      \/ /\ w = next_free_kernel_page /\ WindowPages(mem) = {}
         /\ next_free_kernel_page' = next_free_kernel_page + 1
  BY <1>1, Links DEF WindowPages, K
<1>8. /\ w \in Pool' /\ Pool \subseteq Pool' /\ Pool \subseteq KernelPages
      /\ w \notin Pool \ WindowPages(mem) /\ K \notin Pool /\ KERNEL_PAGE_TABLE_0 \notin Pool
      /\ KERNEL_PAGE_TABLE_0 # w
  BY <1>1, <1>3, <1>4, <1>5, <1>6, <1>7
<1>9. KernelSpace(mem') /\ WindowPages(mem') = {w} /\ mem'[K][WindowDir] = Link(w)
  <2>1. mem'[KERNEL_PAGE_TABLE_0] = mem[KERNEL_PAGE_TABLE_0]
    BY <1>1, <1>4, <1>8
  <2> QED BY <1>1, <1>3, <2>1, KernelWindows DEF K
<1>10. Created' = Created
  BY <1>2 DEF Created
<1>11. ASSUME NEW u \in Created
       PROVE  /\ Dir(u)' = Dir(u) /\ TaskSpace(mem', u, Dir(u))
              /\ Held(mem', Dir(u)) = Held(mem, Dir(u))
              /\ mem'[Dir(u)][DemandDir] = mem[Dir(u)][DemandDir] /\ Stack(u)' = Stack(u)
  <2>1. Dir(u)' = Dir(u) /\ Dir(u) \in Nat
    BY <1>2, <1>4 DEF Dir, MmuInv, TypeInv, Created
  <2>2. TaskSpace(mem, u, Dir(u)) /\ Held(mem, Dir(u)) \subseteq Pool \ WindowPages(mem)
    BY <1>3 DEF SpaceInv
  <2>3. \A p \in Held(mem, Dir(u)) : mem'[p] = mem[p]
    BY <1>1, <1>8, <2>2
  <2>4. /\ TaskSpace(mem', u, Dir(u)) /\ Held(mem', Dir(u)) = Held(mem, Dir(u))
        /\ mem'[Dir(u)][DemandDir] = mem[Dir(u)][DemandDir]
        /\ mem'[Dir(u) + 2] = mem[Dir(u) + 2]
    BY <2>1, <2>2, <2>3, SpaceKept
  <2>5. Stack(u)' = Stack(u)
    BY <2>1, <2>4 DEF Stack
  <2> QED BY <2>1, <2>4, <2>5
<1>12. ASSUME NEW u \in Created PROVE SpaceInv(u)'
  <2>1. SpaceInv(u)
    BY <1>3
  <2>2. Held(mem', Dir(u)') \subseteq Pool' \ WindowPages(mem')
    BY <1>8, <1>9, <1>11, <2>1 DEF SpaceInv
  <2>3. \A x \in Created \ {u} : Held(mem', Dir(u)') \cap Held(mem', Dir(x)') = {}
                                 /\ Stack(u)' # Stack(x)'
    BY <1>11, <2>1 DEF SpaceInv
  <2> QED BY <1>2, <1>10, <1>11, <2>1, <2>2, <2>3 DEF SpaceInv
<1>13. SpacesInv'
  BY <1>8, <1>9, <1>10, <1>12 DEF SpacesInv
<1>14. Demanders' = Demanders
  BY <1>10, <1>11 DEF Demanders
<1> QED BY <1>1, <1>9, <1>10, <1>11, <1>13, <1>14, Links DEF K

-----------------------------------------------------------------------------
(* A fault in the on-demand area                                            *)

(* A task that runs is one that was created, in its own directory.          *)
LEMMA RunningTask ==
    ASSUME MmuInv, running \in Tasks
    PROVE  /\ Paging /\ running \in Created /\ cr3 = Dir(running) /\ cr3 \in Nat
           /\ SpaceInv(running) /\ KernelSpace(mem) /\ WindowPages(mem) \subseteq Pool
<1>1. Paging
  BY LayoutAssumption DEF MmuInv, BootInv
<1>2. running \in Created /\ cr3 = Dir(running) /\ cr3 \in Nat
  BY <1>1 DEF MmuInv, CurrentInv, TypeInv, KernelPages
<1> QED BY <1>1, <1>2 DEF MmuInv, SpacesInv

(* What the handler does: at the first fault a table for the page is made,  *)
(* later ones change nothing.                                               *)
LEMMA FaultEffect ==
    ASSUME MmuInv, NEW virt, NEW write, NEW last_byte, page_fault(virt, write, last_byte),
           InOnDemandArea(virt, last_byte)
    PROVE  LET c == Dir(running)
               q == next_free_kernel_page
           IN  /\ running \in Tasks
               /\ mem' \in Memories /\ tlb' = {}
               /\ \/ /\ mem[c][DemandDir] = NoEntry /\ q \in KernelPages
                     /\ mem'[c] = TaskDir(c, Link(q)) /\ mem'[q] = DemandTable
                     /\ \A p \in KernelPages \ {c, q} : mem'[p] = mem[p]
                     /\ next_free_kernel_page' = q + 1
                  \/ /\ mem[c][DemandDir] # NoEntry
                     /\ mem' = mem /\ next_free_kernel_page' = q
               /\ UNCHANGED <<data, next_free_user_page, cr3, space, running, fault>>
<1> DEFINE c == Dir(running)
           q == next_free_kernel_page
           V == ON_DEMAND_MEM_START_VIRTUAL
           P == ON_DEMAND_MEM_START_PHYSICAL
           A == OnDemandAttrs
           e == mem[c][DemandDir]
           r == mmu_map_page(Now, cr3, V, P, A)
<1>1. /\ running \in Tasks /\ Becomes(r) /\ UNCHANGED fault
      /\ UNCHANGED <<data, next_free_user_page, cr3, space, running>>
  BY DEF page_fault
<1>2. /\ Paging /\ running \in Created /\ cr3 = c /\ c \in Nat /\ SpaceInv(running)
  BY <1>1, RunningTask
<1>3. /\ mem[c] = TaskDir(c, e) /\ (e = NoEntry \/ DemandMade(mem, c))
      /\ c .. c + 3 \subseteq Pool
  BY <1>2 DEF SpaceInv, TaskSpace, Held
<1>4. Now \in States /\ Now.mem = mem /\ Now.kfree = q /\ mem \in Memories
  BY <1>2, NowState DEF MmuInv, TypeInv
<1>5. /\ q \in Nat /\ q >= FIRST_KERNEL_PAGE /\ q <= ENTRIES /\ FIRST_KERNEL_PAGE \in Nat
      /\ ENTRIES \in Nat /\ Pool = FIRST_KERNEL_PAGE .. q - 1
  BY <1>2, Counts, LayoutAssumption DEF Pool
<1>6. c \in KernelPages /\ c # q
  BY <1>2, <1>3, <1>5 DEF KernelPages
<1>7. /\ V \in Nat /\ VIRT_PAGE_DIR(V) = DemandDir /\ VIRT_PAGE_TABLE(V) = DemandSlot
      /\ DemandDir \in Indexes /\ DemandSlot \in Indexes
      /\ DemandDir # 0 /\ DemandDir # CodeDir
  BY Slots DEF DemandDir, DemandSlot, Indexes
<1>8. P \in Nat /\ A \in SUBSET Full
  BY PhysicalAssumption, Rights
<1>9. WithPage(ZeroPage, V, P, A) = DemandTable
  BY <1>7 DEF WithPage, DemandTable
<1> HIDE DEF r, V, P, A, c, q
<1>10. CASE e = NoEntry
  <2>1. q \in KernelPages
    <3>1. Demanders # Created
      BY <1>2, <1>10 DEF Demanders, c
    <3> QED BY <1>2, <3>1, Counts DEF q
  <2>2. mem[c][VIRT_PAGE_DIR(V)] = NoEntry
    BY <1>7, <1>10
  <2> HIDE DEF e
  <2>3. Made(Now, r, c, VIRT_PAGE_DIR(V), WithPage(ZeroPage, V, P, A))
    BY <1>2, <1>4, <1>6, <1>7, <1>8, <2>1, <2>2, MapPageNew DEF r
  <2>4. /\ r \in States /\ r.kfree = q + 1 /\ r.tlb = {}
        /\ r.mem[c] = [mem[c] EXCEPT ![DemandDir] = Link(q)] /\ r.mem[q] = DemandTable
        /\ \A p \in KernelPages \ {c, q} : r.mem[p] = mem[p]
    BY <1>4, <1>7, <1>9, <2>3 DEF Made
  <2>5. [TaskDir(c, e) EXCEPT ![DemandDir] = Link(q)] = TaskDir(c, Link(q))
    <3> DEFINE l1 == Link(c + 1)
               l2 == Link(c + 2)
               l3 == Link(q)
    <3>1. TaskDir(c, e) = [i \in Indexes |-> IF i = 0 THEN l1 ELSE IF i = CodeDir THEN l2
                                            ELSE IF i = DemandDir THEN e ELSE NoEntry]
      BY DEF TaskDir
    <3>2. TaskDir(c, l3) = [i \in Indexes |-> IF i = 0 THEN l1 ELSE IF i = CodeDir THEN l2
                                             ELSE IF i = DemandDir THEN l3 ELSE NoEntry]
      BY DEF TaskDir
    <3> HIDE DEF l1, l2, l3
    <3>3. [TaskDir(c, e) EXCEPT ![DemandDir] = l3] = TaskDir(c, l3)
      BY <1>7, <3>1, <3>2
    <3> QED BY <3>3 DEF l3
  <2>6. mem' \in Memories /\ mem' = r.mem /\ next_free_kernel_page' = r.kfree /\ tlb' = r.tlb
    BY <1>1, <2>4, BecomesState
  <2> QED BY <1>1, <1>3, <1>10, <2>1, <2>4, <2>5, <2>6 DEF c, q, e
<1>11. CASE e # NoEntry
  <2>1. PICK p \in KernelPages : e = Link(p) /\ mem[p] = DemandTable /\ p \notin c .. c + 3
    BY <1>3, <1>11 DEF DemandMade
  <2>2. p # c
    BY <1>2, <2>1
  <2>3. mem[c][VIRT_PAGE_DIR(V)] = Link(p)
    BY <1>7, <2>1
  <2> HIDE DEF e
  <2>4. Changed(Now, r, p, WithPage(mem[p], V, P, A))
    BY <1>2, <1>4, <1>6, <1>7, <1>8, <2>1, <2>2, <2>3, MapPageFound DEF r
  <2>5. WithPage(DemandTable, V, P, A) = DemandTable
    <3>1. DemandTable = [ZeroPage EXCEPT ![DemandSlot] = [attrs |-> A, page |-> P]]
      BY DEF DemandTable, A, P
    <3> DEFINE x == [attrs |-> A, page |-> P]
    <3>2. WithPage(DemandTable, V, P, A) = [DemandTable EXCEPT ![DemandSlot] = x]
      BY <1>7 DEF WithPage
    <3> HIDE DEF x
    <3> QED BY <1>7, <3>1, <3>2 DEF ZeroPage, x
  <2>6. /\ r \in States /\ r.kfree = q /\ r.tlb = {}
        /\ \A o \in KernelPages : r.mem[o] = mem[o]
    BY <1>4, <2>1, <2>4, <2>5 DEF Changed
  <2>7. mem' \in Memories /\ mem' = r.mem /\ next_free_kernel_page' = r.kfree /\ tlb' = r.tlb
    BY <1>1, <2>6, BecomesState
  <2>8. mem' = mem
    BY <1>4, <2>6, <2>7 DEF Memories
  <2> QED BY <1>1, <1>11, <2>6, <2>7, <2>8 DEF c, q, e
<1> QED BY <1>10, <1>11

(* Only the task itself notices it.                                         *)
LEMMA FaultSpaces ==
    ASSUME MmuInv, NEW virt, NEW write, NEW last_byte, page_fault(virt, write, last_byte),
           InOnDemandArea(virt, last_byte)
    PROVE  /\ SpacesInv' /\ Created' = Created /\ Demanders' = Demanders \cup {running}
           /\ mem'[KERNEL_PAGE_DIR] = mem[KERNEL_PAGE_DIR]
           /\ \A t \in Created : /\ Dir(t)' = Dir(t) /\ Stack(t)' = Stack(t)
                                 /\ t # running =>
                                      mem'[Dir(t)][DemandDir] = mem[Dir(t)][DemandDir]
           /\ mem'[Dir(running)][DemandDir] # NoEntry
           /\ next_free_kernel_page'
                = next_free_kernel_page + (IF running \in Demanders THEN 0 ELSE 1)
<1> DEFINE u == running
           c == Dir(u)
           q == next_free_kernel_page
<1>1. /\ u \in Tasks /\ UNCHANGED <<next_free_user_page, cr3, space, running>>
      /\ mem' \in Memories
      /\ \/ /\ mem[c][DemandDir] = NoEntry /\ q \in KernelPages
            /\ mem'[c] = TaskDir(c, Link(q)) /\ mem'[q] = DemandTable
            /\ \A p \in KernelPages \ {c, q} : mem'[p] = mem[p]
            /\ next_free_kernel_page' = q + 1
         \/ /\ mem[c][DemandDir] # NoEntry
            /\ mem' = mem /\ next_free_kernel_page' = q
  BY FaultEffect
<1>2. /\ Paging /\ u \in Created /\ cr3 = c /\ c \in Nat /\ SpaceInv(u)
      /\ KernelSpace(mem) /\ WindowPages(mem) \subseteq Pool
      /\ \A t \in Created : SpaceInv(t)
  BY <1>1, RunningTask DEF MmuInv, SpacesInv
<1>3. /\ Created' = Created /\ \A t \in Created : Dir(t)' = Dir(t) /\ Dir(t) \in Nat
  BY <1>1 DEF Created, Dir, MmuInv, TypeInv, KernelPages
<1>4. CASE mem[c][DemandDir] # NoEntry
  <2>1. mem' = mem /\ next_free_kernel_page' = q
    BY <1>1, <1>4
  <2>2. Pool' = Pool
    BY <2>1 DEF Pool
  <2>3. \A t \in Created : Stack(t)' = Stack(t)
    BY <1>3, <2>1 DEF Stack
  <2>4. \A t \in Created : SpaceInv(t)'
    BY <1>1, <1>2, <1>3, <2>1, <2>2, <2>3 DEF SpaceInv
  <2>5. SpacesInv'
    BY <1>2, <1>3, <2>1, <2>2, <2>4 DEF SpacesInv
  <2>6. Demanders' = Demanders /\ u \in Demanders
    BY <1>2, <1>3, <1>4, <2>1 DEF Demanders
  <2>7. q \in Nat
    BY <1>2, Counts
  <2> QED BY <1>3, <1>4, <2>1, <2>3, <2>5, <2>6, <2>7
<1>5. CASE mem[c][DemandDir] = NoEntry
  <2>1. /\ q \in KernelPages
        /\ mem'[c] = TaskDir(c, Link(q)) /\ mem'[q] = DemandTable
        /\ \A p \in KernelPages \ {c, q} : mem'[p] = mem[p]
        /\ next_free_kernel_page' = q + 1
    BY <1>1, <1>5
  <2>2. /\ q \in Nat /\ q >= FIRST_KERNEL_PAGE /\ FIRST_KERNEL_PAGE \in Nat
        /\ KernelPages = 0 .. ENTRIES - 1 /\ ENTRIES \in Nat
    BY <1>2, <2>1, Counts, Slots, WindowPlaces DEF KernelPages
  <2> HIDE DEF q
  <2>3. Pool = FIRST_KERNEL_PAGE .. q - 1 /\ Pool' = FIRST_KERNEL_PAGE .. q
    BY <2>1, <2>2 DEF Pool, q
  <2>4. /\ Pool \subseteq KernelPages /\ q \notin Pool /\ Pool' = Pool \cup {q}
    BY <2>1, <2>2, <2>3
  <2>5. /\ Held(mem, c) = c .. c + 3 /\ Held(mem, c) \subseteq Pool \ WindowPages(mem)
        /\ c \in Pool
    <3>1. Held(mem, c) = c .. c + 3
      BY <1>5, Links DEF Held
    <3>2. c \in c .. c + 3
      BY <1>2
    <3> QED BY <1>2, <3>1, <3>2 DEF SpaceInv
  <2>6. KERNEL_PAGE_DIR \notin Pool' /\ KERNEL_PAGE_TABLE_0 \notin Pool'
        /\ KERNEL_PAGE_DIR \in KernelPages /\ KERNEL_PAGE_TABLE_0 \in KernelPages
    BY <2>2, <2>3, WindowPlaces
  <2>7. KernelSpace(mem') /\ WindowPages(mem') = WindowPages(mem)
        /\ mem'[KERNEL_PAGE_DIR] = mem[KERNEL_PAGE_DIR]
    <3>1. /\ mem'[KERNEL_PAGE_DIR] = mem[KERNEL_PAGE_DIR]
          /\ mem'[KERNEL_PAGE_TABLE_0] = mem[KERNEL_PAGE_TABLE_0]
      BY <2>1, <2>4, <2>5, <2>6
    <3>2. \A p \in WindowPages(mem) : mem'[p] = mem[p]
      <4>1. c \notin WindowPages(mem)
        BY <1>2, <2>5
      <4> QED BY <1>2, <2>1, <2>4, <4>1
    <3> QED BY <1>2, <3>1, <3>2, KernelKept
  <2>8. ASSUME NEW t \in Created, t # u
        PROVE  /\ TaskSpace(mem', t, Dir(t)) /\ Held(mem', Dir(t)) = Held(mem, Dir(t))
               /\ mem'[Dir(t)][DemandDir] = mem[Dir(t)][DemandDir] /\ Stack(t)' = Stack(t)
    <3>1. /\ TaskSpace(mem, t, Dir(t)) /\ Held(mem, Dir(t)) \subseteq Pool
          /\ Held(mem, Dir(t)) \cap Held(mem, c) = {}
      BY <1>2, <2>8 DEF SpaceInv
    <3>2. c \in Held(mem, c)
      BY <1>2, <2>5
    <3>3. \A p \in Held(mem, Dir(t)) : mem'[p] = mem[p]
      BY <2>1, <2>4, <3>1, <3>2
    <3>4. /\ TaskSpace(mem', t, Dir(t)) /\ Held(mem', Dir(t)) = Held(mem, Dir(t))
          /\ mem'[Dir(t)][DemandDir] = mem[Dir(t)][DemandDir]
          /\ mem'[Dir(t) + 2] = mem[Dir(t) + 2]
      BY <1>3, <3>1, <3>3, SpaceKept
    <3> QED BY <1>3, <3>4 DEF Stack
  <2>9. /\ mem'[c][DemandDir] = Link(q) /\ mem'[c + 1] = mem[c + 1] /\ mem'[c + 2] = mem[c + 2]
        /\ q \notin c .. c + 3
    <3>1. mem'[c][DemandDir] = Link(q)
      BY <2>1, Slots DEF TaskDir, Indexes
    <3>2. c + 1 \in Pool /\ c + 2 \in Pool /\ c + 1 # c /\ c + 2 # c
      BY <1>2, <2>5
    <3> QED BY <2>1, <2>4, <2>5, <3>1, <3>2
  <2>10. /\ TaskSpace(mem', u, c) /\ Held(mem', c) = Held(mem, c) \cup {q}
         /\ \A t \in {u} : Stack(t)' = Stack(t)
    <3>1. DemandMade(mem', c)
      BY <2>1, <2>9 DEF DemandMade
    <3>2. TaskSpace(mem, u, c)
      BY <1>2 DEF SpaceInv
    <3>3. TaskSpace(mem', u, c)
      BY <2>1, <2>9, <3>1, <3>2 DEF TaskSpace
    <3>4. Held(mem', c) = Held(mem, c) \cup {q}
      BY <2>1, <2>5, <2>9, Links DEF Held
    <3>5. ASSUME NEW t \in {u} PROVE Stack(t)' = Stack(t)
      BY <1>2, <1>3, <2>9 DEF Stack
    <3> QED BY <3>3, <3>4, <3>5
  <2>11. ASSUME NEW t \in Created PROVE SpaceInv(t)'
    <3>1. SpaceInv(t) /\ space' = space /\ Dir(t)' = Dir(t)
      BY <1>1, <1>2, <1>3
    <3>2. TaskSpace(mem', t, Dir(t)) /\ Stack(t)' = Stack(t)
      BY <2>8, <2>10
    <3>3. Held(mem', Dir(t)) \subseteq Pool' \ WindowPages(mem')
      <4>1. q \notin WindowPages(mem)
        BY <1>2, <2>4
      <4> QED BY <2>4, <2>7, <2>8, <2>10, <3>1, <4>1 DEF SpaceInv
    <3>4. \A x \in Created \ {t} : Held(mem', Dir(t)) \cap Held(mem', Dir(x)) = {}
      <4>1. \A x \in Created : Held(mem, Dir(x)) \subseteq Pool
        BY <1>2 DEF SpaceInv
      <4>2. \A x \in Created : Held(mem', Dir(x)) = Held(mem, Dir(x)) \cup
                                                     (IF x = u THEN {q} ELSE {})
        BY <2>8, <2>10
      <4>3. \A x \in Created \ {t} : Held(mem, Dir(t)) \cap Held(mem, Dir(x)) = {}
        BY <3>1 DEF SpaceInv
      <4> QED BY <2>4, <4>1, <4>2, <4>3
    <3>5. \A x \in Created : Stack(x)' = Stack(x)
      BY <2>8, <2>10
    <3> QED BY <1>1, <1>3, <3>1, <3>2, <3>3, <3>4, <3>5 DEF SpaceInv
  <2>12. SpacesInv'
    BY <1>2, <1>3, <2>4, <2>7, <2>11 DEF SpacesInv
  <2>13. Demanders' = Demanders \cup {u} /\ u \notin Demanders
    BY <1>2, <1>3, <1>5, <2>8, <2>9, Links DEF Demanders
  <2> QED BY <1>3, <2>1, <2>7, <2>8, <2>9, <2>10, <2>12, <2>13, Links DEF q
<1> QED BY <1>4, <1>5

-----------------------------------------------------------------------------
(* The pages that are touched                                               *)

(* A product grows with its factor.                                         *)
LEMMA Monotone ==
    ASSUME NEW k \in Nat, NEW a \in Nat, NEW b \in Nat, a <= b
    PROVE  k * a <= k * b
<1>1. PICK d \in Nat : b = a + d
  <2>1. b - a \in Nat /\ b = a + (b - a)
    OBVIOUS
  <2> QED BY <2>1
<1>2. k * b = k * a + k * d
  BY <1>1
<1>3. k * d \in Nat /\ k * a \in Nat
  OBVIOUS
<1> QED BY <1>2, <1>3

(* The virtual pages are those whose entry is in the directory.             *)
LEMMA VirtDirs ==
    ASSUME NEW v \in Nat
    PROVE  v \in VirtPages <=> VIRT_PAGE_DIR(v) \in Indexes
<1> DEFINE d == VIRT_PAGE_DIR(v)
           s == VIRT_PAGE_TABLE(v)
<1>1. /\ d \in Nat /\ s \in 0 .. ENTRIES - 1 /\ v = ENTRIES * d + s
      /\ ENTRIES \in Nat /\ ENTRIES > 1
  BY Division, Slots DEF Indexes
<1> HIDE DEF d, s
<1>2. ASSUME d <= ENTRIES - 1 PROVE v <= ENTRIES * ENTRIES - 1
  <2>1. ENTRIES * d <= ENTRIES * (ENTRIES - 1)
    BY <1>1, <1>2, Monotone
  <2>2. ENTRIES * (ENTRIES - 1) = ENTRIES * ENTRIES - ENTRIES
    BY <1>1
  <2> QED BY <1>1, <2>1, <2>2
<1>3. ASSUME v <= ENTRIES * ENTRIES - 1 PROVE d <= ENTRIES - 1
  <2>1. SUFFICES ASSUME d >= ENTRIES PROVE FALSE
    BY <1>1
  <2>2. ENTRIES * ENTRIES <= ENTRIES * d
    BY <1>1, <2>1, Monotone
  <2> QED BY <1>1, <1>3, <2>2
<1> QED BY <1>1, <1>2, <1>3 DEF VirtPages, Indexes, d

(* Those whose translations matter.                                         *)
LEMMA TouchedPages ==
    /\ Touched \subseteq VirtPages
    /\ \A v \in VirtPages : v \in Nat /\ VIRT_PAGE_DIR(v) \in Indexes
<1>1. \A v \in VirtPages : v \in Nat
  BY Slots DEF VirtPages
<1>2. 0 \in KernelPages /\ ENTRIES - 1 \in KernelPages /\ KernelPages \subseteq Nat
      /\ 0 \in Indexes
  BY Slots DEF KernelPages, Indexes
<1>3. 0 \in VirtPages /\ ENTRIES - 1 \in VirtPages
  BY <1>2, LowPages, VirtDirs
<1>4. \A k \in 0 .. 3 : TASK_CODE_VIRTUAL + k \in VirtPages
  <2> TAKE k \in 0 .. 3
  <2>1. TASK_CODE_VIRTUAL + k \in Nat /\ VIRT_PAGE_DIR(TASK_CODE_VIRTUAL + k) \in Indexes
    BY Slots DEF Indexes
  <2> QED BY <2>1, VirtDirs
<1>5. ASSUME NEW v \in TASK_CODE_VIRTUAL .. TASK_SHARED_PAGE PROVE v \in VirtPages
  <2>1. v - TASK_CODE_VIRTUAL \in 0 .. 3 /\ v = TASK_CODE_VIRTUAL + (v - TASK_CODE_VIRTUAL)
    BY Slots
  <2> QED BY <1>4, <2>1
<1>6. /\ ON_DEMAND_MEM_START_VIRTUAL \in VirtPages /\ SRC_VIRT_PAGE \in VirtPages
      /\ DST_VIRT_PAGE \in VirtPages
  BY VirtualAssumption
<1> QED BY <1>1, <1>3, <1>5, <1>6, VirtDirs DEF Touched

-----------------------------------------------------------------------------
(* The invariant holds                                                      *)

(* Power on: only the kernel's directory is there, and nothing is cached.    *)
LEMMA InvInit == Init => MmuInv
<1> SUFFICES ASSUME Init PROVE MmuInv
  OBVIOUS
<1>1. /\ mem \in BootMemories /\ data = [p \in CopyPages |-> p]
      /\ next_free_kernel_page = FIRST_KERNEL_PAGE /\ next_free_user_page = FIRST_USER_PAGE
      /\ tlb = {} /\ cr3 = 0 /\ space = [t \in Tasks |-> NoSpace] /\ running = "boot"
      /\ fault = NONE
  BY DEF Init
<1>2. ~Paging
  BY <1>1 DEF Paging
<1>3. Created = {}
  BY <1>1 DEF Created
<1>4. 0 \in KernelPages
  BY Slots DEF KernelPages
<1>5. mem \in Memories
  BY <1>1, LayoutAssumption DEF Memories, Table
<1>6. TypeInv
  BY <1>1, <1>4, <1>5 DEF TypeInv, NoSpace
<1>7. next_free_user_page = FIRST_USER_PAGE + Cardinality(Created)
  BY <1>1, <1>3, FS_EmptySet, LayoutAssumption
<1> QED BY <1>1, <1>2, <1>3, <1>6, <1>7
       DEF MmuInv, BootInv, CurrentInv, SpacesInv, PoolsInv, TLBCoherent

(* The kernel starts to page: its directory and table are as promised, and  *)
(* no page of the pool is in use.                                           *)
LEMMA PagingStarts == MmuInv /\ mmu_init_kernel_dir => MmuInv'
<1> SUFFICES ASSUME MmuInv, mmu_init_kernel_dir PROVE MmuInv'
  OBVIOUS
<1> DEFINE K == KERNEL_PAGE_DIR
           T == KERNEL_PAGE_TABLE_0
           l == [attrs |-> {MMU_P, MMU_W}, page |-> T]
           d == [ZeroPage EXCEPT ![0] = l]
<1>1. /\ ~Paging /\ cr3' = K
      /\ mem' = [mem EXCEPT ![K] = d, ![T] = IdentityTable]
      /\ UNCHANGED <<data, next_free_kernel_page, next_free_user_page, tlb, space,
                     running, fault>>
  BY DEF mmu_init_kernel_dir, IdentityTable
<1>2. /\ mem \in Memories /\ running = "boot" /\ tlb = {} /\ fault = NONE
      /\ Created = {} /\ next_free_kernel_page = FIRST_KERNEL_PAGE
  BY <1>1 DEF MmuInv, BootInv, TypeInv
<1>3. /\ K \in KernelPages /\ T \in KernelPages /\ K # T /\ K # 0 /\ 0 \in Indexes
      /\ WindowDir # 0 /\ WindowDir \in Indexes /\ T \in Nat
  BY WindowPlaces, Slots DEF Indexes, KernelPages
<1>4. IdentityTable \in Table /\ d \in Table
  <2>1. l \in Entry
    BY <1>3 DEF Entry
  <2>2. d \in Table
    <3> HIDE DEF l
    <3> QED BY <1>3, <2>1, Rights DEF Table
  <2>3. \A i \in Indexes : [attrs |-> {MMU_P, MMU_W}, page |-> i] \in Entry
    BY DEF Entry, Indexes
  <2> QED BY <2>2, <2>3 DEF Table, IdentityTable
<1>5. d = KernelDir(NoEntry)
  <2>1. KernelDir(NoEntry) = [i \in Indexes |-> IF i = 0 THEN l
                                               ELSE IF i = WindowDir THEN NoEntry ELSE NoEntry]
    BY DEF KernelDir
  <2> HIDE DEF l
  <2>2. d = [i \in Indexes |-> IF i = 0 THEN l ELSE NoEntry]
    BY <1>3 DEF ZeroPage
  <2> QED BY <2>1, <2>2
<1> HIDE DEF K, T, d
<1>6. mem' \in Memories /\ mem'[K] = KernelDir(NoEntry) /\ mem'[T] = IdentityTable
  BY <1>1, <1>2, <1>3, <1>4, <1>5 DEF Memories
<1>7. mem'[K][WindowDir] = NoEntry
  BY <1>3, <1>6 DEF KernelDir
<1>8. Created' = {} /\ Demanders' = {} /\ Paging'
  BY <1>1, <1>2, <1>3 DEF Created, Demanders, Paging
<1>9. TypeInv'
  BY <1>1, <1>3, <1>6 DEF MmuInv, TypeInv
<1>10. BootInv' /\ CurrentInv'
  BY <1>1, <1>2, <1>8, LayoutAssumption DEF BootInv, CurrentInv, K
<1>11. SpacesInv'
  BY <1>6, <1>7, <1>8, Links DEF SpacesInv, KernelSpace, WindowPages, K, T
<1>12. PoolsInv'
  <2>1. next_free_user_page = FIRST_USER_PAGE + 0 /\ FIRST_USER_PAGE \in Nat
        /\ FIRST_KERNEL_PAGE \in Nat
    BY <1>2, FS_EmptySet, LayoutAssumption DEF MmuInv, PoolsInv
  <2> QED BY <1>1, <1>2, <1>7, <1>8, <2>1, FS_EmptySet DEF PoolsInv, K
<1>13. TLBCoherent'
  BY <1>1, <1>2 DEF TLBCoherent
<1> QED BY <1>9, <1>10, <1>11, <1>12, <1>13 DEF MmuInv

(* A task is created: four pages of the pool and a page for its stack.      *)
LEMMA CreateInv == ASSUME MmuInv, NEW t \in Tasks, tss_create_user_task(t) PROVE MmuInv'
<1> DEFINE c == next_free_kernel_page
<1>1. /\ Paging /\ running = "boot" /\ t \in Tasks \ Created
      /\ c \in KernelPages /\ c + 3 \in KernelPages
      /\ mem' \in Memories /\ next_free_kernel_page' = c + 4 /\ tlb' = {}
      /\ space' = [space EXCEPT ![t] = [cr3 |-> c, stack0 |-> c + 3]]
      /\ Created' = Created \cup {t}
      /\ next_free_user_page' = next_free_user_page + 1
      /\ UNCHANGED <<data, cr3, running, fault>>
  BY CreateEffect
<1>2. /\ SpacesInv' /\ Demanders' = Demanders
      /\ mem'[KERNEL_PAGE_DIR] = mem[KERNEL_PAGE_DIR]
  BY CreateSpaces
<1>3. TypeInv'
  BY <1>1 DEF MmuInv, TypeInv
<1>4. Paging'
  BY <1>1 DEF Paging
<1>5. BootInv' /\ CurrentInv'
  BY <1>1, <1>4, LayoutAssumption DEF MmuInv, BootInv, CurrentInv, Created
<1>6. PoolsInv'
  <2>1. IsFiniteSet(Created) /\ Cardinality(Created) \in Nat /\ Cardinality(Demanders) \in Nat
    BY <1>1, Counts
  <2>2. Cardinality(Created \cup {t}) = Cardinality(Created) + 1
    BY <1>1, <2>1, FS_AddElement
  <2>3. FIRST_KERNEL_PAGE \in Nat /\ FIRST_USER_PAGE \in Nat
    BY LayoutAssumption
  <2> QED BY <1>1, <1>2, <2>1, <2>2, <2>3 DEF MmuInv, PoolsInv
<1>7. TLBCoherent'
  BY <1>1 DEF TLBCoherent
<1> QED BY <1>2, <1>3, <1>5, <1>6, <1>7 DEF MmuInv

(* A page is copied.                                                        *)
LEMMA CopyInv ==
    ASSUME MmuInv, NEW dst \in CopyPages, NEW src \in CopyPages, copy_page(dst, src)
    PROVE  MmuInv'
<1>1. /\ Paging /\ running = "boot" /\ mem' \in Memories /\ tlb' = {}
      /\ data' = [data EXCEPT ![dst] = data[src]]
      /\ UNCHANGED <<next_free_user_page, cr3, space, running, fault>>
  BY CopyEffect
<1>2. /\ SpacesInv' /\ Created' = Created /\ Demanders' = Demanders
      /\ mem'[KERNEL_PAGE_DIR][WindowDir] # NoEntry
      /\ \/ /\ mem[KERNEL_PAGE_DIR][WindowDir] = NoEntry
            /\ next_free_kernel_page' = next_free_kernel_page + 1
         \/ /\ mem[KERNEL_PAGE_DIR][WindowDir] # NoEntry
            /\ next_free_kernel_page' = next_free_kernel_page
  BY CopySpaces
<1>3. TypeInv'
  BY <1>1 DEF MmuInv, TypeInv
<1>4. Paging'
  BY <1>1 DEF Paging
<1>5. BootInv' /\ CurrentInv'
  BY <1>1, <1>2, <1>4, LayoutAssumption DEF MmuInv, BootInv, CurrentInv, Created
<1>6. PoolsInv'
  <2>1. Cardinality(Created) \in Nat /\ Cardinality(Demanders) \in Nat
    BY <1>1, Counts
  <2>2. FIRST_KERNEL_PAGE \in Nat
    BY LayoutAssumption
  <2> QED BY <1>1, <1>2, <2>1, <2>2 DEF MmuInv, PoolsInv
<1>7. TLBCoherent'
  BY <1>1 DEF TLBCoherent
<1> QED BY <1>2, <1>3, <1>5, <1>6, <1>7 DEF MmuInv

(* A fault in the on-demand area is served.                                 *)
LEMMA FaultInv ==
    ASSUME MmuInv, NEW virt, NEW write, NEW last_byte, page_fault(virt, write, last_byte),
           InOnDemandArea(virt, last_byte)
    PROVE  MmuInv'
<1>1. /\ running \in Tasks /\ mem' \in Memories /\ tlb' = {}
      /\ UNCHANGED <<data, next_free_user_page, cr3, space, running, fault>>
  BY FaultEffect
<1>2. /\ SpacesInv' /\ Created' = Created /\ Demanders' = Demanders \cup {running}
      /\ mem'[KERNEL_PAGE_DIR] = mem[KERNEL_PAGE_DIR]
      /\ next_free_kernel_page'
           = next_free_kernel_page + (IF running \in Demanders THEN 0 ELSE 1)
  BY FaultSpaces
<1>3. Paging /\ running \in Created /\ cr3 = Dir(running)
  BY <1>1, RunningTask
<1>4. TypeInv'
  BY <1>1 DEF MmuInv, TypeInv
<1>5. Paging'
  BY <1>1, <1>3 DEF Paging
<1>6. BootInv' /\ CurrentInv'
  BY <1>1, <1>2, <1>3, <1>5 DEF BootInv, CurrentInv, Dir
<1>7. PoolsInv'
  <2>1. /\ Cardinality(Created) \in Nat /\ Cardinality(Demanders) \in Nat
        /\ IsFiniteSet(Demanders)
    BY <1>3, Counts
  <2>2. Cardinality(Demanders \cup {running})
          = Cardinality(Demanders) + (IF running \in Demanders THEN 0 ELSE 1)
    <3>1. CASE running \in Demanders
      <4>1. Demanders \cup {running} = Demanders
        BY <3>1
      <4> QED BY <2>1, <3>1, <4>1
    <3>2. CASE running \notin Demanders
      BY <2>1, <3>2, FS_AddElement
    <3> QED BY <3>1, <3>2
  <2>3. FIRST_KERNEL_PAGE \in Nat
    BY LayoutAssumption
  <2> QED BY <1>1, <1>2, <1>3, <2>1, <2>2, <2>3 DEF MmuInv, PoolsInv
<1>8. TLBCoherent'
  BY <1>1 DEF TLBCoherent
<1> QED BY <1>2, <1>4, <1>6, <1>7, <1>8 DEF MmuInv

(* The steps that leave the memory and the address spaces alone.            *)
LEMMA MemoryKept ==
    ASSUME MmuInv, Paging' = Paging,
           UNCHANGED <<mem, data, next_free_kernel_page, next_free_user_page, space>>
    PROVE  /\ Created' = Created /\ Demanders' = Demanders /\ SpacesInv' /\ PoolsInv'
           /\ \A t \in Created : Dir(t)' = Dir(t) /\ Stack(t)' = Stack(t)
<1>1. Created' = Created
  BY DEF Created
<1>2. \A t \in Created : Dir(t)' = Dir(t) /\ Stack(t)' = Stack(t)
  BY DEF Dir, Stack
<1>3. Demanders' = Demanders
  BY <1>1, <1>2 DEF Demanders
<1>4. Pool' = Pool
  BY DEF Pool
<1>5. \A t \in Created : SpaceInv(t) => SpaceInv(t)'
  BY <1>1, <1>2, <1>4 DEF SpaceInv
<1>6. SpacesInv'
  BY <1>1, <1>4, <1>5 DEF MmuInv, SpacesInv
<1>7. PoolsInv'
  BY <1>1, <1>3 DEF MmuInv, PoolsInv
<1> QED BY <1>1, <1>2, <1>3, <1>6, <1>7

(* In the current directory a walk ends at a page or nowhere, with rights.  *)
LEMMA WalkType ==
    ASSUME MmuInv, Paging, NEW v \in VirtPages
    PROVE  Walk(mem, cr3, v) \in Translation
<1>1. v \in Nat /\ VIRT_PAGE_DIR(v) \in Indexes /\ VIRT_PAGE_TABLE(v) \in Nat
  BY TouchedPages, Division DEF Indexes
<1>2. /\ \A attrs \in SUBSET Full, page \in Nat : Mapped(v, attrs, page) \in Translation
      /\ NoPage(v) \in Translation
  BY DEF Mapped, NoPage, Translation, Full
<1>3. {MMU_P, MMU_W} \in SUBSET Full /\ {MMU_P, MMU_U} \in SUBSET Full /\ Full \in SUBSET Full
  BY Rights
<1>4. CASE running \notin Tasks /\ cr3 = KERNEL_PAGE_DIR
  <2>1. Walk(mem, cr3, v) \in {Mapped(v, {MMU_P, MMU_W}, VIRT_PAGE_TABLE(v)), NoPage(v)}
    BY <1>1, <1>4, KernelWalk DEF MmuInv, SpacesInv
  <2> QED BY <1>1, <1>2, <1>3, <2>1
<1>5. CASE running \in Created /\ cr3 = Dir(running)
  <2> DEFINE d == VIRT_PAGE_DIR(v)
             slot == VIRT_PAGE_TABLE(v)
             e == TaskTable(running, Stack(running))[slot]
             W == Walk(mem, cr3, v)
  <2>1. SpaceInv(running) /\ running \in Tasks
    BY <1>5 DEF MmuInv, SpacesInv, Created
  <2>2. TaskSpace(mem, running, cr3) /\ Stack(running) \in Nat
        /\ Stack(running) = mem[cr3 + 2][First + 2].page
    BY <1>5, <2>1, Counts, LayoutAssumption DEF SpaceInv, Stack
  <2>3. /\ d = 0 => W = Mapped(v, {MMU_P, MMU_W}, slot)
        /\ d = CodeDir => W = IF e = NoEntry THEN NoPage(v) ELSE Mapped(v, e.attrs, e.page)
        /\ d = DemandDir => W \in {Mapped(v, Full, ON_DEMAND_MEM_START_PHYSICAL), NoPage(v)}
        /\ d \notin {0, CodeDir, DemandDir} => W = NoPage(v)
    BY <1>1, <2>2, TaskWalk
  <2>4. slot \in Indexes
    BY <1>1, Division
  <2>5. e \in Entry
    <3>1. CodeStart[running] \in Nat /\ SHARED \in Nat
      BY <2>1, LayoutAssumption, PhysicalAssumption
    <3>2. NoEntry \in Entry
      BY Rights
    <3>3. \A b \in SUBSET Full, p \in Nat : [attrs |-> b, page |-> p] \in Entry
      BY DEF Entry, Full
    <3> QED BY <1>3, <2>2, <2>4, <3>1, <3>2, <3>3 DEF TaskTable
  <2>6. e.attrs \in SUBSET Full /\ e.page \in Nat
    BY <2>5 DEF Entry, Full
  <2>7. ON_DEMAND_MEM_START_PHYSICAL \in Nat
    BY PhysicalAssumption
  <2> HIDE DEF d, slot, e, W
  <2>8. \/ W \in {Mapped(v, {MMU_P, MMU_W}, slot), NoPage(v), Mapped(v, e.attrs, e.page)}
        \/ W = Mapped(v, Full, ON_DEMAND_MEM_START_PHYSICAL)
    BY <2>3
  <2>9. slot \in Nat
    BY <1>1 DEF slot
  <2>10. W \in Translation
    BY <1>2, <1>3, <2>6, <2>7, <2>8, <2>9
  <2> QED BY <2>10 DEF W
<1> QED BY <1>4, <1>5 DEF MmuInv, CurrentInv

(* A translation that is cached is the one the tables give.                 *)
LEMMA LookupWalks ==
    ASSUME MmuInv, NEW v
    PROVE  Lookup(Now, cr3, v) = Walk(mem, cr3, v)
<1>1. Now.tlb = tlb /\ Now.mem = mem
  BY DEF Now
<1>2. CASE \E e \in tlb : e.virt = v
  <2> DEFINE e == CHOOSE e \in tlb : e.virt = v
  <2>1. e \in tlb /\ e.virt = v
    BY <1>2
  <2>2. e = Walk(mem, cr3, v)
    BY <2>1 DEF MmuInv, TLBCoherent
  <2> QED BY <1>1, <1>2, <2>2 DEF Lookup
<1>3. CASE ~ \E e \in tlb : e.virt = v
  BY <1>1, <1>3 DEF Lookup
<1> QED BY <1>2, <1>3

(* Another task, or the idle task, runs.                                    *)
LEMMA SwitchInv ==
    ASSUME MmuInv, NEW x \in Tasks \cup {"idle"}, SwitchTo(x)
    PROVE  MmuInv'
<1>1. /\ Paging /\ fault = NONE
      /\ x = "idle" \/ (x \in Tasks /\ running # "boot" /\ space[x] # NoSpace)
      /\ running' = x /\ tlb' = {}
      /\ cr3' = IF x = "idle" THEN KERNEL_PAGE_DIR ELSE space[x].cr3
      /\ UNCHANGED <<mem, data, next_free_kernel_page, next_free_user_page, space, fault>>
  BY DEF SwitchTo, stopped
<1>2. \/ x = "idle" /\ x \notin Tasks
      \/ x # "idle" /\ x \in Created
  BY <1>1, LayoutAssumption DEF Created
<1>3. cr3' \in KernelPages /\ cr3' # 0
  <2>1. KERNEL_PAGE_DIR \in KernelPages /\ KERNEL_PAGE_DIR # 0 /\ FIRST_KERNEL_PAGE > 0
        /\ FIRST_KERNEL_PAGE \in Nat
    BY WindowPlaces
  <2>2. CASE x = "idle"
    BY <1>1, <2>1, <2>2
  <2>3. CASE x # "idle"
    <3>1. SpaceInv(x) /\ cr3' = Dir(x) /\ Dir(x) \in KernelPages /\ Dir(x) \in Nat
      BY <1>1, <1>2, <2>3 DEF MmuInv, SpacesInv, TypeInv, Dir, Created, KernelPages
    <3>2. Dir(x) \in Pool
      BY <3>1 DEF SpaceInv, Held
    <3> QED BY <2>1, <3>1, <3>2 DEF Pool
  <2> QED BY <2>2, <2>3
<1>4. Paging' = Paging
  BY <1>1, <1>3 DEF Paging
<1>5. /\ Created' = Created /\ SpacesInv' /\ PoolsInv'
  BY <1>1, <1>4, MemoryKept
<1>6. TypeInv'
  BY <1>1, <1>3 DEF MmuInv, TypeInv
<1>7. BootInv' /\ CurrentInv'
  BY <1>1, <1>2, <1>4, <1>5 DEF BootInv, CurrentInv, Dir
<1>8. TLBCoherent'
  BY <1>1 DEF TLBCoherent
<1> QED BY <1>5, <1>6, <1>7, <1>8 DEF MmuInv

(* The processor caches a translation, or forgets one.                      *)
LEMMA FillInv ==
    ASSUME MmuInv, NEW v \in Touched, TlbFill(v)
    PROVE  MmuInv'
<1> DEFINE e == Lookup(Now, cr3, v)
<1>1. /\ Paging /\ tlb' = tlb \cup {e}
      /\ UNCHANGED <<mem, data, next_free_kernel_page, next_free_user_page, cr3, space,
                     running, fault>>
  BY DEF TlbFill
<1>2. e = Walk(mem, cr3, v) /\ v \in VirtPages
  BY LookupWalks, TouchedPages
<1>3. e \in Translation
  BY <1>1, <1>2, WalkType
<1>4. e.virt = v
  BY <1>2 DEF Walk
<1> HIDE DEF e
<1>5. Paging' = Paging
  BY <1>1 DEF Paging
<1>6. Created' = Created /\ SpacesInv' /\ PoolsInv'
  BY <1>1, <1>5, MemoryKept
<1>7. TypeInv'
  BY <1>1, <1>3 DEF MmuInv, TypeInv
<1>8. BootInv' /\ CurrentInv'
  BY <1>1, <1>5, <1>6 DEF MmuInv, BootInv, CurrentInv, Dir
<1>9. TLBCoherent'
  BY <1>1, <1>2, <1>4 DEF MmuInv, TLBCoherent
<1> QED BY <1>6, <1>7, <1>8, <1>9 DEF MmuInv

(* The processor forgets a translation.                                     *)
LEMMA EvictInv ==
    ASSUME MmuInv, NEW e \in tlb, TlbEvict(e)
    PROVE  MmuInv'
<1>1. /\ tlb' = tlb \ {e}
      /\ UNCHANGED <<mem, data, next_free_kernel_page, next_free_user_page, cr3, space,
                     running, fault>>
  BY DEF TlbEvict
<1>2. Paging' = Paging
  BY <1>1 DEF Paging
<1>3. Created' = Created /\ SpacesInv' /\ PoolsInv'
  BY <1>1, <1>2, MemoryKept
<1>4. TypeInv'
  BY <1>1 DEF MmuInv, TypeInv
<1>5. BootInv' /\ CurrentInv'
  BY <1>1, <1>2, <1>3 DEF MmuInv, BootInv, CurrentInv, Dir
<1>6. TLBCoherent'
  BY <1>1 DEF MmuInv, TLBCoherent
<1> QED BY <1>3, <1>4, <1>5, <1>6 DEF MmuInv

(* A fault elsewhere stops the system.                                      *)
LEMMA StopInv ==
    ASSUME MmuInv, NEW virt \in Touched, NEW write, NEW last_byte,
           page_fault(virt, write, last_byte), ~InOnDemandArea(virt, last_byte)
    PROVE  MmuInv'
<1>1. /\ running \in Tasks /\ fault' = virt
      /\ UNCHANGED <<mem, data, next_free_kernel_page, next_free_user_page, tlb, cr3, space,
                     running>>
  BY DEF page_fault
<1>2. Paging' = Paging /\ Paging
  BY <1>1, RunningTask DEF Paging
<1>3. Created' = Created /\ SpacesInv' /\ PoolsInv'
  BY <1>1, <1>2, MemoryKept
<1>4. TypeInv'
  BY <1>1, TouchedPages DEF MmuInv, TypeInv
<1>5. BootInv' /\ CurrentInv'
  BY <1>1, <1>2, <1>3 DEF MmuInv, BootInv, CurrentInv, Dir
<1>6. TLBCoherent'
  BY <1>1 DEF MmuInv, TLBCoherent
<1> QED BY <1>3, <1>4, <1>5, <1>6 DEF MmuInv

(* A step that changes nothing.                                             *)
LEMMA StutterInv == MmuInv /\ UNCHANGED vars => MmuInv'
<1> SUFFICES ASSUME MmuInv, UNCHANGED vars PROVE MmuInv'
  OBVIOUS
<1>1. UNCHANGED <<mem, data, next_free_kernel_page, next_free_user_page, tlb, cr3, space,
                  running, fault>>
  BY DEF vars
<1>2. Paging' = Paging
  BY <1>1 DEF Paging
<1>3. Created' = Created /\ SpacesInv' /\ PoolsInv'
  BY <1>1, <1>2, MemoryKept
<1>4. TypeInv'
  BY <1>1 DEF MmuInv, TypeInv
<1>5. BootInv' /\ CurrentInv'
  BY <1>1, <1>2, <1>3 DEF MmuInv, BootInv, CurrentInv, Dir
<1>6. TLBCoherent'
  BY <1>1 DEF MmuInv, TLBCoherent
<1> QED BY <1>3, <1>4, <1>5, <1>6 DEF MmuInv

(* Every step keeps the invariant.                                          *)
LEMMA InvNext == MmuInv /\ [Next]_vars => MmuInv'
<1> SUFFICES ASSUME MmuInv, [Next]_vars PROVE MmuInv'
  OBVIOUS
<1>1. CASE mmu_init_kernel_dir
  BY <1>1, PagingStarts
<1>2. ASSUME NEW t \in Tasks, tss_create_user_task(t) PROVE MmuInv'
  BY <1>2, CreateInv
<1>3. ASSUME NEW dst \in CopyPages, NEW src \in CopyPages, copy_page(dst, src) PROVE MmuInv'
  BY <1>3, CopyInv
<1>4. ASSUME NEW x \in Tasks \cup {"idle"}, SwitchTo(x) PROVE MmuInv'
  BY <1>4, SwitchInv
<1>5. ASSUME NEW virt \in Touched, TlbFill(virt) PROVE MmuInv'
  BY <1>5, FillInv
<1>6. ASSUME NEW e \in tlb, TlbEvict(e) PROVE MmuInv'
  BY <1>6, EvictInv
<1>7. ASSUME NEW virt \in Touched, NEW write \in BOOLEAN, NEW last_byte \in BOOLEAN,
             page_fault(virt, write, last_byte)
      PROVE  MmuInv'
  <2>1. CASE InOnDemandArea(virt, last_byte)
    BY <1>7, <2>1, FaultInv
  <2>2. CASE ~InOnDemandArea(virt, last_byte)
    BY <1>7, <2>2, StopInv
  <2> QED BY <2>1, <2>2
<1>8. CASE Stopped \/ UNCHANGED vars
  BY <1>8, StutterInv DEF Stopped
<1> QED BY <1>1, <1>2, <1>3, <1>4, <1>5, <1>6, <1>7, <1>8 DEF Next

(* The invariant holds in every state.                                      *)
THEOREM InvHolds == Spec => []MmuInv
  BY InvInit, InvNext, PTL DEF Spec

-----------------------------------------------------------------------------
(* What follows from it                                                     *)

(* Types: neither pool is overrun, whatever the order of the creations, the *)
(* copies and the faults.                                                   *)
THEOREM TypeOKHolds == Spec => []TypeOK
<1>1. ASSUME MmuInv PROVE TypeOK
  <2>1. /\ mem \in Memories /\ data \in [CopyPages -> CopyPages] /\ tlb \subseteq Translation
        /\ cr3 \in KernelPages /\ space \in [Tasks -> [cr3 : KernelPages, stack0 : KernelPages]]
        /\ running \in {"boot", "idle"} \cup Tasks /\ fault \in VirtPages \cup {NONE}
    BY <1>1 DEF MmuInv, TypeInv
  <2>2. \A p \in KernelPages : DOMAIN mem[p] = Indexes /\ \A i \in Indexes : mem[p][i] \in Entry
    BY <2>1 DEF Memories, Table
  <2>3. /\ next_free_kernel_page \in FIRST_KERNEL_PAGE .. ENTRIES
        /\ next_free_user_page \in FIRST_USER_PAGE .. FIRST_USER_PAGE + Cardinality(Tasks)
    <3>1. CASE Paging
      BY <1>1, <3>1, Counts, WindowPlaces, Slots
    <3>2. CASE ~Paging
      <4>1. /\ Created = {} /\ next_free_kernel_page = FIRST_KERNEL_PAGE
            /\ next_free_user_page = FIRST_USER_PAGE + Cardinality(Created)
        BY <1>1, <3>2 DEF MmuInv, BootInv, PoolsInv
      <4>2. Cardinality(Created) = 0 /\ Cardinality(Tasks) \in Nat
        BY <4>1, FS_EmptySet, FS_CardinalityType, LayoutAssumption
      <4>3. /\ FIRST_KERNEL_PAGE \in Nat /\ FIRST_KERNEL_PAGE <= ENTRIES /\ ENTRIES \in Nat
            /\ FIRST_USER_PAGE \in Nat
        BY LayoutAssumption
      <4> QED BY <4>1, <4>2, <4>3
    <3> QED BY <3>1, <3>2
  <2> QED BY <2>1, <2>2, <2>3 DEF TypeOK
<1> QED BY <1>1, InvHolds, PTL

(* No stale translation is ever used.                                       *)
THEOREM TLBCoherentHolds == Spec => []TLBCoherent
<1>1. MmuInv => TLBCoherent
  BY DEF MmuInv
<1> QED BY <1>1, InvHolds, PTL

(* The directories are the kernel's and those of the tasks.                 *)
LEMMA DirectoryCases ==
    ASSUME MmuInv, Paging, NEW c \in Directories
    PROVE  \/ c = KERNEL_PAGE_DIR /\ KernelSpace(mem) /\ WindowPages(mem) \subseteq Pool
           \/ \E t \in Created : c = Dir(t) /\ SpaceInv(t) /\ TaskSpace(mem, t, c)
  BY DEF MmuInv, SpacesInv, Directories, Dir, SpaceInv

(* In every address space the kernel reaches all of its pages.              *)
THEOREM IdentityEverywhereHolds == Spec => []IdentityEverywhere
<1>1. ASSUME MmuInv PROVE IdentityEverywhere
  <2> SUFFICES ASSUME Paging, NEW c \in Directories, NEW p \in KernelPages
               PROVE  Walk(mem, c, p) = Mapped(p, {MMU_P, MMU_W}, p)
    BY DEF IdentityEverywhere, Mapped
  <2>1. /\ VIRT_PAGE_DIR(p) = 0 /\ VIRT_PAGE_TABLE(p) = p /\ p \in Nat /\ 0 \in Indexes
    BY LowPages, Slots DEF KernelPages, Indexes
  <2>2. CASE c = KERNEL_PAGE_DIR /\ KernelSpace(mem)
    BY <2>1, <2>2, KernelWalk
  <2>3. ASSUME NEW t \in Created, TaskSpace(mem, t, c)
        PROVE  Walk(mem, c, p) = Mapped(p, {MMU_P, MMU_W}, p)
    BY <2>1, <2>3, TaskWalk
  <2> QED BY <1>1, <2>2, <2>3, DirectoryCases
<1> QED BY <1>1, InvHolds, PTL

(* After a copy no address space reaches a page through the windows.        *)
THEOREM WindowsClosedHolds == Spec => []WindowsClosed
<1>1. ASSUME MmuInv PROVE WindowsClosed
  <2> SUFFICES ASSUME Paging, NEW c \in Directories,
                      NEW v \in {SRC_VIRT_PAGE, DST_VIRT_PAGE}
               PROVE  ~(MMU_P \in Walk(mem, c, v).attrs)
    BY DEF WindowsClosed
  <2>1. /\ v \in Nat /\ VIRT_PAGE_DIR(v) = WindowDir /\ WindowDir \in Indexes
        /\ WindowDir \notin {0, CodeDir, DemandDir}
    BY WindowPlaces, Slots
  <2>2. CASE c = KERNEL_PAGE_DIR /\ KernelSpace(mem)
    <3>1. Walk(mem, c, v) = NoPage(v)
      BY <2>1, <2>2, KernelWalk
    <3> QED BY <3>1 DEF NoPage
  <2>3. ASSUME NEW t \in Created, TaskSpace(mem, t, c)
        PROVE  ~(MMU_P \in Walk(mem, c, v).attrs)
    <3>1. Walk(mem, c, v) = NoPage(v)
      BY <2>1, <2>3, TaskWalk
    <3> QED BY <3>1 DEF NoPage
  <2> QED BY <1>1, <2>2, <2>3, DirectoryCases
<1> QED BY <1>1, InvHolds, PTL

(* The pages of the structures of an address space are those it holds.      *)
LEMMA StructuresOf ==
    ASSUME MmuInv, Paging
    PROVE  /\ Structures(KERNEL_PAGE_DIR)
                \subseteq {KERNEL_PAGE_DIR, KERNEL_PAGE_TABLE_0} \cup WindowPages(mem)
           /\ \A t \in Created : Structures(Dir(t)) \subseteq Held(mem, Dir(t)) \ {Dir(t) + 3}
<1>1. KernelSpace(mem) /\ \A t \in Created : SpaceInv(t)
  BY DEF MmuInv, SpacesInv
<1>2. ASSUME NEW i \in Indexes, Present(mem[KERNEL_PAGE_DIR][i])
      PROVE  mem[KERNEL_PAGE_DIR][i].page \in {KERNEL_PAGE_TABLE_0} \cup WindowPages(mem)
  <2> DEFINE e == mem[KERNEL_PAGE_DIR][WindowDir]
             x == mem[KERNEL_PAGE_DIR][i]
  <2>1. mem[KERNEL_PAGE_DIR] = KernelDir(e) /\ (e = NoEntry \/ WindowMade(mem))
    BY <1>1 DEF KernelSpace
  <2>2. x = IF i = 0 THEN [attrs |-> {MMU_P, MMU_W}, page |-> KERNEL_PAGE_TABLE_0]
            ELSE IF i = WindowDir THEN e ELSE NoEntry
    <3> HIDE DEF e
    <3> QED BY <2>1 DEF KernelDir
  <2>3. x # NoEntry
    BY <1>2 DEF Present, NoEntry
  <2>4. CASE i = 0
    BY <2>2, <2>4
  <2>5. CASE i # 0
    <3>1. x = e /\ e # NoEntry
      BY <2>2, <2>3, <2>5
    <3>2. PICK p \in KernelPages : e = Link(p)
      BY <2>1, <3>1 DEF WindowMade
    <3> QED BY <3>1, <3>2 DEF Link, WindowPages
  <2> QED BY <2>4, <2>5
<1>3. ASSUME NEW t \in Created, NEW i \in Indexes, Present(mem[Dir(t)][i])
      PROVE  mem[Dir(t)][i].page \in Held(mem, Dir(t)) \ {Dir(t) + 3}
  <2> DEFINE c == Dir(t)
             e == mem[c][DemandDir]
             x == mem[c][i]
  <2>1. mem[c] = TaskDir(c, e) /\ (e = NoEntry \/ DemandMade(mem, c)) /\ c \in Nat
    BY <1>1 DEF SpaceInv, TaskSpace, MmuInv, TypeInv, Created, Dir, KernelPages
  <2> HIDE DEF c
  <2>2. x = IF i = 0 THEN Link(c + 1) ELSE IF i = CodeDir THEN Link(c + 2)
            ELSE IF i = DemandDir THEN e ELSE NoEntry
    <3> HIDE DEF e
    <3> QED BY <2>1 DEF TaskDir
  <2>3. x # NoEntry
    BY <1>3 DEF Present, NoEntry, c
  <2>4. CASE x = Link(c + 1) \/ x = Link(c + 2)
    <3>1. x.page \in {c + 1, c + 2}
      BY <2>4 DEF Link
    <3> QED BY <2>1, <3>1 DEF Held, c
  <2>5. CASE x = e
    <3>1. PICK p \in KernelPages : e = Link(p) /\ p \notin c .. c + 3
      BY <2>1, <2>3, <2>5 DEF DemandMade
    <3>2. x.page = p /\ p # c + 3
      BY <2>1, <2>5, <3>1 DEF Link
    <3> QED BY <3>1, <3>2 DEF Held, c
  <2> QED BY <2>2, <2>3, <2>4, <2>5
<1>4. ASSUME NEW t \in Created PROVE Dir(t) \in Held(mem, Dir(t)) \ {Dir(t) + 3}
  BY DEF Held, MmuInv, TypeInv, Created, Dir, KernelPages
<1> QED BY <1>2, <1>3, <1>4 DEF Structures

(* No page is used twice by the tables and the kernel stacks.               *)
THEOREM StructuresPrivateHolds == Spec => []StructuresPrivate
<1>1. ASSUME MmuInv PROVE StructuresPrivate
  <2> SUFFICES ASSUME Paging
               PROVE  /\ \A c, d \in Directories : c # d => Structures(c) \cap Structures(d) = {}
                      /\ \A t \in Created :
                            \A c \in Directories : space[t].stack0 \notin Structures(c)
                      /\ \A t, u \in Created : t # u => space[t].stack0 # space[u].stack0
    BY DEF StructuresPrivate
  <2> DEFINE K == KERNEL_PAGE_DIR
             SK == {K, KERNEL_PAGE_TABLE_0} \cup WindowPages(mem)
             S(t) == Held(mem, Dir(t)) \ {Dir(t) + 3}
  <2>1. /\ WindowPages(mem) \subseteq Pool
        /\ \A t \in Created : SpaceInv(t) /\ Dir(t) \in Nat
    BY <1>1 DEF MmuInv, SpacesInv, TypeInv, Created, Dir, KernelPages
  <2>2. Structures(K) \subseteq SK /\ \A t \in Created : Structures(Dir(t)) \subseteq S(t)
    BY <1>1, StructuresOf
  <2>3. K \notin Pool /\ KERNEL_PAGE_TABLE_0 \notin Pool
    BY WindowPlaces DEF Pool, KernelPages
  <2>4. \A t \in Created : /\ Held(mem, Dir(t)) \cap SK = {}
                           /\ \A u \in Created \ {t} :
                                 Held(mem, Dir(t)) \cap Held(mem, Dir(u)) = {}
    BY <2>1, <2>3 DEF SpaceInv
  <2>5. \A t \in Created : space[t].stack0 = Dir(t) + 3 /\ Dir(t) + 3 \in Held(mem, Dir(t))
    BY <2>1 DEF SpaceInv, Held
  <2>6. \A c \in Directories : c = K \/ \E t \in Created : c = Dir(t)
    BY DEF Directories, Dir
  <2> HIDE DEF K, SK
  <2>7. ASSUME NEW c \in Directories, NEW d \in Directories, c # d
        PROVE  Structures(c) \cap Structures(d) = {}
    <3>1. CASE c = K
      <4>1. PICK t \in Created : d = Dir(t)
        BY <2>6, <2>7, <3>1
      <4> QED BY <2>2, <2>4, <3>1, <4>1
    <3>2. CASE d = K
      <4>1. PICK t \in Created : c = Dir(t)
        BY <2>6, <2>7, <3>2
      <4> QED BY <2>2, <2>4, <3>2, <4>1
    <3>3. CASE c # K /\ d # K
      <4>1. PICK t \in Created : c = Dir(t)
        BY <2>6, <3>3
      <4>2. PICK u \in Created : d = Dir(u)
        BY <2>6, <3>3
      <4> QED BY <2>2, <2>4, <2>7, <4>1, <4>2
    <3> QED BY <3>1, <3>2, <3>3
  <2>8. ASSUME NEW t \in Created, NEW c \in Directories PROVE space[t].stack0 \notin Structures(c)
    <3>1. CASE c = K
      BY <2>2, <2>4, <2>5, <3>1
    <3>2. ASSUME NEW u \in Created, c = Dir(u) PROVE space[t].stack0 \notin Structures(c)
      BY <2>2, <2>4, <2>5, <3>2
    <3> QED BY <2>6, <3>1, <3>2
  <2>9. \A t, u \in Created : t # u => space[t].stack0 # space[u].stack0
    BY <2>4, <2>5
  <2> QED BY <2>7, <2>8, <2>9
<1> QED BY <1>1, InvHolds, PTL

-----------------------------------------------------------------------------
(* What a task sees                                                         *)

(* The pages of one entry of a directory.                                   *)
LEMMA RowOf ==
    ASSUME NEW d \in Nat, NEW v
    PROVE  v \in d * ENTRIES .. d * ENTRIES + ENTRIES - 1 <=> v \in Nat /\ VIRT_PAGE_DIR(v) = d
<1>1. ENTRIES \in Nat /\ ENTRIES > 1 /\ d * ENTRIES \in Nat /\ d * ENTRIES = ENTRIES * d
  BY Slots
<1>2. ASSUME v \in Nat, VIRT_PAGE_DIR(v) = d
      PROVE  v \in d * ENTRIES .. d * ENTRIES + ENTRIES - 1
  <2>1. /\ VIRT_PAGE_TABLE(v) \in 0 .. ENTRIES - 1
        /\ v = ENTRIES * VIRT_PAGE_DIR(v) + VIRT_PAGE_TABLE(v)
    BY <1>2, Division DEF Indexes
  <2>2. v = ENTRIES * d + VIRT_PAGE_TABLE(v)
    BY <1>2, <2>1
  <2> QED BY <1>1, <2>1, <2>2
<1>3. ASSUME v \in d * ENTRIES .. d * ENTRIES + ENTRIES - 1
      PROVE  v \in Nat /\ VIRT_PAGE_DIR(v) = d
  <2> DEFINE q == VIRT_PAGE_DIR(v)
             s == VIRT_PAGE_TABLE(v)
  <2>1. v \in Nat /\ v >= ENTRIES * d /\ v < ENTRIES * d + ENTRIES
    BY <1>1, <1>3
  <2>2. q \in Nat /\ s \in 0 .. ENTRIES - 1 /\ v = ENTRIES * q + s
    BY <2>1, Division DEF Indexes
  <2> HIDE DEF q, s
  <2>3. \A k \in Nat : ENTRIES * k \in Nat /\ ENTRIES * (k + 1) = ENTRIES * k + ENTRIES
    BY <1>1
  <2>4. ~(q < d)
    <3>1. SUFFICES ASSUME q + 1 <= d PROVE FALSE
      BY <2>2
    <3>2. ENTRIES * (q + 1) <= ENTRIES * d
      BY <1>1, <2>2, <3>1, Monotone
    <3> QED BY <1>1, <2>1, <2>2, <2>3, <3>2
  <2>5. ~(d < q)
    <3>1. SUFFICES ASSUME d + 1 <= q PROVE FALSE
      BY <2>2
    <3>2. ENTRIES * (d + 1) <= ENTRIES * q
      BY <1>1, <2>2, <3>1, Monotone
    <3> QED BY <1>1, <2>1, <2>2, <2>3, <3>2
  <2>6. q = d
    BY <2>2, <2>4, <2>5
  <2> QED BY <2>1, <2>6 DEF q
<1> QED BY <1>2, <1>3

(* The visible pages are those that the walk lets the task read.            *)
LEMMA VisiblePages ==
    ASSUME NEW t \in Created, NEW v
    PROVE  v \in Visible(t) <=> /\ v \in Nat /\ VIRT_PAGE_DIR(v) \in Indexes
                                /\ MMU_U \in mem[Dir(t)][VIRT_PAGE_DIR(v)].attrs
                                /\ UserMay(Walk(mem, Dir(t), v), FALSE)
<1> DEFINE rows == {i \in Indexes : t \in Created /\ MMU_U \in mem[Dir(t)][i].attrs}
           row(d) == d * ENTRIES .. d * ENTRIES + ENTRIES - 1
<1>1. v \in Visible(t) <=> /\ \E d \in rows : v \in row(d)
                           /\ UserMay(Walk(mem, Dir(t), v), FALSE)
  BY DEF Visible, Dir
<1>2. \A d \in Indexes : v \in row(d) <=> v \in Nat /\ VIRT_PAGE_DIR(v) = d
  BY RowOf DEF Indexes
<1> HIDE DEF row
<1> QED BY <1>1, <1>2

Seeing(e) == [virt |-> e.virt, page |-> e.page, write |-> MMU_W \in e.attrs]

(* What a task reads and writes through a translation that the walk gives.  *)
LEMMA Shown ==
    ASSUME NEW v, NEW p
    PROVE  /\ ~UserMay(NoPage(v), FALSE)
           /\ ~UserMay(Mapped(v, {MMU_P, MMU_W}, p), FALSE)
           /\ UserMay(Mapped(v, {MMU_P, MMU_U}, p), FALSE)
           /\ UserMay(Mapped(v, Full, p), FALSE)
           /\ Seeing(Mapped(v, {MMU_P, MMU_U}, p)) = AS!ReadOnly(v, p)
           /\ Seeing(Mapped(v, Full, p)) = AS!ReadWrite(v, p)
<1>1. ~UserMay(NoPage(v), FALSE)
  BY DEF UserMay, NoPage
<1>2. ~UserMay(Mapped(v, {MMU_P, MMU_W}, p), FALSE)
  BY DEF UserMay, Mapped, MMU_P, MMU_W, MMU_U
<1>3. UserMay(Mapped(v, {MMU_P, MMU_U}, p), FALSE)
  BY DEF UserMay, Mapped
<1>4. UserMay(Mapped(v, Full, p), FALSE)
  BY DEF UserMay, Mapped, Full
<1>5. Seeing(Mapped(v, {MMU_P, MMU_U}, p)) = AS!ReadOnly(v, p)
  <2>1. (MMU_W \in {MMU_P, MMU_U}) = FALSE
    BY DEF MMU_P, MMU_W, MMU_U
  <2> DEFINE ur == {MMU_P, MMU_U}
  <2> HIDE DEF ur
  <2>2. (MMU_W \in ur) = FALSE
    BY <2>1 DEF ur
  <2>3. Seeing(Mapped(v, ur, p)) = [virt |-> v, page |-> p, write |-> MMU_W \in ur]
    BY DEF Seeing, Mapped
  <2> QED BY <2>2, <2>3 DEF AS!ReadOnly, ur
<1>6. Seeing(Mapped(v, Full, p)) = AS!ReadWrite(v, p)
  BY DEF Seeing, Mapped, AS!ReadWrite, Full
<1> QED BY <1>1, <1>2, <1>3, <1>4, <1>5, <1>6

(* The entry for page v of the table of a task's own pages.                 *)
CodeEntry(t, v) == TaskTable(t, Stack(t))[VIRT_PAGE_TABLE(v)]

WalkedIn(t, v, w) ==
    /\ VIRT_PAGE_DIR(v) = 0 => w = Mapped(v, {MMU_P, MMU_W}, VIRT_PAGE_TABLE(v))
    /\ VIRT_PAGE_DIR(v) = CodeDir =>
          w = IF CodeEntry(t, v) = NoEntry THEN NoPage(v)
              ELSE Mapped(v, CodeEntry(t, v).attrs, CodeEntry(t, v).page)
    /\ VIRT_PAGE_DIR(v) = DemandDir =>
          w = IF t \in Demanders /\ VIRT_PAGE_TABLE(v) = DemandSlot
              THEN Mapped(v, Full, ON_DEMAND_MEM_START_PHYSICAL) ELSE NoPage(v)
    /\ VIRT_PAGE_DIR(v) \notin {0, CodeDir, DemandDir} => w = NoPage(v)

(* The walk of a created task.                                              *)
LEMMA Walked ==
    ASSUME MmuInv, NEW t \in Created, NEW v \in Nat, VIRT_PAGE_DIR(v) \in Indexes
    PROVE  WalkedIn(t, v, Walk(mem, Dir(t), v))
<1>1. TaskSpace(mem, t, Dir(t)) /\ Stack(t) = mem[Dir(t) + 2][First + 2].page
  BY DEF MmuInv, BootInv, SpacesInv, SpaceInv, Stack
<1>2. t \in Demanders <=> mem[Dir(t)][DemandDir] # NoEntry
  BY DEF Demanders
<1> DEFINE w == Walk(mem, Dir(t), v)
           d == VIRT_PAGE_DIR(v)
           slot == VIRT_PAGE_TABLE(v)
           e == TaskTable(t, mem[Dir(t) + 2][First + 2].page)[slot]
<1>3. /\ d = 0 => w = Mapped(v, {MMU_P, MMU_W}, slot)
      /\ d = CodeDir => w = IF e = NoEntry THEN NoPage(v) ELSE Mapped(v, e.attrs, e.page)
      /\ d = DemandDir => w = IF mem[Dir(t)][DemandDir] # NoEntry /\ slot = DemandSlot
                              THEN Mapped(v, Full, ON_DEMAND_MEM_START_PHYSICAL)
                              ELSE NoPage(v)
      /\ d \notin {0, CodeDir, DemandDir} => w = NoPage(v)
  BY <1>1, TaskWalk
<1>4. e = CodeEntry(t, v)
  BY <1>1 DEF CodeEntry
<1> HIDE DEF w, e
<1>5. WalkedIn(t, v, w)
  BY <1>2, <1>3, <1>4 DEF WalkedIn
<1> QED BY <1>5 DEF w

(* The translations of a task's own pages.                                  *)
LEMMA OwnPages ==
    ASSUME MmuInv, NEW t \in Created
    PROVE  /\ Walk(mem, Dir(t), TASK_CODE_VIRTUAL)
                 = Mapped(TASK_CODE_VIRTUAL, {MMU_P, MMU_U}, CodeStart[t])
           /\ Walk(mem, Dir(t), TASK_CODE_VIRTUAL + 1)
                 = Mapped(TASK_CODE_VIRTUAL + 1, {MMU_P, MMU_U}, CodeStart[t] + 1)
           /\ Walk(mem, Dir(t), TASK_CODE_VIRTUAL + 2)
                 = Mapped(TASK_CODE_VIRTUAL + 2, Full, Stack(t))
           /\ Walk(mem, Dir(t), TASK_CODE_VIRTUAL + 3)
                 = Mapped(TASK_CODE_VIRTUAL + 3, {MMU_P, MMU_U}, SHARED)
<1> DEFINE V == TASK_CODE_VIRTUAL
<1>1. ASSUME NEW k \in 0 .. 3, NEW a, NEW p, a # {},
             TaskTable(t, Stack(t))[First + k] = [attrs |-> a, page |-> p]
      PROVE  Walk(mem, Dir(t), V + k) = Mapped(V + k, a, p)
  <2>1. V + k \in Nat /\ VIRT_PAGE_DIR(V + k) = CodeDir /\ VIRT_PAGE_TABLE(V + k) = First + k
    BY Slots
  <2>2. CodeDir \in Indexes
    BY Slots DEF Indexes
  <2>3. WalkedIn(t, V + k, Walk(mem, Dir(t), V + k))
    BY <2>1, <2>2, Walked
  <2>4. CodeEntry(t, V + k) = [attrs |-> a, page |-> p]
    BY <1>1, <2>1 DEF CodeEntry
  <2> QED BY <1>1, <2>1, <2>3, <2>4 DEF WalkedIn, NoEntry
<1>2. First \in Nat /\ \A k \in 0 .. 3 : First + k \in Indexes
  BY Slots
<1>3. First \in Indexes /\ First + 0 = First /\ V + 0 = V
  <2>1. First + 0 \in Indexes
    BY <1>2
  <2> QED BY <1>2, <2>1, Slots
<1> DEFINE T == TaskTable(t, Stack(t))
           ur == {MMU_P, MMU_U}
<1>4. /\ T[First] = [attrs |-> ur, page |-> CodeStart[t]]
      /\ T[First + 1] = [attrs |-> ur, page |-> CodeStart[t] + 1]
      /\ T[First + 2] = [attrs |-> Full, page |-> Stack(t)]
      /\ T[First + 3] = [attrs |-> ur, page |-> SHARED]
  <2>1. First + 1 \in Indexes /\ First + 2 \in Indexes /\ First + 3 \in Indexes
    BY <1>2
  <2> HIDE DEF ur
  <2> QED BY <1>2, <1>3, <2>1 DEF TaskTable, ur
<1>5. ur # {} /\ Full # {}
  BY DEF Full
<1> HIDE DEF T, ur, V
<1>6. ASSUME NEW k \in 0 .. 3, NEW a, NEW p, a # {}, T[First + k] = [attrs |-> a, page |-> p]
      PROVE  Walk(mem, Dir(t), V + k) = Mapped(V + k, a, p)
  BY <1>1, <1>6 DEF T, V
<1>7. Walk(mem, Dir(t), V) = Mapped(V, ur, CodeStart[t])
  <2>1. T[First + 0] = [attrs |-> ur, page |-> CodeStart[t]]
    BY <1>3, <1>4
  <2>2. Walk(mem, Dir(t), V + 0) = Mapped(V + 0, ur, CodeStart[t])
    BY <1>5, <1>6, <2>1
  <2> QED BY <1>3, <2>2
<1>8. Walk(mem, Dir(t), V + 1) = Mapped(V + 1, ur, CodeStart[t] + 1)
  BY <1>4, <1>5, <1>6
<1>9. Walk(mem, Dir(t), V + 2) = Mapped(V + 2, Full, Stack(t))
  BY <1>4, <1>5, <1>6
<1>10. Walk(mem, Dir(t), V + 3) = Mapped(V + 3, ur, SHARED)
  BY <1>4, <1>5, <1>6
<1> QED BY <1>7, <1>8, <1>9, <1>10 DEF ur, V

(* Every page that a task may read is one of those.                         *)
LEMMA NothingElse ==
    ASSUME MmuInv, NEW t \in Created, NEW v \in Visible(t)
    PROVE  \/ \E k \in 0 .. 3 : v = TASK_CODE_VIRTUAL + k
           \/ t \in Demanders /\ v = ON_DEMAND_MEM_START_VIRTUAL
<1>1. /\ v \in Nat /\ VIRT_PAGE_DIR(v) \in Indexes
      /\ UserMay(Walk(mem, Dir(t), v), FALSE)
  BY VisiblePages
<1>2. WalkedIn(t, v, Walk(mem, Dir(t), v))
  BY <1>1, Walked
<1>3. /\ ~UserMay(NoPage(v), FALSE)
      /\ ~UserMay(Mapped(v, {MMU_P, MMU_W}, VIRT_PAGE_TABLE(v)), FALSE)
  BY Shown
<1>4. VIRT_PAGE_DIR(v) \in {CodeDir, DemandDir}
  BY <1>1, <1>2, <1>3 DEF WalkedIn
<1>5. CASE VIRT_PAGE_DIR(v) = CodeDir
  <2>1. CodeEntry(t, v) # NoEntry
    BY <1>1, <1>2, <1>3, <1>5 DEF WalkedIn
  <2>2. VIRT_PAGE_TABLE(v) \in Indexes
    BY <1>1, Division
  <2>3. First \in Nat
    BY Slots
  <2>4. \/ VIRT_PAGE_TABLE(v) = First \/ VIRT_PAGE_TABLE(v) = First + 1
        \/ VIRT_PAGE_TABLE(v) = First + 2 \/ VIRT_PAGE_TABLE(v) = First + 3
    BY <2>1, <2>2 DEF CodeEntry, TaskTable
  <2>5. PICK k \in 0 .. 3 : VIRT_PAGE_TABLE(v) = First + k
    BY <2>3, <2>4
  <2>6. /\ TASK_CODE_VIRTUAL + k \in Nat /\ VIRT_PAGE_DIR(TASK_CODE_VIRTUAL + k) = CodeDir
        /\ VIRT_PAGE_TABLE(TASK_CODE_VIRTUAL + k) = First + k
    BY Slots
  <2>7. v = TASK_CODE_VIRTUAL + k
    BY <1>1, <1>5, <2>5, <2>6, SamePage
  <2> QED BY <2>7
<1>6. CASE VIRT_PAGE_DIR(v) = DemandDir /\ DemandDir # CodeDir
  <2>1. t \in Demanders /\ VIRT_PAGE_TABLE(v) = DemandSlot
    BY <1>1, <1>2, <1>3, <1>6 DEF WalkedIn
  <2>2. v = ON_DEMAND_MEM_START_VIRTUAL
    BY <1>1, <1>6, <2>1, SamePage, Slots DEF DemandDir, DemandSlot
  <2> QED BY <2>1, <2>2
<1> QED BY <1>4, <1>5, <1>6

(* The page that a task asked for.                                          *)
LEMMA DemandedPage ==
    ASSUME MmuInv, NEW t \in Demanders
    PROVE  Walk(mem, Dir(t), ON_DEMAND_MEM_START_VIRTUAL)
             = Mapped(ON_DEMAND_MEM_START_VIRTUAL, Full, ON_DEMAND_MEM_START_PHYSICAL)
<1> DEFINE D == ON_DEMAND_MEM_START_VIRTUAL
<1>1. /\ D \in Nat /\ VIRT_PAGE_DIR(D) = DemandDir /\ VIRT_PAGE_TABLE(D) = DemandSlot
      /\ DemandDir \in Indexes /\ t \in Created
  BY Slots DEF DemandDir, DemandSlot, Indexes, Demanders
<1>2. WalkedIn(t, D, Walk(mem, Dir(t), D))
  BY <1>1, Walked
<1> QED BY <1>1, <1>2 DEF WalkedIn

(* The pages that the directory of a task grants it.                        *)
LEMMA Granted ==
    ASSUME MmuInv, NEW t \in Created
    PROVE  /\ MMU_U \in mem[Dir(t)][CodeDir].attrs
           /\ t \in Demanders => MMU_U \in mem[Dir(t)][DemandDir].attrs
<1>1. TaskSpace(mem, t, Dir(t))
  BY DEF MmuInv, BootInv, SpacesInv, SpaceInv
<1>2. CodeDir \in Indexes /\ CodeDir # 0
  BY Slots DEF Indexes
<1>3. mem[Dir(t)][CodeDir] = Link(Dir(t) + 2)
  BY <1>1, <1>2 DEF TaskSpace, TaskDir
<1>4. \A p : MMU_U \in Link(p).attrs
  BY DEF Link, Full
<1>5. t \in Demanders => \E p : mem[Dir(t)][DemandDir] = Link(p)
  BY <1>1 DEF TaskSpace, DemandMade, Demanders
<1> QED BY <1>3, <1>4, <1>5

(* What a task is to see: its code, its stack, the shared page and, once it *)
(* asked for it, the on-demand page.                                        *)
View(t) == AS!FirstView(t, Stack(t)) \cup (IF t \in Demanders THEN {AS!OnDemand} ELSE {})

(* A task sees that and nothing else.                                       *)
LEMMA ViewOf ==
    ASSUME MmuInv, NEW t \in Created
    PROVE  UserView(t) = View(t)
<1> DEFINE V == TASK_CODE_VIRTUAL
           D == ON_DEMAND_MEM_START_VIRTUAL
           W(v) == Walk(mem, Dir(t), v)
<1>1. /\ TASK_SHARED_PAGE = V + 3 /\ TASK_SHARED_PAGE - 1 = V + 2
      /\ V \in Nat /\ V + 0 = V /\ D \in Nat
  BY Slots
<1>2. UserView(t) = {Seeing(W(v)) : v \in Visible(t)}
  BY DEF UserView, Seeing, Dir
<1>3. /\ Seeing(W(V)) = AS!ReadOnly(V, CodeStart[t]) /\ UserMay(W(V), FALSE)
      /\ Seeing(W(V + 1)) = AS!ReadOnly(V + 1, CodeStart[t] + 1) /\ UserMay(W(V + 1), FALSE)
      /\ Seeing(W(V + 2)) = AS!ReadWrite(V + 2, Stack(t)) /\ UserMay(W(V + 2), FALSE)
      /\ Seeing(W(V + 3)) = AS!ReadOnly(V + 3, SHARED) /\ UserMay(W(V + 3), FALSE)
  BY OwnPages, Shown
<1>4. t \in Demanders => Seeing(W(D)) = AS!OnDemand /\ UserMay(W(D), FALSE)
  BY DemandedPage, Shown DEF AS!OnDemand
<1>5. V \in Visible(t) /\ V + 1 \in Visible(t) /\ V + 2 \in Visible(t) /\ V + 3 \in Visible(t)
  <2>1. CodeDir \in Indexes
    BY Slots DEF Indexes
  <2>2. ASSUME NEW k \in 0 .. 3, UserMay(W(V + k), FALSE) PROVE V + k \in Visible(t)
    <3>1. V + k \in Nat /\ VIRT_PAGE_DIR(V + k) = CodeDir
      BY Slots
    <3> QED BY <2>1, <2>2, <3>1, Granted, VisiblePages
  <2>3. V + 0 \in Visible(t)
    BY <1>1, <1>3, <2>2
  <2> QED BY <1>1, <1>3, <2>2, <2>3
<1>6. t \in Demanders => D \in Visible(t)
  <2>1. DemandDir \in Indexes
    BY Slots DEF Indexes
  <2> QED BY <1>1, <1>4, <2>1, Granted, VisiblePages DEF DemandDir
<1>7. \A v \in Visible(t) :
         \/ v \in {V, V + 1, V + 2, V + 3}
         \/ t \in Demanders /\ v = D
  <2> TAKE v \in Visible(t)
  <2>1. CASE \E k \in 0 .. 3 : v = V + k
    <3>1. PICK k \in 0 .. 3 : v = V + k
      BY <2>1
    <3>2. k = 0 \/ k = 1 \/ k = 2 \/ k = 3
      OBVIOUS
    <3> QED BY <1>1, <3>1, <3>2
  <2> QED BY <2>1, NothingElse
<1>8. View(t) = {AS!ReadOnly(V, CodeStart[t]), AS!ReadOnly(V + 1, CodeStart[t] + 1),
                 AS!ReadWrite(V + 2, Stack(t)), AS!ReadOnly(V + 3, SHARED)}
                  \cup (IF t \in Demanders THEN {AS!OnDemand} ELSE {})
  BY <1>1 DEF View, AS!FirstView
<1> HIDE DEF W, V, D
<1>9. ASSUME NEW m \in UserView(t) PROVE m \in View(t)
  <2>1. PICK v \in Visible(t) : m = Seeing(W(v))
    BY <1>2
  <2> QED BY <1>3, <1>4, <1>7, <1>8, <2>1
<1>10. ASSUME NEW m \in View(t) PROVE m \in UserView(t)
  <2>1. CASE t \in Demanders /\ m = AS!OnDemand
    BY <1>2, <1>4, <1>6, <2>1
  <2>2. CASE m = AS!ReadOnly(V, CodeStart[t])
    BY <1>2, <1>3, <1>5, <2>2
  <2>3. CASE m = AS!ReadOnly(V + 1, CodeStart[t] + 1)
    BY <1>2, <1>3, <1>5, <2>3
  <2>4. CASE m = AS!ReadWrite(V + 2, Stack(t))
    BY <1>2, <1>3, <1>5, <2>4
  <2>5. CASE m = AS!ReadOnly(V + 3, SHARED)
    BY <1>2, <1>3, <1>5, <2>5
  <2> QED BY <1>8, <2>1, <2>2, <2>3, <2>4, <2>5
<1> QED BY <1>9, <1>10

(* A task that was not created sees nothing.                                *)
LEMMA NoView ==
    ASSUME NEW t \in Tasks \ Created
    PROVE  UserView(t) = {}
<1>1. Visible(t) = {}
  BY DEF Visible
<1> QED BY <1>1 DEF UserView

(* The physical pages of a view, and which of them it writes.               *)
LEMMA PagesOf ==
    ASSUME MmuInv, NEW t \in Created, NEW m \in UserView(t)
    PROVE  /\ \/ m.page = Stack(t)
              \/ m.page \in {CodeStart[t], CodeStart[t] + 1, SHARED,
                             ON_DEMAND_MEM_START_PHYSICAL}
           /\ m.write => m.page \in {Stack(t), ON_DEMAND_MEM_START_PHYSICAL}
<1>1. m \in View(t)
  BY ViewOf
<1>2. \A v, p : /\ AS!ReadOnly(v, p).page = p /\ AS!ReadOnly(v, p).write = FALSE
                /\ AS!ReadWrite(v, p).page = p
  BY DEF AS!ReadOnly, AS!ReadWrite
<1>3. \/ \E v, p : /\ p \in {CodeStart[t], CodeStart[t] + 1, SHARED}
                   /\ m = AS!ReadOnly(v, p)
      \/ \E v : m = AS!ReadWrite(v, Stack(t))
      \/ \E v : m = AS!ReadWrite(v, ON_DEMAND_MEM_START_PHYSICAL)
  BY <1>1 DEF View, AS!FirstView, AS!OnDemand
<1> QED BY <1>2, <1>3

(* The stacks of the tasks.                                                 *)
LEMMA StacksOf ==
    ASSUME MmuInv, NEW t \in Created
    PROVE  /\ Stack(t) \in UserPages /\ Stack(t) \in Nat
           /\ Stack(t) \in FIRST_USER_PAGE .. next_free_user_page - 1
           /\ \A u \in Created \ {t} : Stack(u) # Stack(t)
<1>1. Paging /\ SpaceInv(t)
  BY DEF MmuInv, BootInv, SpacesInv
<1>2. next_free_user_page \in FIRST_USER_PAGE .. FIRST_USER_PAGE + Cardinality(Tasks)
  BY <1>1, Counts
<1>3. FIRST_USER_PAGE \in Nat /\ Cardinality(Tasks) \in Nat
  BY LayoutAssumption, FS_CardinalityType
<1>4. Stack(t) \in FIRST_USER_PAGE .. next_free_user_page - 1
  BY <1>1 DEF SpaceInv
<1>5. Stack(t) \in UserPages /\ Stack(t) \in Nat
  BY <1>2, <1>3, <1>4 DEF UserPages
<1> QED BY <1>1, <1>4, <1>5 DEF SpaceInv

(* The pages that the tasks share, and their code.                          *)
LEMMA PhysicalPages ==
    ASSUME NEW t \in Tasks,
           NEW p \in {CodeStart[t], CodeStart[t] + 1, SHARED, ON_DEMAND_MEM_START_PHYSICAL}
    PROVE  /\ p \notin {KERNEL_PAGE_DIR, KERNEL_PAGE_TABLE_0}
           /\ p \notin FIRST_KERNEL_PAGE .. ENTRIES - 1
           /\ p \notin UserPages
<1> DEFINE code == UNION {{CodeStart[u], CodeStart[u] + 1} : u \in Tasks}
<1>1. CodeStart[t] \in code /\ CodeStart[t] + 1 \in code
  OBVIOUS
<1>2. p \in {SHARED, ON_DEMAND_MEM_START_PHYSICAL} \cup code
  BY <1>1
<1>3. \A q \in {SHARED, ON_DEMAND_MEM_START_PHYSICAL} \cup code :
         /\ q \notin {KERNEL_PAGE_DIR, KERNEL_PAGE_TABLE_0}
         /\ q \notin FIRST_KERNEL_PAGE .. ENTRIES - 1
         /\ q \notin UserPages
  BY PhysicalAssumption
<1> HIDE DEF code
<1> QED BY <1>2, <1>3

(* No task sees a page of the kernel's pool or of its structures, and what  *)
(* one task can write no other can see, but for the on-demand page.         *)
THEOREM IsolationHolds == Spec => []Isolation
<1>1. ASSUME MmuInv PROVE Isolation
  <2> SUFFICES ASSUME NEW t \in Created, NEW m \in UserView(t)
               PROVE  /\ m.page \notin {KERNEL_PAGE_DIR, KERNEL_PAGE_TABLE_0}
                      /\ m.page \notin FIRST_KERNEL_PAGE .. ENTRIES - 1
                      /\ m.write /\ m.page # ON_DEMAND_MEM_START_PHYSICAL =>
                            \A u \in Created \ {t} : \A n \in UserView(u) : n.page # m.page
    BY DEF Isolation
  <2> USE <1>1
  <2>1. t \in Tasks /\ Stack(t) \in UserPages
    BY StacksOf DEF Created
  <2>2. \A p \in UserPages : /\ p \notin {KERNEL_PAGE_DIR, KERNEL_PAGE_TABLE_0}
                             /\ p \notin FIRST_KERNEL_PAGE .. ENTRIES - 1
    <3>1. /\ FIRST_USER_PAGE \in Nat /\ FIRST_KERNEL_PAGE \in Nat /\ ENTRIES \in Nat
          /\ FIRST_USER_PAGE >= ENTRIES /\ FIRST_KERNEL_PAGE <= ENTRIES
      BY LayoutAssumption
    <3>2. KERNEL_PAGE_DIR < FIRST_KERNEL_PAGE /\ KERNEL_PAGE_TABLE_0 < FIRST_KERNEL_PAGE
          /\ KERNEL_PAGE_DIR \in Nat /\ KERNEL_PAGE_TABLE_0 \in Nat
      BY LayoutAssumption
    <3>3. \A p \in UserPages : p \in Int /\ p >= FIRST_USER_PAGE
      BY <3>1, FS_CardinalityType, LayoutAssumption DEF UserPages
    <3> QED BY <3>1, <3>2, <3>3
  <2>3. CASE m.page = Stack(t)
    <3> SUFFICES ASSUME NEW u \in Created \ {t}, NEW n \in UserView(u) PROVE n.page # m.page
      BY <2>1, <2>2, <2>3
    <3>1. u \in Tasks /\ Stack(u) # Stack(t)
      BY StacksOf DEF Created
    <3>2. CASE n.page = Stack(u)
      BY <2>3, <3>1, <3>2
    <3>3. CASE n.page \in {CodeStart[u], CodeStart[u] + 1, SHARED,
                           ON_DEMAND_MEM_START_PHYSICAL}
      <4>1. n.page \notin UserPages
        BY <3>1, <3>3, PhysicalPages
      <4> QED BY <2>1, <2>3, <4>1
    <3> QED BY <3>2, <3>3, PagesOf
  <2>4. CASE m.page # Stack(t)
    <3>1. m.page \in {CodeStart[t], CodeStart[t] + 1, SHARED, ON_DEMAND_MEM_START_PHYSICAL}
      BY <2>4, PagesOf
    <3>2. m.write => m.page = ON_DEMAND_MEM_START_PHYSICAL
      BY <2>4, PagesOf
    <3>3. /\ m.page \notin {KERNEL_PAGE_DIR, KERNEL_PAGE_TABLE_0}
          /\ m.page \notin FIRST_KERNEL_PAGE .. ENTRIES - 1
      BY <2>1, <3>1, PhysicalPages
    <3> QED BY <3>2, <3>3
  <2> QED BY <2>3, <2>4
<1> QED BY <1>1, InvHolds, PTL

(* copy_page copies src to dst and leaves every other page alone, through   *)
(* the windows of the directory it runs in.                                 *)
THEOREM CopyRightHolds == Spec => CopyRight
<1>1. ASSUME MmuInv, [Next]_vars
      PROVE  \A dst, src \in CopyPages :
                copy_page(dst, src) => data' = [data EXCEPT ![dst] = data[src]]
  BY <1>1, CopyEffect
<1> QED BY <1>1, InvHolds, PTL DEF CopyRight, Spec

(* In the next state as well.                                               *)
LEMMA DemandedNext ==
    MmuInv' => (\A t \in Demanders :
                   Walk(mem, Dir(t), ON_DEMAND_MEM_START_VIRTUAL)
                     = Mapped(ON_DEMAND_MEM_START_VIRTUAL, Full,
                              ON_DEMAND_MEM_START_PHYSICAL))'
<1>1. MmuInv => \A t \in Demanders :
                   Walk(mem, Dir(t), ON_DEMAND_MEM_START_VIRTUAL)
                     = Mapped(ON_DEMAND_MEM_START_VIRTUAL, Full,
                              ON_DEMAND_MEM_START_PHYSICAL)
  BY DemandedPage
<1> QED BY <1>1, PTL

(* A served fault does not come again; every fault in the on-demand page    *)
(* that is not in its last byte is served, and none outside it.             *)
THEOREM FaultServedHolds == Spec => FaultServed
<1>1. ASSUME MmuInv, MmuInv', NEW virt \in Touched, NEW write \in BOOLEAN,
             NEW last_byte \in BOOLEAN, page_fault(virt, write, last_byte)
      PROVE  /\ virt # ON_DEMAND_MEM_START_VIRTUAL => stopped'
             /\ ~stopped' \/ (virt = ON_DEMAND_MEM_START_VIRTUAL /\ ~last_byte) =>
                  UserMay(Walk(mem', cr3', virt), write)
  <2> USE <1>1
  <2>1. CASE ~InOnDemandArea(virt, last_byte)
    <3>1. fault' = virt
      BY <2>1 DEF page_fault
    <3>2. virt # NONE
      BY TouchedPages DEF NONE
    <3> QED BY <2>1, <3>1, <3>2 DEF stopped, InOnDemandArea
  <2>2. CASE InOnDemandArea(virt, last_byte)
    <3>1. running \in Tasks /\ Created' = Created /\ running' = running /\ cr3' = cr3
          /\ (running \in Demanders)' /\ Dir(running)' = Dir(running)
      <4>1. running \in Tasks /\ UNCHANGED <<cr3, space, running>>
        BY <2>2, FaultEffect
      <4>2. Created' = Created /\ Demanders' = Demanders \cup {running}
        BY <2>2, FaultSpaces
      <4> QED BY <4>1, <4>2 DEF Dir
    <3>2. cr3 = Dir(running)
      BY <3>1, RunningTask
    <3>4. Walk(mem', cr3', virt)
            = Mapped(virt, Full, ON_DEMAND_MEM_START_PHYSICAL)
      BY <2>2, <3>1, <3>2, DemandedNext DEF InOnDemandArea, Dir
    <3> QED BY <2>2, <3>4 DEF UserMay, Mapped, Full, InOnDemandArea
  <2> QED BY <2>1, <2>2
<1>2. MmuInv /\ MmuInv' /\ [Next]_vars =>
         \A virt \in Touched, write, last_byte \in BOOLEAN :
            page_fault(virt, write, last_byte) =>
              /\ virt # ON_DEMAND_MEM_START_VIRTUAL => stopped'
              /\ ~stopped' \/ (virt = ON_DEMAND_MEM_START_VIRTUAL /\ ~last_byte) =>
                   UserMay(Walk(mem', cr3', virt), write)
  BY <1>1
<1> QED BY <1>2, InvHolds, PTL DEF FaultServed, Spec

-----------------------------------------------------------------------------
(* The address spaces that the tasks are promised                           *)

Views == [t \in Tasks |-> UserView(t)]

(* What each task sees, by what it was given.                               *)
LEMMA ViewsAre ==
    MmuInv => \A t \in Tasks : UserView(t) = IF t \in Created THEN View(t) ELSE {}
<1> SUFFICES ASSUME MmuInv, NEW t \in Tasks
             PROVE  UserView(t) = IF t \in Created THEN View(t) ELSE {}
  OBVIOUS
<1>1. CASE t \in Created
  BY <1>1, ViewOf
<1>2. CASE t \notin Created
  BY <1>2, NoView
<1> QED BY <1>1, <1>2

(* In the next state as well.                                               *)
LEMMA ViewsNext ==
    MmuInv' => \A t \in Tasks : UserView(t)' = IF t \in Created' THEN View(t)' ELSE {}
<1>1. (MmuInv => \A t \in Tasks : UserView(t) = IF t \in Created THEN View(t) ELSE {})'
  BY ViewsAre, PTL
<1> QED BY <1>1

(* The view of a task changes with its stack and the on-demand page alone.  *)
LEMMA ViewSame ==
    ASSUME NEW t, Stack(t)' = Stack(t), t \in Demanders' <=> t \in Demanders
    PROVE  View(t)' = View(t)
  BY DEF View, AS!FirstView, AS!ReadOnly, AS!ReadWrite, AS!OnDemand

(* Steps that neither create a task nor give it the on-demand page.         *)
LEMMA ViewsKept ==
    ASSUME MmuInv, MmuInv', Created' = Created, Demanders' = Demanders,
           \A t \in Created : Stack(t)' = Stack(t)
    PROVE  Views' = Views
<1>1. ASSUME NEW t \in Tasks PROVE UserView(t)' = UserView(t)
  <2>1. UserView(t) = IF t \in Created THEN View(t) ELSE {}
    BY ViewsAre
  <2>2. UserView(t)' = IF t \in Created' THEN View(t)' ELSE {}
    BY ViewsNext
  <2>3. t \in Created => View(t)' = View(t)
    BY ViewSame
  <2> QED BY <2>1, <2>2, <2>3
<1> QED BY <1>1 DEF Views

(* The stack of a new task is a page of the user pool that no task sees.    *)
LEMMA FreshStack ==
    ASSUME MmuInv, Paging, Created # Tasks
    PROVE  /\ next_free_user_page \in UserPages
           /\ \A t \in Tasks : \A m \in UserView(t) : m.page # next_free_user_page
<1>1. next_free_user_page \in UserPages /\ next_free_user_page \in Nat
  <2>1. next_free_user_page \in FIRST_USER_PAGE .. FIRST_USER_PAGE + Cardinality(Tasks)
    BY Counts
  <2> QED BY <2>1, Counts, LayoutAssumption
<1>2. ASSUME NEW t \in Tasks, NEW m \in UserView(t) PROVE m.page # next_free_user_page
  <2>1. t \in Created
    BY <1>2, NoView
  <2>2. CASE m.page = Stack(t)
    <3>1. Stack(t) \in FIRST_USER_PAGE .. next_free_user_page - 1
      BY <2>1, StacksOf
    <3>2. FIRST_USER_PAGE \in Nat
      BY LayoutAssumption
    <3> QED BY <1>1, <2>2, <3>1, <3>2
  <2>3. CASE m.page \in {CodeStart[t], CodeStart[t] + 1, SHARED, ON_DEMAND_MEM_START_PHYSICAL}
    <3>1. m.page \notin UserPages
      BY <2>3, PhysicalPages
    <3> QED BY <1>1, <3>1
  <2> QED BY <1>2, <2>1, <2>2, <2>3, PagesOf
<1> QED BY <1>1, <1>2

(* tss_create_user_task gives the task its first view.                      *)
LEMMA CreateRefines ==
    ASSUME MmuInv, MmuInv', NEW t \in Tasks, tss_create_user_task(t)
    PROVE  AS!Create(t)
<1> DEFINE stack == next_free_user_page
<1>1. /\ Paging /\ running = "boot" /\ t \in Tasks \ Created
      /\ Created' = Created \cup {t} /\ UNCHANGED running
  BY CreateEffect
<1>2. /\ Demanders' = Demanders /\ Stack(t)' = stack
      /\ \A u \in Created : Stack(u)' = Stack(u)
  BY CreateSpaces
<1>3. UserView(t) = {}
  BY <1>1, NoView
<1>4. stack \in UserPages /\ \A u \in Tasks : \A m \in UserView(u) : m.page # stack
  BY <1>1, FreshStack
<1>5. UserView(t)' = AS!FirstView(t, stack)
  <2>1. UserView(t)' = View(t)'
    BY <1>1, ViewsNext
  <2>2. t \notin Demanders'
    BY <1>1, <1>2 DEF Demanders
  <2>3. View(t)' = AS!FirstView(t, stack)
    BY <1>2, <2>2 DEF View, AS!FirstView, AS!ReadOnly, AS!ReadWrite
  <2> QED BY <2>1, <2>3
<1>6. \A u \in Tasks \ {t} : UserView(u)' = UserView(u)
  <2> TAKE u \in Tasks \ {t}
  <2>1. UserView(u) = IF u \in Created THEN View(u) ELSE {}
    BY ViewsAre
  <2>2. UserView(u)' = IF u \in Created' THEN View(u)' ELSE {}
    BY ViewsNext
  <2>3. u \in Created => View(u)' = View(u)
    BY <1>2, ViewSame
  <2> QED BY <1>1, <2>1, <2>2, <2>3
<1>7. Views' = [Views EXCEPT ![t] = AS!FirstView(t, stack)]
  BY <1>5, <1>6 DEF Views
<1>8. stack \notin {m.page : m \in UNION {Views[u] : u \in Tasks}}
  BY <1>4 DEF Views
<1>9. Views[t] = {}
  BY <1>3 DEF Views
<1> HIDE DEF stack
<1> QED BY <1>1, <1>4, <1>7, <1>8, <1>9 DEF AS!Create, AS!Seen, Views

(* A served fault gives the running task the on-demand page.                *)
LEMMA FaultRefines ==
    ASSUME MmuInv, MmuInv', NEW virt, NEW write, NEW last_byte,
           page_fault(virt, write, last_byte), InOnDemandArea(virt, last_byte)
    PROVE  running \in Tasks /\ AS!Demand(running)
<1> DEFINE r == running
<1>1. r \in Tasks /\ UNCHANGED <<space, running>>
  BY FaultEffect
<1>2. /\ Created' = Created /\ Demanders' = Demanders \cup {r}
      /\ \A t \in Created : Stack(t)' = Stack(t)
  BY FaultSpaces
<1>3. r \in Created
  BY <1>1, RunningTask
<1>4. UserView(r) = View(r) /\ UserView(r)' = View(r)'
  BY <1>1, <1>2, <1>3, ViewsAre, ViewsNext
<1>5. View(r)' = View(r) \cup {AS!OnDemand} /\ View(r) # {}
  BY <1>1, <1>2, <1>3 DEF View, AS!FirstView, AS!ReadOnly, AS!ReadWrite, AS!OnDemand
<1>6. \A u \in Tasks \ {r} : UserView(u)' = UserView(u)
  <2> TAKE u \in Tasks \ {r}
  <2>1. UserView(u) = IF u \in Created THEN View(u) ELSE {}
    BY ViewsAre
  <2>2. UserView(u)' = IF u \in Created' THEN View(u)' ELSE {}
    BY ViewsNext
  <2>3. u \in Created => View(u)' = View(u)
    BY <1>2, ViewSame
  <2> QED BY <1>2, <2>1, <2>2, <2>3
<1>7. UserView(r)' = UserView(r) \cup {AS!OnDemand} /\ UserView(r) # {}
  BY <1>4, <1>5
<1>8. Views' = [Views EXCEPT ![r] = @ \cup {AS!OnDemand}] /\ Views[r] # {}
  BY <1>1, <1>6, <1>7 DEF Views
<1>9. r # "boot"
  BY <1>1, LayoutAssumption
<1> QED BY <1>1, <1>8, <1>9 DEF AS!Demand, Views

(* Every other step closes the creation of tasks or is none to the views.   *)
LEMMA OtherRefines ==
    ASSUME MmuInv, MmuInv', Views' = Views,
           running' = running \/ running' # "boot"
    PROVE  AS!Close \/ UNCHANGED <<Views, running = "boot">>
  BY DEF AS!Close, Views

(* The tables give each task the address space that AddressSpaces promises: *)
(* its code and the shared page read-only, a stack page of its own, and the *)
(* on-demand page once it asked for it.                                     *)
THEOREM ImplementsAddressSpacesHolds == Spec => ImplementsAddressSpaces
<1>1. Init => AS!Init
  <2> SUFFICES ASSUME Init PROVE AS!Init
    OBVIOUS
  <2>1. Created = {} /\ running = "boot"
    BY DEF Init, Created
  <2>2. \A t \in Tasks : UserView(t) = {}
    BY <2>1, NoView
  <2> QED BY <2>1, <2>2 DEF AS!Init
<1>2. MmuInv /\ MmuInv' /\ [Next]_vars => AS!Next \/ UNCHANGED <<Views, running = "boot">>
  <2> SUFFICES ASSUME MmuInv, MmuInv', [Next]_vars
               PROVE  AS!Next \/ UNCHANGED <<Views, running = "boot">>
    OBVIOUS
  <2>1. ASSUME UNCHANGED <<mem, data, next_free_kernel_page, next_free_user_page, space>>,
               Paging' = Paging, running' = running \/ running' # "boot"
        PROVE  AS!Close \/ UNCHANGED <<Views, running = "boot">>
    BY <2>1, MemoryKept, ViewsKept, OtherRefines
  <2>2. CASE mmu_init_kernel_dir
    <3>1. Created = {} /\ UNCHANGED <<space, running>>
      BY <2>2 DEF mmu_init_kernel_dir, MmuInv, BootInv
    <3>2. Created' = {}
      BY <3>1 DEF Created
    <3>3. Demanders = {} /\ Demanders' = {}
      BY <3>1, <3>2 DEF Demanders
    <3>4. Views' = Views
      BY <3>1, <3>2, <3>3, ViewsKept
    <3> QED BY <3>1, <3>4
  <2>3. ASSUME NEW t \in Tasks, tss_create_user_task(t) PROVE AS!Next
    BY <2>3, CreateRefines DEF AS!Next
  <2>4. ASSUME NEW dst \in CopyPages, NEW src \in CopyPages, copy_page(dst, src)
        PROVE  UNCHANGED <<Views, running = "boot">>
    <3>1. Created' = Created /\ Demanders' = Demanders /\ \A t \in Created : Stack(t)' = Stack(t)
      BY <2>4, CopySpaces
    <3>2. running' = running
      BY <2>4 DEF copy_page
    <3> QED BY <3>1, <3>2, ViewsKept
  <2>5. ASSUME NEW x \in Tasks \cup {"idle"}, SwitchTo(x)
        PROVE  AS!Close \/ UNCHANGED <<Views, running = "boot">>
    <3>1. UNCHANGED <<mem, data, next_free_kernel_page, next_free_user_page, space>>
          /\ running' = x
      BY <2>5 DEF SwitchTo
    <3>2. x # "boot"
      BY <2>5, LayoutAssumption
    <3>3. Paging' = Paging
      <4>1. Paging
        BY <2>5 DEF SwitchTo
      <4>2. Paging'
        <5>1. running' # "boot"
          BY <3>1, <3>2
        <5> QED BY <5>1 DEF MmuInv, BootInv
      <4> QED BY <4>1, <4>2 DEF Paging
    <3> QED BY <2>1, <3>1, <3>2, <3>3
  <2>6. ASSUME NEW virt \in Touched, TlbFill(virt)
        PROVE  AS!Close \/ UNCHANGED <<Views, running = "boot">>
    BY <2>1, <2>6 DEF TlbFill, Paging
  <2>7. ASSUME NEW e \in tlb, TlbEvict(e)
        PROVE  AS!Close \/ UNCHANGED <<Views, running = "boot">>
    BY <2>1, <2>7 DEF TlbEvict, Paging
  <2>8. ASSUME NEW virt \in Touched, NEW write \in BOOLEAN, NEW last_byte \in BOOLEAN,
               page_fault(virt, write, last_byte)
        PROVE  AS!Next \/ UNCHANGED <<Views, running = "boot">>
    <3>1. CASE InOnDemandArea(virt, last_byte)
      BY <2>8, <3>1, FaultRefines DEF AS!Next
    <3>2. CASE ~InOnDemandArea(virt, last_byte)
      <4>1. UNCHANGED <<mem, data, next_free_kernel_page, next_free_user_page, space, cr3,
                        running>>
        BY <2>8, <3>2 DEF page_fault
      <4> QED BY <2>1, <4>1 DEF Paging, AS!Next
    <3> QED BY <3>1, <3>2
  <2>9. AS!Close => AS!Next
    BY DEF AS!Next
  <2>10. CASE Stopped \/ UNCHANGED vars
    BY <2>1, <2>9, <2>10 DEF Stopped, vars, Paging
  <2> DEFINE Good == AS!Next \/ UNCHANGED <<Views, running = "boot">>
  <2>11. /\ mmu_init_kernel_dir => Good
         /\ \A t \in Tasks : tss_create_user_task(t) => Good
         /\ \A dst, src \in CopyPages : copy_page(dst, src) => Good
    BY <2>2, <2>3, <2>4
  <2>12. /\ \A x \in Tasks \cup {"idle"} : SwitchTo(x) => Good
         /\ \A virt \in Touched : TlbFill(virt) => Good
         /\ \A e \in tlb : TlbEvict(e) => Good
    BY <2>5, <2>6, <2>7, <2>9
  <2>13. \A virt \in Touched, write, last_byte \in BOOLEAN :
            page_fault(virt, write, last_byte) => Good
    BY <2>8
  <2>14. Stopped \/ UNCHANGED vars => Good
    BY <2>10
  <2> HIDE DEF Good
  <2>15. Good
    BY <2>11, <2>12, <2>13, <2>14 DEF Next
  <2> QED BY <2>15 DEF Good
<1>3. MmuInv /\ MmuInv' /\ [Next]_vars
        => [AS!Next]_(<<[t \in Tasks |-> UserView(t)], running = "boot">>)
  BY <1>2 DEF Views
<1> QED BY <1>1, <1>3, InvHolds, PTL DEF ImplementsAddressSpaces, AS!Spec, Spec
=============================================================================
