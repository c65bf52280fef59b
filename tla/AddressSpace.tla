---------------------------- MODULE AddressSpace ----------------------------
(***************************************************************************)
(* The address spaces of processes (kernel/arch/amd64/memmgr.c, and the    *)
(* calls of process.c and syscall.c that change them): mapping, unmapping, *)
(* the copy a fork makes and the teardown when a process is reaped, with   *)
(* every frame they take from and return to the frame allocator.           *)
(* Pages are numbered from 4 MiB, where the large pages of start.S end.    *)
(* The kernel is not preempted, so a system call is one step; a running    *)
(* process that calls nothing is not visible here.                         *)
(***************************************************************************)
EXTENDS KernelHeap, FiniteSets, FiniteSetsExt

CONSTANTS
    InitProcess,  \* process 1
    Frame,        \* the frames that are free when process 1 is created
    PAGE_SIZE,    \* bytes of a page, in units that tell full from part pages
    TableSize,    \* entries of a page table, 512 in the code
    Tables,       \* bound of the model: page tables of an address space
    ElfPages,     \* pages of the program of process 1
    UserStack,    \* pages of its stack, 4 in the code
    Lengths       \* lengths that mmap, munmap and brk are called with

ASSUME InitAssumption == InitProcess \in Process
ASSUME FrameAssumption == IsFiniteSet(Frame) /\ Frame \subseteq Nat \ {0}
ASSUME SizeAssumption ==
    /\ PAGE_SIZE \in Nat \ {0} /\ TableSize \in Nat \ {0} /\ Tables \in Nat \ {0}
    /\ UserStack \in Nat \ {0} /\ Lengths \subseteq Nat \ {0}
\* The program does not end with a page table, so that process 1's stack begins in
\* one that user mode may use.
ASSUME ElfAssumption == ElfPages \in Nat \ {0} /\ ElfPages % TableSize # 0
                        /\ ElfPages + UserStack + 1 < Tables * TableSize

Page == 0..(Tables * TableSize - 1)
Table == 0..(Tables - 1)
TableOf(p) == p \div TableSize
Free == 0       \* an entry that is 0
Guard == -1     \* MEMMGR_PAGE_FLAG_STACK_GUARD: neither present nor user, no frame

VARIABLES
    status,      \* free, running, spinning (on a lock, for ever), finished, or
                 \* removed: unlinked by process_reap, which then spins
    upper,       \* frames of a process's PML4 and the two directory levels
    table,       \* frame of each page table, or Free
    entry,       \* each page table entry: a frame, Guard or Free
    memory_map,  \* the frames in use
    locked,      \* page_directory->lock
    region,      \* if the last step was an mmap, the caller and the pages it got
    halted       \* a page fault in the kernel: exception_handler stops the machine

userVars == <<status, upper, table, entry, memory_map, locked, region, halted>>
vars == <<heapVars, userVars>>

Init ==
    /\ HeapInit
    /\ status = [p \in Process |-> "free"]
    /\ upper = [p \in Process |-> {}]
    /\ table = [p \in Process |-> [t \in Table |-> Free]]
    /\ entry = [p \in Process |-> [v \in Page |-> Free]]
    /\ memory_map = {}
    /\ locked = [p \in Process |-> FALSE]
    /\ region = {}
    /\ halted = FALSE

\* The k-th frame in a row of calls to kalloc_frame (FrameAllocator!LowestFree).
kalloc_frame(k) ==
    CHOOSE f \in Frame \ memory_map :
        Cardinality({g \in Frame \ memory_map : g < f}) = k - 1

\* Bound of the model: memory does not run out, a case the code does not handle.
Suffices(n) == n =< Cardinality(Frame \ memory_map)

\* The order in which tables and pages get their frames: every table before its
\* own pages, after those of the tables below it.
NthPage(pages, tables, v) ==
    Cardinality({w \in pages : w =< v}) + Cardinality({t \in tables : t =< TableOf(v)})
NthTable(pages, tables, t) ==
    Cardinality({w \in pages : TableOf(w) < t}) + Cardinality({u \in tables : u =< t})

\* memmgr_create_or_get_page(_, PAGE_USER, 1) for all pages of R in ascending order,
\* memmgr_create_or_get_raw for the guard pages among them: a missing page table is
\* created first, and an entry that is not 0 stays.
CreatePages(p, R, guards) ==
    LET new == {v \in R \ guards : entry[p][v] = Free}
        tables == {t \in Table : table[p][t] = Free /\ \E v \in new : TableOf(v) = t}
        n == Cardinality(new) + Cardinality(tables)
    IN  /\ Suffices(n)
        /\ entry' = [entry EXCEPT ![p] = [v \in Page |->
               IF v \in new THEN kalloc_frame(NthPage(new, tables, v))
               ELSE IF v \in guards /\ @[v] = Free THEN Guard
               ELSE @[v]]]
        /\ table' = [table EXCEPT ![p] = [t \in Table |->
               IF t \in tables THEN kalloc_frame(NthTable(new, tables, t)) ELSE @[t]]]
        /\ memory_map' = memory_map \cup {kalloc_frame(k) : k \in 1..n}

Count(len) == len \div PAGE_SIZE + (IF len % PAGE_SIZE # 0 THEN 1 ELSE 0)

\* Where the free pages that follow hold more than len bytes.
RoomFor(p, len, isFree) ==
    {v \in Page : \E w \in v..(Tables * TableSize - 1) :
        /\ (w - v + 1) * PAGE_SIZE > len
        /\ \A x \in v..w : entry[p][x] \in isFree}

\* Mutant: a guard page, which has no frame, counts as free.
get_free_page_OverGuard(p, len) == Min(RoomFor(p, len, {Free, Guard}))

get_free_page(p, len) == Min(RoomFor(p, len, {Free}))

UserPages(p) == {v \in Page : entry[p][v] \in Frame}
UserTables(p) == {t \in Table : table[p][t] # Free}
-----------------------------------------------------------------------------
\* process_create_task: the program, then a guard page and the stack behind it.
process_create_task ==
    /\ status[InitProcess] = "free"
    /\ CreatePages(InitProcess, 0..(ElfPages + UserStack), {ElfPages})
    /\ CreateKernelStack(InitProcess)
    /\ status' = [status EXCEPT ![InitProcess] = "running"]
    /\ region' = {}
    /\ UNCHANGED <<upper, locked, halted>>

\* mmap(0, len, false).  Bound of the model: there is room below the last table.
MapAnywhere(p, len) ==
    /\ RoomFor(p, len, {Free}) # {}
    /\ LET from == get_free_page(p, len)
           R == from..(from + Count(len) - 1)
       IN  /\ CreatePages(p, R, {})
           /\ region' = {p} \X R

sys_mmap(p, len) ==
    /\ status[p] = "running"
    /\ MapAnywhere(p, len)
    /\ UNCHANGED <<heapVars, status, upper, locked, halted>>

\* mmap(addr, len, false).  A page that has a frame makes it return 0.  A guard page
\* has none: it passes the test, stays what it is, and the memset of it faults.
sys_mmap_fixed(p, v, len) ==
    LET R == v..(v + Count(len) - 1)
        guards == {x \in R : entry[p][x] = Guard}
    IN  /\ status[p] = "running"
        /\ R \subseteq Page
        /\ \/ /\ R \cap UserPages(p) # {}
              /\ region' = {}
              /\ UNCHANGED <<entry, table, memory_map, halted>>
           \/ /\ R \cap UserPages(p) = {} /\ guards = {}
              /\ CreatePages(p, R, {})
              /\ region' = {p} \X R
              /\ UNCHANGED halted
           \/ /\ R \cap UserPages(p) = {} /\ guards # {}
              /\ CreatePages(p, v..(Min(guards) - 1), {})
              /\ region' = {}
              /\ halted' = TRUE
        /\ UNCHANGED <<heapVars, status, upper, locked>>

\* The pages memmgr_check_user lets munmap delete.
Victims(p, R) == R \cap UserPages(p)

\* memmgr_delete_page for every page of a set.
memmgr_delete_page(p, gone) ==
    /\ entry' = [entry EXCEPT ![p] = [x \in Page |-> IF x \in gone THEN Free ELSE @[x]]]
    /\ memory_map' = memory_map \ {entry[p][x] : x \in gone}

\* munmap counts from 1: it leaves the first page and deletes the one behind.
sys_munmap(p, v, len) ==
    /\ status[p] = "running"
    /\ memmgr_delete_page(p, Victims(p, (v + 1)..(v + Count(len))))
    /\ region' = {}
    /\ UNCHANGED <<heapVars, status, upper, table, locked, halted>>

\* heap is 0 in every page_directory, so sys_brk comes down to mmap(0, size); it
\* returns with the lock held, and the next call spins for ever.
sys_brk(p, size) ==
    /\ status[p] = "running"
    /\ \/ /\ ~locked[p]
          /\ MapAnywhere(p, size)
          /\ locked' = [locked EXCEPT ![p] = TRUE]
          /\ UNCHANGED status
       \/ /\ locked[p]
          /\ status' = [status EXCEPT ![p] = "spinning"]
          /\ region' = {}
          /\ UNCHANGED <<entry, table, memory_map, locked>>
    /\ UNCHANGED <<heapVars, upper, halted>>
-----------------------------------------------------------------------------
\* memmgr_clone_page_map, and the kalloc_frame for the PML4 before it: user pages get
\* frames of their own, every other entry is copied as it is.
memmgr_clone_page_map(p, c) ==
    LET pages == UserPages(p)
        tables == UserTables(p)
        n == 3 + Cardinality(pages) + Cardinality(tables)
    IN  /\ Suffices(n)
        /\ upper' = [upper EXCEPT ![c] = {kalloc_frame(k) : k \in 1..3}]
        /\ table' = [table EXCEPT ![c] = [t \in Table |->
               IF t \in tables THEN kalloc_frame(3 + NthTable(pages, tables, t)) ELSE Free]]
        /\ entry' = [entry EXCEPT ![c] = [v \in Page |->
               IF v \in pages THEN kalloc_frame(3 + NthPage(pages, tables, v))
               ELSE entry[p][v]]]
        /\ memory_map' = memory_map \cup {kalloc_frame(k) : k \in 1..n}

\* Mutant: the child's kernel stack is one page long, as the idle process's.
process_fork_SmallStack(p, c) ==
    /\ status[p] = "running" /\ status[c] = "free"
    /\ memmgr_clone_page_map(p, c)
    /\ memmgr_create_stack(c, 1)
    /\ status' = [status EXCEPT ![c] = "running"]
    /\ locked' = [locked EXCEPT ![c] = FALSE]
    /\ region' = {}
    /\ UNCHANGED halted

process_fork(p, c) ==
    /\ status[p] = "running" /\ status[c] = "free"
    /\ memmgr_clone_page_map(p, c)
    /\ CreateKernelStack(c)
    /\ status' = [status EXCEPT ![c] = "running"]
    /\ locked' = [locked EXCEPT ![c] = FALSE]
    /\ region' = {}
    /\ UNCHANGED halted

\* process_thread_exit (sys_exit) deletes the kernel stack, process_exit
\* (sys_exit_group) leaves it; process 1 panics in both.
Exit(p) ==
    /\ status[p] = "running" /\ p # InitProcess
    /\ DeleteKernelStack(p) \/ AbandonKernelStack(p)
    /\ status' = [status EXCEPT ![p] = "finished"]
    /\ region' = {}
    /\ UNCHANGED <<upper, table, entry, memory_map, locked, halted>>

Held(p) == upper[p] \cup {table[p][t] : t \in UserTables(p)} \cup {entry[p][v] : v \in UserPages(p)}

\* Mutant: the page tables themselves are not freed.
memmgr_clear_page_map_KeepsTables(p) ==
    /\ memory_map' = memory_map \ (upper[p] \cup {entry[p][v] : v \in UserPages(p)})
    /\ upper' = [upper EXCEPT ![p] = {}]
    /\ table' = [table EXCEPT ![p] = [t \in Table |-> Free]]
    /\ entry' = [entry EXCEPT ![p] = [v \in Page |-> Free]]

\* Every present page, every table and the upper levels are freed; nobody looks at
\* the tables again.
memmgr_clear_page_map(p) ==
    /\ memory_map' = memory_map \ Held(p)
    /\ upper' = [upper EXCEPT ![p] = {}]
    /\ table' = [table EXCEPT ![p] = [t \in Table |-> Free]]
    /\ entry' = [entry EXCEPT ![p] = [v \in Page |-> Free]]

\* process_reap(c), called by p in sys_wait4; it takes the lock sys_brk left locked.
process_reap(p, c) ==
    /\ status[p] = "running" /\ status[c] = "finished"
    /\ \/ /\ ~locked[c]
          /\ memmgr_clear_page_map(c)
          /\ status' = [status EXCEPT ![c] = "free"]
       \/ /\ locked[c]
          /\ status' = [status EXCEPT ![c] = "removed", ![p] = "spinning"]
          /\ UNCHANGED <<upper, table, entry, memory_map>>
    /\ region' = {}
    /\ UNCHANGED <<heapVars, locked, halted>>

\* malloc calls sbrk, and memmgr_init is followed by process_create_idle.
KernelStep ==
    /\ process_create_idle \/ \E n \in Sizes : sbrk(n)
    /\ region' = {}
    /\ UNCHANGED <<status, upper, table, entry, memory_map, locked, halted>>

Next ==
    /\ ~halted
    /\ \/ KernelStep
       \/ process_create_task
       \/ \E p \in Process : \/ Exit(p)
                             \/ \E c \in Process : process_fork(p, c) \/ process_reap(p, c)
       \/ \E p \in Process, len \in Lengths :
              \/ sys_mmap(p, len) \/ sys_brk(p, len)
              \/ \E v \in Page : sys_mmap_fixed(p, v, len) \/ sys_munmap(p, v, len)

Spec == Init /\ [][Next]_vars
-----------------------------------------------------------------------------
UserTypeOK ==
    /\ status \in [Process -> {"free", "running", "spinning", "finished", "removed"}]
    /\ upper \in [Process -> SUBSET Frame]
    /\ table \in [Process -> [Table -> Frame \cup {Free}]]
    /\ entry \in [Process -> [Page -> Frame \cup {Free, Guard}]]
    /\ memory_map \subseteq Frame
    /\ locked \in [Process -> BOOLEAN]
    /\ region \subseteq Process \X Page
    /\ halted \in BOOLEAN

TypeOK == HeapTypeOK /\ UserTypeOK

\* An address space refers to each of its frames from one place: none is mapped
\* twice, or used as a table and as a page.
Once(p) ==
    /\ \A v, w \in UserPages(p) : entry[p][v] = entry[p][w] => v = w
    /\ \A t, u \in UserTables(p) : table[p][t] = table[p][u] => t = u
    /\ \A v \in UserPages(p), t \in UserTables(p) : entry[p][v] # table[p][t]
    /\ \A v \in UserPages(p) : entry[p][v] \notin upper[p]
    /\ \A t \in UserTables(p) : table[p][t] \notin upper[p]

\* The frames in use are exactly those some address space refers to, each of them
\* from one place: no two processes share memory, no frame is mapped twice or as a
\* page table as well, and none is lost by munmap, fork and process_reap.
FramesAgree ==
    /\ memory_map = UNION {Held(p) : p \in Process}
    /\ \A p, q \in Process : p # q => Held(p) \cap Held(q) = {}
    /\ \A p \in Process : Once(p)
    /\ \A p \in Process : status[p] = "free" => Held(p) = {}

\* The guard page below process 1's stack, and below its copy in every child, is
\* never mapped and never unmapped: munmap spares it, mmap and fork keep it.
UserStackGuarded ==
    \A p \in Process : status[p] # "free" => entry[p][ElfPages] = Guard

\* memmgr_map_to_user, memmgr_clear_page_map and the loader together keep the page
\* tables, the frame bitmap and the guard below the user stack in agreement.
MemoryAgrees == TypeOK /\ FramesAgree /\ UserStackGuarded

\* Whoever can exit has a kernel stack to delete.
StackHeld == \A p \in Process : status[p] = "running" => stack[p] # NoStack

\* What is inductive beside HeapInd, which is so by itself.
UserInv == UserTypeOK /\ FramesAgree /\ UserStackGuarded /\ StackHeld

\* What mmap returns was free and is now mapped, page by page, wherever the search
\* for a free place or the caller put it.
MmapGivesFresh ==
    [][\A r \in region' : entry[r[1]][r[2]] = Free /\ entry'[r[1]][r[2]] \in Frame]_vars
=============================================================================
