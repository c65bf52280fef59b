----------------------------- MODULE KernelHeap -----------------------------
(***************************************************************************)
(* The kernel's own memory behind its image (kernel/arch/amd64/memmgr.c):  *)
(* one region, counted by kernel_heap_length, out of which sbrk serves the *)
(* heap and memmgr_create_stack the kernel stacks.  All address spaces     *)
(* share its page tables.  Pages are numbered from the first page behind   *)
(* the image.  Every operation runs with no other process in between: the  *)
(* kernel is not preempted.  The keyboard handler, which allocates, gets   *)
(* pages only when the heap's lock is free; what it does is in Heap.       *)
(***************************************************************************)
EXTENDS Integers

CONSTANTS
    Process,      \* what can have a kernel stack, beside the two below
    IST,          \* the page fault handler
    Idle,         \* the idle process
    BootPages,    \* pages of the region that start.S has mapped
    STACK_PAGES,  \* pages of a kernel stack, 4 in the code
    Sizes,        \* page counts sbrk is called with
    MaxPages      \* bound of the model: pages of the region

ASSUME ThreadAssumption == IST # Idle /\ IST \notin Process /\ Idle \notin Process
ASSUME BootPagesAssumption == BootPages \in Nat
ASSUME StackPagesAssumption == STACK_PAGES \in Nat \ {0}
ASSUME SizesAssumption == Sizes \subseteq Nat \ {0}
ASSUME MaxPagesAssumption == MaxPages \in Nat /\ STACK_PAGES < MaxPages

Thread == Process \cup {IST, Idle}
KPage == 0..(MaxPages - 1)
NoStack == -1

VARIABLES
    kpage,               \* page table entry: "none" (0), "guard" or "page"
    kernel_heap_length,  \* in pages
    chunks,              \* what sbrk returned: records of base and len
    stack                \* first page memmgr_create_stack took, or NoStack

heapVars == <<kpage, kernel_heap_length, chunks, stack>>

\* memmgr_create_or_get_page(_, _, 1) for a range: an entry that is not 0 stays.
Mapped(from, to) ==
    [p \in KPage |-> IF p \in from..to /\ kpage[p] = "none" THEN "page" ELSE kpage[p]]

\* memmgr_create_stack(false, n pages): a guard page and n pages behind it, all of
\* them only where the entry is still 0; the length grows by n.
StackMapped(n) ==
    LET S == kernel_heap_length
        up == Mapped(S + 1, S + n)
    IN  [up EXCEPT ![S] = IF @ = "none" THEN "guard" ELSE @]

\* Mutant: the comment's increase of the heap is missing.
memmgr_create_stack_NoIncrease(t, n) ==
    /\ kernel_heap_length + n < MaxPages
    /\ kpage' = StackMapped(n)
    /\ stack' = [stack EXCEPT ![t] = kernel_heap_length]
    /\ UNCHANGED <<kernel_heap_length, chunks>>

memmgr_create_stack(t, n) ==
    /\ kernel_heap_length + n < MaxPages
    /\ kpage' = StackMapped(n)
    /\ stack' = [stack EXCEPT ![t] = kernel_heap_length]
    /\ kernel_heap_length' = kernel_heap_length + n
    /\ UNCHANGED chunks

\* memmgr_init: start.S has mapped the first pages, and the region opens with the
\* stack of the page fault handler.
HeapInit ==
    /\ kpage = [p \in KPage |-> IF p = 0 /\ BootPages = 0 THEN "guard"
                                ELSE IF p < BootPages \/ p =< STACK_PAGES THEN "page"
                                ELSE "none"]
    /\ kernel_heap_length = STACK_PAGES
    /\ chunks = {}
    /\ stack = [t \in Thread |-> IF t = IST THEN 0 ELSE NoStack]

process_create_idle ==
    /\ stack[Idle] = NoStack
    /\ memmgr_create_stack(Idle, 1)

\* process_create_task and process_fork give a process its kernel stack.
CreateKernelStack(t) ==
    /\ stack[Idle] # NoStack /\ stack[t] = NoStack
    /\ memmgr_create_stack(t, STACK_PAGES)

\* sbrk maps the region from its start, so that it also fills the holes which
\* process_thread_exit left.
sbrk(n) ==
    /\ kernel_heap_length + n =< MaxPages
    /\ kpage' = Mapped(0, kernel_heap_length + n - 1)
    /\ chunks' = chunks \cup {[base |-> kernel_heap_length, len |-> n]}
    /\ kernel_heap_length' = kernel_heap_length + n
    /\ UNCHANGED stack

\* Mutant: one page more is deleted than the stack and its guard page have.
DeleteKernelStack_OneMore(t) ==
    /\ kpage' = [p \in KPage |-> IF p \in stack[t]..(stack[t] + STACK_PAGES + 1)
                                 THEN "none" ELSE kpage[p]]
    /\ stack' = [stack EXCEPT ![t] = NoStack]
    /\ UNCHANGED <<kernel_heap_length, chunks>>

\* process_thread_exit: the guard page and the stack's pages are deleted.
DeleteKernelStack(t) ==
    /\ kpage' = [p \in KPage |-> IF p \in stack[t]..(stack[t] + STACK_PAGES)
                                 THEN "none" ELSE kpage[p]]
    /\ stack' = [stack EXCEPT ![t] = NoStack]
    /\ UNCHANGED <<kernel_heap_length, chunks>>

\* process_exit and process_reap leave the stack mapped; nobody runs on it any more.
AbandonKernelStack(t) ==
    /\ stack' = [stack EXCEPT ![t] = NoStack]
    /\ UNCHANGED <<kpage, kernel_heap_length, chunks>>

HeapNext ==
    \/ process_create_idle
    \/ \E n \in Sizes : sbrk(n)
    \/ \E t \in Process : CreateKernelStack(t)
    \/ \E t \in Process : stack[t] # NoStack /\ (DeleteKernelStack(t) \/ AbandonKernelStack(t))

\* The region changes only by whole calls of sbrk and memmgr_create_stack and by the
\* end of a process that has a stack.  A property of AddressSpace, where these calls
\* are parts of fork, exit and malloc.
HeapSpec == HeapInit /\ [][HeapNext]_heapVars
-----------------------------------------------------------------------------
HeapTypeOK ==
    /\ kpage \in [KPage -> {"none", "guard", "page"}]
    /\ kernel_heap_length \in 0..MaxPages
    /\ chunks \subseteq [base : KPage, len : 1..MaxPages]
    /\ stack \in [Thread -> KPage \cup {NoStack}]

ChunkPages(c) == c.base..(c.base + c.len - 1)

\* The pages a thread runs on.  memmgr_init and process_create_idle use the lower end
\* of the new stack as the stack pointer, so these two run on the guard page.
StackPages(t) ==
    IF stack[t] = NoStack THEN {}
    ELSE IF t \in {IST, Idle} THEN {stack[t]}
    ELSE (stack[t] + 1)..(stack[t] + STACK_PAGES)

Top(t) == stack[t] + STACK_PAGES

\* Whatever else goes wrong in this region, two pieces of the heap never overlap,
\* and a stack shares no page but its topmost one with the heap or another stack.
OverlapOnlyTop ==
    /\ \A c, d \in chunks : c # d => ChunkPages(c) \cap ChunkPages(d) = {}
    /\ \A c \in chunks, t \in Thread : ChunkPages(c) \cap StackPages(t) \subseteq {Top(t)}
    /\ \A t, u \in Thread :
           t # u => StackPages(t) \cap StackPages(u) \subseteq {Top(t), Top(u)}

\* Deleting a stack pulls no page away from under the rest: apart from the first
\* page of a piece of heap and the last one of a stack, what is in use is mapped.
InteriorMapped ==
    /\ \A c \in chunks : \A p \in ChunkPages(c) \ {c.base} : kpage[p] = "page"
    /\ \A t \in Process : \A p \in StackPages(t) \ {Top(t)} : kpage[p] = "page"

\* "Increase kernel heap so we dont get overwritten on sbrk", says
\* memmgr_create_stack: no page of a stack is given to the heap.
StackNotOverwritten ==
    \A c \in chunks, t \in Thread : ChunkPages(c) \cap StackPages(t) = {}

\* What makes the two invariants inductive: memmgr_create_stack counts the guard page
\* and all but the last page of a stack, and counted this way nothing overlaps.
Counted(t) == IF t = Idle THEN 1 ELSE STACK_PAGES

Apart ==
    /\ \A c \in chunks : c.base + c.len =< kernel_heap_length
    /\ \A t \in Thread : stack[t] # NoStack => stack[t] + Counted(t) =< kernel_heap_length
    /\ \A c, d \in chunks : c # d => c.base + c.len =< d.base \/ d.base + d.len =< c.base
    /\ \A c \in chunks, t \in Thread : stack[t] # NoStack =>
           c.base + c.len =< stack[t] \/ stack[t] + Counted(t) =< c.base
    /\ \A t, u \in Thread : t # u /\ stack[t] # NoStack /\ stack[u] # NoStack =>
           stack[t] + Counted(t) =< stack[u] \/ stack[u] + Counted(u) =< stack[t]

GuardsBelow == \A p \in KPage : kpage[p] = "guard" => p < kernel_heap_length

HeapInd == HeapTypeOK /\ Apart /\ GuardsBelow /\ InteriorMapped
=============================================================================
