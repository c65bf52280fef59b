------------------------- MODULE AddressSpace_proof -------------------------
(***************************************************************************)
(* Proofs about memory.  KernelHeap: for every number of processes, every  *)
(* stack size and every sequence of sbrk, fork and exit, only the topmost  *)
(* page of a stack is exposed.  AddressSpace: its steps change the         *)
(* kernel's region only as KernelHeap says, mmap hands out pages that were *)
(* free, and page tables and frame bitmap agree, for every number of       *)
(* processes, frames, pages and tables.                                    *)
(***************************************************************************)
EXTENDS AddressSpace, FiniteSetTheorems, FunctionTheorems, TLAPS

-----------------------------------------------------------------------------
\* The kernel region.  HeapInd adds to the two invariants that the regions are apart when
\* the code's own count of pages is used, and that no guard page lies at or behind the end
\* of the region.
\* The state memmgr_init leaves satisfies the invariant.
LEMMA HeapIndInit == HeapInit => HeapInd
<1> USE ThreadAssumption, BootPagesAssumption, StackPagesAssumption, SizesAssumption,
        MaxPagesAssumption
<1> SUFFICES ASSUME HeapInit PROVE HeapInd
    OBVIOUS
<1>0. STACK_PAGES \in KPage /\ 0 \in KPage /\ IST \in Thread
    BY DEF KPage, Thread
<1>1. HeapTypeOK
    BY <1>0 DEF HeapInit, HeapTypeOK, KPage, NoStack
<1>2. \A t \in Thread : stack[t] # NoStack => t = IST /\ stack[t] = 0 /\ Counted(t) = STACK_PAGES
    BY DEF HeapInit, NoStack, Counted
<1>3. Apart
    BY <1>2 DEF HeapInit, Apart
<1>4. GuardsBelow
    BY <1>0 DEF HeapInit, GuardsBelow, KPage
<1>5. InteriorMapped
    <2>1. \A t \in Process : StackPages(t) = {}
        BY <1>2 DEF StackPages, Thread
    <2> QED BY <2>1 DEF InteriorMapped, HeapInit
<1> QED BY <1>1, <1>3, <1>4, <1>5 DEF HeapInd

\* memmgr_create_stack for a thread without a stack preserves the invariant.
LEMMA CreateStackInd ==
    ASSUME HeapInd, NEW t \in Thread, stack[t] = NoStack,
           memmgr_create_stack(t, Counted(t))
    PROVE  HeapInd'
<1> USE ThreadAssumption, BootPagesAssumption, StackPagesAssumption, SizesAssumption,
        MaxPagesAssumption
<1> DEFINE n == Counted(t)
           S == kernel_heap_length
<1>0. n \in Nat \ {0} /\ (t \in Process => n = STACK_PAGES)
    BY DEF Counted
<1>1. S \in KPage /\ S + n \in KPage /\ S + n =< MaxPages
    BY <1>0 DEF memmgr_create_stack, HeapInd, HeapTypeOK, KPage
<1>2. /\ chunks' = chunks /\ kernel_heap_length' = S + n
      /\ stack' = [stack EXCEPT ![t] = S] /\ stack \in [Thread -> KPage \cup {NoStack}]
      /\ kpage' = StackMapped(n) /\ kpage \in [KPage -> {"none", "guard", "page"}]
    BY DEF memmgr_create_stack, HeapInd, HeapTypeOK
<1>3. /\ kpage' \in [KPage -> {"none", "guard", "page"}]
      /\ \A p \in KPage : kpage[p] # "none" => kpage'[p] = kpage[p]
      /\ \A p \in KPage : p \in (S + 1)..(S + n) /\ kpage[p] = "none" => kpage'[p] = "page"
      /\ \A p \in KPage : kpage[p] = "none" /\ kpage'[p] = "guard" => p = S
    BY <1>0, <1>1, <1>2 DEF StackMapped, Mapped
<1>4. HeapTypeOK'
    BY <1>0, <1>1, <1>2, <1>3 DEF HeapInd, HeapTypeOK
<1>5. /\ stack'[t] = S /\ S # NoStack
      /\ \A u \in Thread : u # t => stack'[u] = stack[u]
      /\ \A u \in Thread : Counted(u)' = Counted(u)
    BY <1>1, <1>2 DEF KPage, NoStack, Counted
<1>6. Apart'
    <2> USE DEF HeapInd, HeapTypeOK, KPage
    <2>1. (\A c \in chunks : c.base + c.len =< kernel_heap_length)'
        BY <1>0, <1>2 DEF Apart
    <2>2. (\A u \in Thread : stack[u] # NoStack => stack[u] + Counted(u) =< kernel_heap_length)'
        BY <1>0, <1>1, <1>2, <1>5 DEF Apart, Counted
    <2>3. (\A c, d \in chunks : c # d => c.base + c.len =< d.base \/ d.base + d.len =< c.base)'
        BY <1>2 DEF Apart
    <2>4. (\A c \in chunks, u \in Thread : stack[u] # NoStack =>
               c.base + c.len =< stack[u] \/ stack[u] + Counted(u) =< c.base)'
        BY <1>2, <1>5 DEF Apart
    <2>5. (\A u, v \in Thread : u # v /\ stack[u] # NoStack /\ stack[v] # NoStack =>
               stack[u] + Counted(u) =< stack[v] \/ stack[v] + Counted(v) =< stack[u])'
        BY <1>2, <1>5 DEF Apart
    <2> QED BY <2>1, <2>2, <2>3, <2>4, <2>5 DEF Apart
<1>7. GuardsBelow'
    BY <1>0, <1>1, <1>2, <1>3 DEF HeapInd, GuardsBelow, HeapTypeOK, KPage
<1>8. InteriorMapped'
    <2>1. \A p \in KPage : kpage[p] = "page" => kpage'[p] = "page"
        BY <1>3
    <2>2. ASSUME NEW c \in chunks', NEW p \in ChunkPages(c) \ {c.base} PROVE kpage'[p] = "page"
        BY <1>2, <2>1, <2>2 DEF HeapInd, HeapTypeOK, InteriorMapped, Apart, ChunkPages, KPage
    <2>3. ASSUME NEW u \in Process, NEW p \in StackPages(u)' \ {Top(u)'} PROVE kpage'[p] = "page"
        <3>1. CASE u = t
            <4>1. p \in (S + 1)..(S + n) /\ p \in KPage
                BY <1>0, <1>1, <1>5, <2>3, <3>1 DEF StackPages, KPage
            <4>2. kpage[p] # "guard"
                BY <4>1, <1>1 DEF HeapInd, GuardsBelow, KPage
            <4> QED BY <4>1, <4>2, <1>2, <1>3
        <3>2. CASE u # t
            <4>1. u \in Thread /\ p \in StackPages(u) \ {Top(u)}
                BY <1>5, <2>3, <3>2 DEF StackPages, Top, Thread
            <4>2. p \in KPage
                <5>1. stack[u] \in KPage /\ p \in (stack[u] + 1)..(stack[u] + STACK_PAGES)
                    BY <4>1, <1>2 DEF StackPages
                <5>2. stack[u] + STACK_PAGES =< kernel_heap_length /\ stack[u] + STACK_PAGES # p
                    BY <4>1, <5>1 DEF HeapInd, Apart, Counted, KPage, NoStack, Top
                <5> QED BY <5>1, <5>2, <1>1 DEF KPage
            <4> QED BY <4>1, <4>2, <2>1 DEF HeapInd, InteriorMapped
        <3> QED BY <3>1, <3>2
    <2> QED BY <2>2, <2>3 DEF InteriorMapped, ChunkPages
<1> QED BY <1>4, <1>6, <1>7, <1>8 DEF HeapInd

\* sbrk preserves the invariant.
LEMMA SbrkInd ==
    ASSUME HeapInd, NEW n \in Sizes, sbrk(n)
    PROVE  HeapInd'
<1> USE ThreadAssumption, BootPagesAssumption, StackPagesAssumption, SizesAssumption,
        MaxPagesAssumption
<1> DEFINE S == kernel_heap_length
           new == [base |-> S, len |-> n]
<1>0. n \in Nat \ {0}
    OBVIOUS
<1>1. S \in KPage /\ S + n =< MaxPages
    BY <1>0 DEF sbrk, HeapInd, HeapTypeOK, KPage
<1>2. /\ chunks' = chunks \cup {new} /\ kernel_heap_length' = S + n /\ stack' = stack
      /\ kpage' = Mapped(0, S + n - 1) /\ kpage \in [KPage -> {"none", "guard", "page"}]
      /\ stack \in [Thread -> KPage \cup {NoStack}]
      /\ chunks \subseteq [base : KPage, len : 1..MaxPages]
    BY DEF sbrk, HeapInd, HeapTypeOK
<1>3. /\ kpage' \in [KPage -> {"none", "guard", "page"}]
      /\ \A p \in KPage : kpage[p] # "none" => kpage'[p] = kpage[p]
      /\ \A p \in KPage : p \in 0..(S + n - 1) /\ kpage[p] = "none" => kpage'[p] = "page"
      /\ \A p \in KPage : kpage'[p] = "guard" => kpage[p] = "guard"
    BY <1>2 DEF Mapped
<1>4. HeapTypeOK'
    BY <1>0, <1>1, <1>2, <1>3 DEF HeapTypeOK, KPage
<1>5. \A t \in Thread : Counted(t)' = Counted(t) /\ Counted(t) \in Nat
    BY DEF Counted
<1>6. Apart'
    <2> USE DEF HeapInd, KPage
    <2>1. (\A c \in chunks : c.base + c.len =< kernel_heap_length)'
        BY <1>0, <1>1, <1>2 DEF Apart
    <2>2. (\A t \in Thread : stack[t] # NoStack => stack[t] + Counted(t) =< kernel_heap_length)'
        BY <1>0, <1>1, <1>2, <1>5 DEF Apart, NoStack
    <2>3. (\A c, d \in chunks : c # d => c.base + c.len =< d.base \/ d.base + d.len =< c.base)'
        BY <1>0, <1>1, <1>2 DEF Apart
    <2>4. (\A c \in chunks, t \in Thread : stack[t] # NoStack =>
               c.base + c.len =< stack[t] \/ stack[t] + Counted(t) =< c.base)'
        BY <1>0, <1>1, <1>2, <1>5 DEF Apart
    <2>5. (\A t, u \in Thread : t # u /\ stack[t] # NoStack /\ stack[u] # NoStack =>
               stack[t] + Counted(t) =< stack[u] \/ stack[u] + Counted(u) =< stack[t])'
        BY <1>2, <1>5 DEF Apart
    <2> QED BY <2>1, <2>2, <2>3, <2>4, <2>5 DEF Apart
<1>7. GuardsBelow'
    BY <1>0, <1>1, <1>2, <1>3 DEF HeapInd, GuardsBelow, KPage
<1>8. InteriorMapped'
    <2>1. \A p \in KPage : kpage[p] = "page" => kpage'[p] = "page"
        BY <1>3
    <2>2. ASSUME NEW c \in chunks, NEW p \in ChunkPages(c) \ {c.base} PROVE kpage'[p] = "page"
        BY <1>1, <1>2, <2>1 DEF HeapInd, InteriorMapped, Apart, ChunkPages, KPage
    <2>3. ASSUME NEW p \in ChunkPages(new) \ {new.base} PROVE kpage'[p] = "page"
        <3>1. p \in KPage /\ p \in 0..(S + n - 1) /\ p > S
            BY <1>0, <1>1 DEF ChunkPages, KPage
        <3>2. kpage[p] # "guard"
            BY <3>1, <1>1 DEF HeapInd, GuardsBelow, KPage
        <3> QED BY <3>1, <3>2, <1>2, <1>3
    <2>4. ASSUME NEW u \in Process, NEW p \in StackPages(u) \ {Top(u)} PROVE kpage'[p] = "page"
        <3>1. u \in Thread /\ stack[u] \in KPage /\ p \in (stack[u] + 1)..(stack[u] + STACK_PAGES)
            BY <1>2 DEF StackPages, Thread
        <3>2. stack[u] + STACK_PAGES =< S /\ stack[u] + STACK_PAGES # p
            BY <3>1 DEF HeapInd, Apart, Counted, KPage, NoStack, Top
        <3>3. p \in KPage
            BY <3>1, <3>2, <1>1 DEF KPage
        <3> QED BY <3>3, <2>1 DEF HeapInd, InteriorMapped
    <2> QED BY <2>2, <2>3, <2>4, <1>2 DEF InteriorMapped, ChunkPages, StackPages, Top
<1> QED BY <1>4, <1>6, <1>7, <1>8 DEF HeapInd

\* A process that gives up its kernel stack, with or without deleting its pages,
\* preserves the invariant.
LEMMA DropStackInd ==
    ASSUME HeapInd, NEW t \in Process, stack[t] # NoStack,
           DeleteKernelStack(t) \/ AbandonKernelStack(t)
    PROVE  HeapInd'
<1> USE ThreadAssumption, BootPagesAssumption, StackPagesAssumption, SizesAssumption,
        MaxPagesAssumption
<1> DEFINE S == stack[t]
<1>0. t \in Thread /\ S \in KPage /\ Counted(t) = STACK_PAGES
    BY DEF Thread, HeapInd, HeapTypeOK, Counted
<1>1. /\ chunks' = chunks /\ kernel_heap_length' = kernel_heap_length
      /\ stack' = [stack EXCEPT ![t] = NoStack]
      /\ stack \in [Thread -> KPage \cup {NoStack}]
      /\ chunks \subseteq [base : KPage, len : 1..MaxPages]
      /\ kernel_heap_length \in 0..MaxPages
    BY DEF DeleteKernelStack, AbandonKernelStack, HeapInd, HeapTypeOK
<1>2. /\ kpage' \in [KPage -> {"none", "guard", "page"}]
      /\ \A p \in KPage : p \notin S..(S + STACK_PAGES) => kpage'[p] = kpage[p]
      /\ \A p \in KPage : kpage'[p] = "guard" => kpage[p] = "guard"
    BY DEF DeleteKernelStack, AbandonKernelStack, HeapInd, HeapTypeOK
<1>3. HeapTypeOK'
    BY <1>0, <1>1, <1>2 DEF HeapTypeOK
<1>4. /\ \A u \in Thread : stack'[u] # NoStack => u # t /\ stack'[u] = stack[u]
      /\ \A u \in Thread : Counted(u)' = Counted(u)
    BY <1>0, <1>1 DEF Counted
<1>5. Apart'
    BY <1>1, <1>4 DEF HeapInd, Apart
<1>6. GuardsBelow'
    BY <1>1, <1>2 DEF HeapInd, GuardsBelow
<1>7. InteriorMapped'
    <2>1. ASSUME NEW c \in chunks, NEW p \in ChunkPages(c) \ {c.base} PROVE kpage'[p] = "page"
        <3>1. p \in KPage /\ p > c.base /\ p < c.base + c.len
            BY <1>1 DEF HeapInd, Apart, ChunkPages, KPage
        <3>2. p \notin S..(S + STACK_PAGES)
            BY <3>1, <1>0, <1>1 DEF HeapInd, Apart, KPage
        <3> QED BY <3>1, <3>2, <1>2 DEF HeapInd, InteriorMapped
    <2>2. ASSUME NEW u \in Process, NEW p \in StackPages(u)' \ {Top(u)'} PROVE kpage'[p] = "page"
        <3>1. u \in Thread /\ u # t /\ stack[u] # NoStack /\ p \in StackPages(u) \ {Top(u)}
            BY <1>4, <2>2 DEF StackPages, Top, Thread
        <3>2. stack[u] \in KPage /\ p \in (stack[u] + 1)..(stack[u] + STACK_PAGES)
              /\ p # stack[u] + STACK_PAGES /\ Counted(u) = STACK_PAGES
            BY <3>1, <1>1 DEF StackPages, Top, Counted
        <3>3. p \in KPage
            BY <3>1, <3>2, <1>1 DEF HeapInd, Apart, KPage
        <3>4. p \notin S..(S + STACK_PAGES)
            BY <3>1, <3>2, <1>0 DEF HeapInd, Apart, KPage
        <3> QED BY <3>1, <3>3, <3>4, <1>2 DEF HeapInd, InteriorMapped
    <2> QED BY <2>1, <2>2, <1>1 DEF InteriorMapped, ChunkPages
<1> QED BY <1>3, <1>5, <1>6, <1>7 DEF HeapInd

\* Every step of the region keeps the invariant.
LEMMA HeapIndStep ==
    ASSUME HeapInd, [HeapNext]_heapVars
    PROVE  HeapInd'
<1> USE ThreadAssumption, BootPagesAssumption, StackPagesAssumption, SizesAssumption,
        MaxPagesAssumption
<1>1. CASE process_create_idle
    <2>1. Idle \in Thread /\ Counted(Idle) = 1
        BY DEF Thread, Counted
    <2> QED BY <1>1, <2>1, CreateStackInd DEF process_create_idle
<1>2. CASE \E n \in Sizes : sbrk(n)
    BY <1>2, SbrkInd
<1>3. CASE \E t \in Process : CreateKernelStack(t)
    <2>1. \A t \in Process : t \in Thread /\ Counted(t) = STACK_PAGES
        BY DEF Thread, Counted
    <2> QED BY <1>3, <2>1, CreateStackInd DEF CreateKernelStack
<1>4. CASE \E t \in Process :
               stack[t] # NoStack /\ (DeleteKernelStack(t) \/ AbandonKernelStack(t))
    BY <1>4, DropStackInd
<1>5. CASE UNCHANGED heapVars
    BY <1>5 DEF heapVars, HeapInd, HeapTypeOK, Apart, GuardsBelow, InteriorMapped,
                      StackPages, Top, Counted
<1> QED BY <1>1, <1>2, <1>3, <1>4, <1>5 DEF HeapNext

\* The invariant holds in every reachable state.
THEOREM HeapInvariant == HeapSpec => []HeapInd
<1> USE ThreadAssumption, BootPagesAssumption, StackPagesAssumption, SizesAssumption,
        MaxPagesAssumption
<1>1. HeapInd /\ [HeapNext]_heapVars => HeapInd'
    BY HeapIndStep
<1> QED BY <1>1, HeapIndInit, PTL DEF HeapSpec

\* What is in use in the kernel's region is mapped, apart from the first page of a
\* piece of heap and the last one of a stack (process_thread_exit deletes both).
THEOREM InteriorIsMapped == HeapSpec => []InteriorMapped
BY HeapInvariant, PTL DEF HeapInd

\* Regions that are apart by the code's count share at most a stack's topmost page.
LEMMA ApartOverlap == HeapInd => OverlapOnlyTop
<1> USE ThreadAssumption, BootPagesAssumption, StackPagesAssumption, SizesAssumption,
        MaxPagesAssumption
<1> SUFFICES ASSUME HeapInd PROVE OverlapOnlyTop
    OBVIOUS
<1>0. /\ chunks \subseteq [base : KPage, len : 1..MaxPages]
      /\ stack \in [Thread -> KPage \cup {NoStack}]
      /\ Apart
    BY DEF HeapInd, HeapTypeOK
<1>1. \A t \in Thread : \A p \in StackPages(t) :
          /\ stack[t] # NoStack /\ stack[t] \in KPage /\ p \in Int
          /\ p # Top(t) => stack[t] =< p /\ p < stack[t] + Counted(t)
    <2> SUFFICES ASSUME NEW t \in Thread, NEW p \in StackPages(t)
                 PROVE  /\ stack[t] # NoStack /\ stack[t] \in KPage /\ p \in Int
                        /\ p # Top(t) => stack[t] =< p /\ p < stack[t] + Counted(t)
        OBVIOUS
    <2>1. stack[t] # NoStack /\ stack[t] \in KPage
        BY <1>0 DEF StackPages
    <2>2. CASE t \in {IST, Idle}
        BY <2>1, <2>2 DEF StackPages, Counted, KPage
    <2>3. CASE t \notin {IST, Idle}
        BY <2>1, <2>3 DEF StackPages, Counted, KPage, Top
    <2> QED BY <2>2, <2>3
<1>2. \A c, d \in chunks : c # d => ChunkPages(c) \cap ChunkPages(d) = {}
    BY <1>0 DEF Apart, ChunkPages, KPage
<1>3. \A c \in chunks, t \in Thread : ChunkPages(c) \cap StackPages(t) \subseteq {Top(t)}
    <2> SUFFICES ASSUME NEW c \in chunks, NEW t \in Thread, NEW p \in StackPages(t),
                        p \in ChunkPages(c), p # Top(t)
                 PROVE  FALSE
        OBVIOUS
    <2>1. c.base =< p /\ p < c.base + c.len
        BY <1>0 DEF ChunkPages, KPage
    <2> QED BY <1>0, <1>1, <2>1 DEF Apart, KPage, Counted
<1>4. \A t, u \in Thread :
          t # u => StackPages(t) \cap StackPages(u) \subseteq {Top(t), Top(u)}
    <2> SUFFICES ASSUME NEW t \in Thread, NEW u \in Thread, t # u,
                        NEW p \in StackPages(t), p \in StackPages(u), p # Top(t), p # Top(u)
                 PROVE  FALSE
        OBVIOUS
    <2> QED BY <1>0, <1>1 DEF Apart, KPage, Counted
<1> QED BY <1>2, <1>3, <1>4 DEF OverlapOnlyTop

\* sbrk never hands out a page twice, and of a kernel stack at most the topmost page
\* is shared with the heap or another stack.
THEOREM OnlyTopsOverlap == HeapSpec => []OverlapOnlyTop
BY HeapInvariant, ApartOverlap, PTL
-----------------------------------------------------------------------------
\* Counting: the k-th free frame exists and differs from the others, and the numbers which
\* a call gives to its new tables and pages are those from 1 up, each given once.

\* A subset of a finite set is finite and, if proper, has fewer elements.
LEMMA FewerElements ==
    ASSUME NEW T, IsFiniteSet(T), NEW S, S \subseteq T
    PROVE  /\ IsFiniteSet(S)
           /\ Cardinality(S) \in Nat /\ Cardinality(T) \in Nat
           /\ Cardinality(S) =< Cardinality(T)
           /\ \A x \in T : x \notin S => Cardinality(S) < Cardinality(T)
<1>1. /\ IsFiniteSet(S) /\ Cardinality(S) =< Cardinality(T)
      /\ Cardinality(T) = Cardinality(S) => T = S
    BY FS_Subset
<1>2. Cardinality(S) \in Nat /\ Cardinality(T) \in Nat
    BY <1>1, FS_CardinalityType
<1>3. ASSUME NEW x \in T, x \notin S PROVE Cardinality(S) # Cardinality(T)
    BY <1>1, <1>3
<1> QED BY <1>1, <1>2, <1>3

\* The elements of a finite set of numbers have the ranks 0, 1, 2, ..., each once.
LEMMA Ranks ==
    ASSUME NEW S, IsFiniteSet(S), S \subseteq Nat
    PROVE  /\ \A f, g \in S : f < g => Cardinality({x \in S : x < f})
                                       < Cardinality({x \in S : x < g})
           /\ \A k \in 1..Cardinality(S) :
                  \E f \in S : Cardinality({x \in S : x < f}) = k - 1
<1> DEFINE below(f) == {x \in S : x < f}
           n == Cardinality(S)
           rank == [f \in S |-> Cardinality(below(f)) + 1]
<1>1. ASSUME NEW f \in S PROVE Cardinality(below(f)) \in Nat /\ Cardinality(below(f)) < n
    <2>1. below(f) \subseteq S /\ f \notin below(f) OBVIOUS
    <2> HIDE DEF below
    <2> QED BY <2>1, FewerElements
<1>2. ASSUME NEW f \in S, NEW g \in S, f < g
      PROVE  Cardinality(below(f)) < Cardinality(below(g))
    <2>0. ~(f < f) /\ \A x \in S : x < f => x < g
        BY <1>2
    <2>1. below(f) \subseteq below(g) /\ f \in below(g) /\ f \notin below(f)
        BY <1>2, <2>0
    <2>2. IsFiniteSet(below(g))
        <3>1. below(g) \subseteq S OBVIOUS
        <3> HIDE DEF below
        <3> QED BY <3>1, FewerElements
    <2> HIDE DEF below
    <2> QED BY <2>1, <2>2, FewerElements
<1>3. n \in Nat
    BY FS_CardinalityType
<1> HIDE DEF below, n
<1>4. rank \in Injection(S, 1..n)
    <2>1. rank \in [S -> 1..n]
        BY <1>1, <1>3
    <2>2. ASSUME NEW f \in S, NEW g \in S, rank[f] = rank[g] PROVE f = g
        <3>1. CASE f < g
            BY <1>1, <1>2, <2>2, <3>1
        <3>2. CASE g < f
            BY <1>1, <1>2, <2>2, <3>2
        <3> QED BY <3>1, <3>2
    <2> QED BY <2>1, <2>2, Fun_IsInj
<1>5. IsFiniteSet(1..n) /\ Cardinality(1..n) = n
    BY <1>3, FS_Interval
<1>6. rank \in Surjection(S, 1..n)
    BY <1>4, <1>5, FS_Injection DEF n
<1>7. ASSUME NEW k \in 1..n PROVE \E f \in S : Cardinality(below(f)) = k - 1
    <2>1. PICK f \in S : rank[f] = k
        BY <1>6, Zenon DEF Surjection
    <2> QED BY <2>1, <1>1, <1>3
<1> QED BY <1>2, <1>7 DEF below, n

\* Min is the least element: NewFrames hands out the lowest free frames.
LEMMA Least ==
    ASSUME NEW S, IsFiniteSet(S), S \subseteq Nat, S # {}
    PROVE  Min(S) \in S /\ \A x \in S : Min(S) =< x
<1>1. Cardinality(S) \in Nat /\ Cardinality(S) # 0
    BY FS_CardinalityType, FS_EmptySet
<1>2. PICK f \in S : Cardinality({x \in S : x < f}) = 0
    <2>1. \A k \in 1..Cardinality(S) : \E f \in S : Cardinality({x \in S : x < f}) = k - 1
        BY Ranks
    <2>2. 1 \in 1..Cardinality(S) /\ 1 - 1 = 0
        BY <1>1
    <2> QED BY <2>1, <2>2
<1>3. IsFiniteSet({x \in S : x < f})
    <2>1. {x \in S : x < f} \subseteq S OBVIOUS
    <2> QED BY <2>1, FewerElements
<1>4. {x \in S : x < f} = {}
    BY <1>2, <1>3, FS_EmptySet
<1>5. \A x \in S : f =< x
    BY <1>4
<1> QED BY <1>5 DEF Min

\* What division and multiplication by a page's or a table's size do.
LEMMA DivFacts ==
    ASSUME NEW d \in Nat \ {0}, NEW v \in Nat
    PROVE  /\ v \div d \in Nat /\ v % d \in 0..(d - 1)
           /\ v = d * (v \div d) + (v % d)
OBVIOUS
\* Multiples of d are at least d apart.
LEMMA Times ==
    ASSUME NEW d \in Nat \ {0}, NEW a \in Nat, NEW b \in Nat, a < b
    PROVE  d * a + d =< d * b
<1>1. PICK k \in Nat : b = a + 1 + k
   <2>1. b - a - 1 \in Nat /\ b = a + 1 + (b - a - 1) OBVIOUS
   <2> QED BY <2>1
<1>2. d * b = d * a + d + d * k
   BY <1>1
<1>3. d * k \in Nat /\ d * a \in Nat
   OBVIOUS
<1> QED BY <1>2, <1>3
\* Division by a page table's size keeps the order of pages.
LEMMA DivMono ==
    ASSUME NEW d \in Nat \ {0}, NEW v \in Nat, NEW w \in Nat, v =< w
    PROVE  v \div d =< w \div d
<1> DEFINE a == v \div d
           b == w \div d
           r == v % d
           s == w % d
<1>1. a \in Nat /\ b \in Nat /\ r \in 0..(d-1) /\ s \in 0..(d-1) /\ v = d * a + r /\ w = d * b + s
   BY DivFacts
<1> HIDE DEF a, b, r, s
<1>2. SUFFICES ASSUME b < a PROVE FALSE
   BY <1>1 DEF a, b
<1>3. d * b + d =< d * a
   BY <1>1, <1>2, Times
<1>4. d * b \in Nat /\ d * a \in Nat 
   BY <1>1
<1> QED BY <1>1, <1>3, <1>4

-----------------------------------------------------------------------------
\* The order in which one call gives its new tables and pages their frames: the
\* numbers 1..n, each given once.
LEMMA TableOfFacts ==
    ASSUME NEW v \in Page
    PROVE  /\ v \in Nat /\ TableOf(v) \in Table
           /\ \A w \in Page : v =< w => TableOf(v) =< TableOf(w)
<1>0. v \in Nat /\ TableSize \in Nat \ {0} /\ Tables \in Nat \ {0}
    BY SizeAssumption DEF Page
<1> DEFINE a == v \div TableSize
<1>1. a \in Nat /\ v % TableSize \in 0..(TableSize - 1) /\ v = TableSize * a + (v % TableSize)
    BY <1>0, DivFacts
<1>2. a < Tables
    <2> HIDE DEF a
    <2>1. SUFFICES ASSUME Tables < a \/ Tables = a PROVE FALSE
        BY <1>0, <1>1
    <2>2. TableSize * Tables =< TableSize * a
        <3>1. CASE Tables < a
            <4>1. TableSize * Tables + TableSize =< TableSize * a
                BY <1>0, <1>1, <3>1, Times
            <4>2. TableSize * Tables \in Nat /\ TableSize * a \in Nat
                BY <1>0, <1>1
            <4> QED BY <4>1, <4>2, <1>0
        <3>2. CASE Tables = a
            BY <1>0, <1>1, <3>2
        <3> QED BY <2>1, <3>1, <3>2
    <2>3. TableSize * Tables \in Nat /\ TableSize * a \in Nat /\ TableSize * Tables = Tables * TableSize
        BY <1>0, <1>1
    <2>4. v < Tables * TableSize
        BY <2>3 DEF Page
    <2> QED BY <1>0, <1>1, <2>2, <2>3, <2>4
<1>3. \A w \in Page : v =< w => TableOf(v) =< TableOf(w)
    BY <1>0, DivMono, SizeAssumption DEF Page, TableOf
<1> QED BY <1>0, <1>1, <1>2, <1>3 DEF TableOf, Table

\* Pages and tables are finite sets of numbers, so every set of them can be counted.
LEMMA PagesFinite ==
    /\ IsFiniteSet(Page) /\ IsFiniteSet(Table) /\ Page \subseteq Nat /\ Table \subseteq Nat
    /\ \A S \in SUBSET Page : IsFiniteSet(S) /\ Cardinality(S) \in Nat
    /\ \A S \in SUBSET Table : IsFiniteSet(S) /\ Cardinality(S) \in Nat
<1>1. Tables - 1 \in Int /\ Tables * TableSize - 1 \in Int
    BY SizeAssumption
<1>2. IsFiniteSet(Page) /\ IsFiniteSet(Table)
    BY <1>1, FS_Interval DEF Page, Table
<1>3. Page \subseteq Nat /\ Table \subseteq Nat
    BY <1>1 DEF Page, Table
<1>4. \A S \in SUBSET Page : IsFiniteSet(S) /\ Cardinality(S) \in Nat
    BY <1>2, FewerElements
<1>5. \A S \in SUBSET Table : IsFiniteSet(S) /\ Cardinality(S) \in Nat
    BY <1>2, FewerElements
<1> QED BY <1>2, <1>3, <1>4, <1>5

\* A count that is no larger in either part, and smaller in one, is smaller.
LEMMA SumOfCounts ==
    ASSUME NEW A \in SUBSET Page, NEW B \in SUBSET Page, A \subseteq B,
           NEW C \in SUBSET Table, NEW D \in SUBSET Table, C \subseteq D
    PROVE  /\ Cardinality(A) + Cardinality(C) \in Nat
           /\ Cardinality(A) + Cardinality(C) =< Cardinality(B) + Cardinality(D)
           /\ (A # B \/ C # D) => Cardinality(A) + Cardinality(C) < Cardinality(B) + Cardinality(D)
<1>1. IsFiniteSet(B) /\ IsFiniteSet(D)
    BY PagesFinite
<1>2. /\ Cardinality(A) \in Nat /\ Cardinality(B) \in Nat
      /\ Cardinality(C) \in Nat /\ Cardinality(D) \in Nat
    BY PagesFinite
<1>3. Cardinality(A) =< Cardinality(B) /\ (A # B => Cardinality(A) # Cardinality(B))
    BY <1>1, FS_Subset
<1>4. Cardinality(C) =< Cardinality(D) /\ (C # D => Cardinality(C) # Cardinality(D))
    BY <1>1, FS_Subset
<1> QED BY <1>2, <1>3, <1>4

\* The order in which memmgr_map visits pages and missing tables numbers them without
\* a gap or a repetition: no two of them get the same frame.
LEMMA Numbers ==
    ASSUME NEW pages \in SUBSET Page, NEW tables \in SUBSET Table
    PROVE  LET n == Cardinality(pages) + Cardinality(tables)
               P(v) == NthPage(pages, tables, v)
               T(t) == NthTable(pages, tables, t)
           IN  /\ n \in Nat
               /\ \A v \in pages : P(v) \in 1..n
               /\ \A t \in tables : T(t) \in 1..n
               /\ \A v, w \in pages : P(v) = P(w) => v = w
               /\ \A t, u \in tables : T(t) = T(u) => t = u
               /\ \A v \in pages, t \in tables : P(v) # T(t)
<1> DEFINE n == Cardinality(pages) + Cardinality(tables)
           P(v) == NthPage(pages, tables, v)
           T(t) == NthTable(pages, tables, t)
           upto(v) == {w \in pages : w =< v}
           before(t) == {w \in pages : TableOf(w) < t}
           uptoT(t) == {u \in tables : u =< t}
<1>0. \A v \in pages : /\ upto(v) \subseteq pages /\ before(v) \subseteq pages
                       /\ uptoT(TableOf(v)) \subseteq tables
    OBVIOUS
<1>1. \A t \in tables : uptoT(t) \subseteq tables /\ before(t) \subseteq pages
    OBVIOUS
<1>m. /\ \A v, w : w \in upto(v) <=> w \in pages /\ w =< v
      /\ \A t, w : w \in before(t) <=> w \in pages /\ TableOf(w) < t
      /\ \A t, u : u \in uptoT(t) <=> u \in tables /\ u =< t
    OBVIOUS
<1>n. /\ \A v \in pages : v \in Nat /\ TableOf(v) \in Nat
      /\ \A v, w \in pages : v =< w => TableOf(v) =< TableOf(w)
      /\ \A t \in tables : t \in Nat
    BY TableOfFacts, PagesFinite DEF Table
<1>2. \A v \in pages : /\ P(v) = Cardinality(upto(v)) + Cardinality(uptoT(TableOf(v)))
                       /\ v \in upto(v) /\ v \in Nat /\ TableOf(v) \in Nat
    BY <1>n DEF NthPage
<1>3. \A t \in tables : /\ T(t) = Cardinality(before(t)) + Cardinality(uptoT(t))
                        /\ t \in uptoT(t) /\ t \in Nat
    BY <1>n DEF NthTable
<1> HIDE DEF upto, before, uptoT
<1>4. n \in Nat
    BY PagesFinite
<1>5. ASSUME NEW A, NEW C, A \subseteq pages, C \subseteq tables, A # {} \/ C # {}
      PROVE  Cardinality(A) + Cardinality(C) \in 1..n
    <2>1. Cardinality(A) + Cardinality(C) \in Nat /\ Cardinality(A) + Cardinality(C) =< n
        BY <1>5, SumOfCounts
    <2>2. Cardinality({}) + Cardinality({}) < Cardinality(A) + Cardinality(C)
        <3>1. {} \in SUBSET Page /\ {} \in SUBSET Table OBVIOUS
        <3> QED BY <1>5, <3>1, SumOfCounts
    <2> QED BY <1>4, <2>1, <2>2, FS_EmptySet
<1>6. \A v \in pages : P(v) \in 1..n
    <2> TAKE v \in pages
    <2>1. upto(v) # {} BY <1>2
    <2> HIDE DEF n, P
    <2> QED BY <1>0, <1>2, <1>5, <2>1
<1>7. \A t \in tables : T(t) \in 1..n
    <2> TAKE t \in tables
    <2>1. uptoT(t) # {} BY <1>3
    <2> HIDE DEF n, T
    <2> QED BY <1>1, <1>3, <1>5, <2>1
<1>8. ASSUME NEW v \in pages, NEW w \in pages, v < w PROVE P(v) < P(w)
    <2>1. TableOf(v) =< TableOf(w)
        BY <1>8, <1>n
    <2>2. upto(v) \subseteq upto(w) /\ w \in upto(w) /\ w \notin upto(v)
        BY <1>8, <1>m, <1>n
    <2>3. uptoT(TableOf(v)) \subseteq uptoT(TableOf(w))
        BY <2>1, <1>m, <1>n
    <2> HIDE DEF P
    <2>4. upto(v) # upto(w) BY <2>2
    <2> QED BY <1>0, <1>2, <2>2, <2>3, <2>4, SumOfCounts
<1>9. ASSUME NEW t \in tables, NEW u \in tables, t < u PROVE T(t) < T(u)
    <2>2. uptoT(t) \subseteq uptoT(u) /\ u \in uptoT(u) /\ u \notin uptoT(t)
        BY <1>9, <1>m, <1>n
    <2>3. before(t) \subseteq before(u)
        BY <1>9, <1>m, <1>n
    <2> HIDE DEF T
    <2>4. uptoT(t) # uptoT(u) BY <2>2
    <2> QED BY <1>1, <1>3, <2>2, <2>3, <2>4, SumOfCounts
<1>10. ASSUME NEW v \in pages, NEW t \in tables PROVE P(v) # T(t)
    <2>2. CASE t =< TableOf(v)
        <3>1. before(t) \subseteq upto(v) /\ v \in upto(v) /\ v \notin before(t)
            BY <2>2, <1>m, <1>n
        <3>2. uptoT(t) \subseteq uptoT(TableOf(v))
            BY <2>2, <1>m, <1>n
        <3>3. T(t) < P(v)
            <4> HIDE DEF P, T
            <4>1. before(t) # upto(v) BY <3>1
            <4> QED BY <1>0, <1>1, <1>2, <1>3, <3>1, <3>2, <4>1, SumOfCounts
        <3> HIDE DEF P, T
        <3> QED BY <3>3, <1>6, <1>7, <1>4
    <2>3. CASE TableOf(v) < t
        <3>1. upto(v) \subseteq before(t)
            BY <2>3, <1>m, <1>n
        <3>2. uptoT(TableOf(v)) \subseteq uptoT(t) /\ t \in uptoT(t) /\ t \notin uptoT(TableOf(v))
            BY <2>3, <1>m, <1>n
        <3>3. P(v) < T(t)
            <4> HIDE DEF P, T
            <4>1. uptoT(TableOf(v)) # uptoT(t) BY <3>2
            <4> QED BY <1>0, <1>1, <1>2, <1>3, <3>1, <3>2, <4>1, SumOfCounts
        <3> HIDE DEF P, T
        <3> QED BY <3>3, <1>6, <1>7, <1>4
    <2> QED BY <2>2, <2>3, <1>n
<1>11. ASSUME NEW v \in pages, NEW w \in pages, P(v) = P(w) PROVE v = w
    <2> HIDE DEF P
    <2>1. ~(v < w) /\ ~(w < v)
        BY <1>4, <1>6, <1>8, <1>11
    <2> QED BY <2>1, <1>n
<1>12. ASSUME NEW t \in tables, NEW u \in tables, T(t) = T(u) PROVE t = u
    <2> HIDE DEF T
    <2>1. ~(t < u) /\ ~(u < t)
        BY <1>4, <1>7, <1>9, <1>12
    <2> QED BY <2>1, <1>n
<1> HIDE DEF n, P, T
<1>13. /\ n \in Nat
       /\ \A v \in pages : P(v) \in 1..n
       /\ \A t \in tables : T(t) \in 1..n
       /\ \A v, w \in pages : P(v) = P(w) => v = w
       /\ \A t, u \in tables : T(t) = T(u) => t = u
       /\ \A v \in pages, t \in tables : P(v) # T(t)
    BY <1>4, <1>6, <1>7, <1>10, <1>11, <1>12
<1> QED BY <1>13 DEF n, P, T

-----------------------------------------------------------------------------
\* What kalloc_frame returns in a row of calls: frames that are not in use, and never
\* the same one twice.
LEMMA FreshFrames ==
    ASSUME memory_map \subseteq Frame
    PROVE  /\ Cardinality(Frame \ memory_map) \in Nat
           /\ \A k \in 1..Cardinality(Frame \ memory_map) : kalloc_frame(k) \in Frame \ memory_map
           /\ \A k, l \in 1..Cardinality(Frame \ memory_map) :
                  kalloc_frame(k) = kalloc_frame(l) => k = l
<1> DEFINE F == Frame \ memory_map
<1>1. IsFiniteSet(F) /\ F \subseteq Nat /\ Cardinality(F) \in Nat
    BY FrameAssumption, FewerElements
<1>2. ASSUME NEW k \in 1..Cardinality(F)
      PROVE  kalloc_frame(k) \in F /\ Cardinality({g \in F : g < kalloc_frame(k)}) = k - 1
    <2> HIDE DEF F
    <2>1. \E f \in F : Cardinality({g \in F : g < f}) = k - 1
        BY <1>1, Ranks
    <2>2. kalloc_frame(k) = CHOOSE f \in F : Cardinality({g \in F : g < f}) = k - 1
        BY DEF kalloc_frame, F
    <2> QED BY <2>1, <2>2
<1>3. ASSUME NEW k \in 1..Cardinality(F), NEW l \in 1..Cardinality(F), kalloc_frame(k) = kalloc_frame(l)
      PROVE  k = l
    <2>1. k - 1 = l - 1
        BY <1>2, <1>3
    <2> QED BY <2>1, <1>1
<1> QED BY <1>1, <1>2, <1>3

\* The frames a call takes: m at first, and one for each of its tables and pages.
LEMMA NewFrames ==
    ASSUME memory_map \subseteq Frame, NEW m \in Nat,
           NEW pages \in SUBSET Page, NEW tables \in SUBSET Table,
           Suffices(m + Cardinality(pages) + Cardinality(tables))
    PROVE  LET n == m + Cardinality(pages) + Cardinality(tables)
               P(v) == kalloc_frame(m + NthPage(pages, tables, v))
               T(t) == kalloc_frame(m + NthTable(pages, tables, t))
               F == {kalloc_frame(k) : k \in 1..m}
           IN  /\ \A v \in pages : P(v) \in Frame \ memory_map /\ P(v) \notin F
               /\ \A t \in tables : T(t) \in Frame \ memory_map /\ T(t) \notin F
               /\ F \subseteq Frame \ memory_map
               /\ \A v, w \in pages : P(v) = P(w) => v = w
               /\ \A t, u \in tables : T(t) = T(u) => t = u
               /\ \A v \in pages, t \in tables : P(v) # T(t)
               /\ \A x : x \in {kalloc_frame(k) : k \in 1..n} <=>
                      x \in F \/ (\E v \in pages : x = P(v)) \/ (\E t \in tables : x = T(t))
<1> DEFINE c == Cardinality(pages) + Cardinality(tables)
           n == m + Cardinality(pages) + Cardinality(tables)
           NP(v) == NthPage(pages, tables, v)
           NT(t) == NthTable(pages, tables, t)
           F == {kalloc_frame(k) : k \in 1..m}
           N == Cardinality(Frame \ memory_map)
<1>1. /\ c \in Nat
      /\ \A v \in pages : NP(v) \in 1..c
      /\ \A t \in tables : NT(t) \in 1..c
      /\ \A v, w \in pages : NP(v) = NP(w) => v = w
      /\ \A t, u \in tables : NT(t) = NT(u) => t = u
      /\ \A v \in pages, t \in tables : NP(v) # NT(t)
    BY Numbers
<1>2. /\ N \in Nat
      /\ \A k \in 1..N : kalloc_frame(k) \in Frame \ memory_map
      /\ \A k, l \in 1..N : kalloc_frame(k) = kalloc_frame(l) => k = l
    BY FreshFrames
<1>3. n \in Nat /\ n =< N /\ n = m + c
    <2>1. Cardinality(pages) \in Nat /\ Cardinality(tables) \in Nat
        BY PagesFinite
    <2> QED BY <1>2, <2>1 DEF Suffices
\* Ontoness, by counting: c tables and pages have c numbers.
<1>4. \A k \in 1..c : (\E v \in pages : NP(v) = k) \/ (\E t \in tables : NT(t) = k)
    <2> DEFINE D == pages \cup {-1 - t : t \in tables}
               num == [d \in D |-> IF d \in pages THEN NP(d) ELSE NT(-1 - d)]
               neg == [t \in tables |-> -1 - t]
    <2>1. /\ \A t \in tables : t \in Nat /\ -1 - (-1 - t) = t /\ -1 - t \notin pages
          /\ \A t, u \in tables : -1 - t = -1 - u => t = u
        BY PagesFinite
    <2>2. IsFiniteSet(D) /\ Cardinality(D) = c
        <3>1. IsFiniteSet(pages) /\ IsFiniteSet(tables) /\ Cardinality(pages) \in Nat /\ Cardinality(tables) \in Nat
            BY PagesFinite
        <3> DEFINE M == {-1 - t : t \in tables}
        <3>2. neg \in Bijection(tables, M)
            <4>1. neg \in [tables -> M] OBVIOUS
            <4>2. \A t, u \in tables : neg[t] = neg[u] => t = u
                BY <2>1
            <4>3. \A x \in M : \E t \in tables : neg[t] = x
                OBVIOUS
            <4> HIDE DEF neg, M
            <4> QED BY <4>1, <4>2, <4>3, Fun_IsBij
        <3>3. IsFiniteSet(M) /\ Cardinality(M) = Cardinality(tables)
            <4> HIDE DEF neg, M
            <4>1. ExistsBijection(tables, M)
                BY <3>2, Fun_ExistsBij
            <4> QED BY <4>1, <3>1, FS_Bijection
        <3>4. pages \cap M = {}
            BY <2>1
        <3>5. D = pages \cup M OBVIOUS
        <3> HIDE DEF M, D
        <3>6. /\ IsFiniteSet(D)
              /\ Cardinality(D) = Cardinality(pages) + Cardinality(M) - Cardinality(pages \cap M)
            BY <3>1, <3>3, <3>5, FS_Union
        <3>7. Cardinality(pages \cap M) = 0
            BY <3>4, FS_EmptySet
        <3> QED BY <3>1, <3>3, <3>6, <3>7
    <2>3. \A d \in D : d \in pages \/ \E t \in tables : d = -1 - t
        OBVIOUS
    <2> HIDE DEF D, c, NP, NT
    <2>4. \A v \in pages : v \in D => num[v] = NP(v)
        OBVIOUS
    <2>5. \A t \in tables : -1 - t \in D => num[-1 - t] = NT(t)
        BY <2>1
    <2> HIDE DEF num
    <2>6. \A d \in D : num[d] \in 1..c
        BY <1>1, <2>3, <2>4, <2>5
    <2>7. ASSUME NEW d \in D, NEW e \in D, num[d] = num[e] PROVE d = e
        BY <1>1, <2>3, <2>4, <2>5, <2>7
    <2>8. num \in [D -> 1..c]
        BY <2>6 DEF num
    <2>9. num \in Injection(D, 1..c)
        BY <2>7, <2>8, Fun_IsInj
    <2>10. IsFiniteSet(1..c) /\ Cardinality(1..c) = c
        BY <1>1, FS_Interval
    <2>11. num \in Surjection(D, 1..c)
        BY <2>2, <2>9, <2>10, FS_Injection
    <2>12. \A k \in 1..c : \E d \in D : num[d] = k
        BY <2>11, Zenon DEF Surjection
    <2> QED BY <2>12, <2>3, <2>4, <2>5
<1> HIDE DEF c, n, NP, NT, N
<1>5. \A v \in pages : m + NP(v) \in 1..N /\ m + NP(v) \in 1..n /\ m + NP(v) \notin 1..m
    BY <1>1, <1>2, <1>3
<1>6. \A t \in tables : m + NT(t) \in 1..N /\ m + NT(t) \in 1..n /\ m + NT(t) \notin 1..m
    BY <1>1, <1>2, <1>3
<1>7. \A k \in 1..m : k \in 1..N /\ k \in 1..n
    BY <1>1, <1>2, <1>3
<1>8. \A k \in 1..n : k \in 1..m \/ (\E v \in pages : m + NP(v) = k) \/ (\E t \in tables : m + NT(t) = k)
    <2> TAKE k \in 1..n
    <2>1. CASE k =< m
        BY <2>1, <1>3
    <2>2. CASE m < k
        <3>1. k - m \in 1..c /\ m + (k - m) = k
            BY <2>2, <1>1, <1>3
        <3> QED BY <3>1, <1>4
    <2> QED BY <2>1, <2>2, <1>3
<1>9. \A v, w \in pages : m + NP(v) = m + NP(w) => v = w
    BY <1>1
<1>10. \A t, u \in tables : m + NT(t) = m + NT(u) => t = u
    BY <1>1
<1>11. \A v \in pages, t \in tables : m + NP(v) # m + NT(t)
    BY <1>1
<1>12. /\ \A v \in pages : /\ kalloc_frame(m + NP(v)) \in Frame \ memory_map
                            /\ kalloc_frame(m + NP(v)) \notin F
       /\ \A t \in tables : /\ kalloc_frame(m + NT(t)) \in Frame \ memory_map
                             /\ kalloc_frame(m + NT(t)) \notin F
       /\ F \subseteq Frame \ memory_map
    <2> QED BY <1>2, <1>5, <1>6, <1>7, Zenon
<1>13. /\ \A v, w \in pages : kalloc_frame(m + NP(v)) = kalloc_frame(m + NP(w)) => v = w
       /\ \A t, u \in tables : kalloc_frame(m + NT(t)) = kalloc_frame(m + NT(u)) => t = u
       /\ \A v \in pages, t \in tables : kalloc_frame(m + NP(v)) # kalloc_frame(m + NT(t))
    BY <1>2, <1>5, <1>6, <1>9, <1>10, <1>11, Zenon
<1>14. \A x : x \in {kalloc_frame(k) : k \in 1..n} <=>
           \/ x \in F
           \/ \E v \in pages : x = kalloc_frame(m + NP(v))
           \/ \E t \in tables : x = kalloc_frame(m + NT(t))
    BY <1>5, <1>6, <1>7, <1>8, Zenon
<1> QED BY <1>12, <1>13, <1>14 DEF n, NP, NT

-----------------------------------------------------------------------------
\* The books of the frames when only the address space of c changes.
SameSpace(q) == upper'[q] = upper[q] /\ table'[q] = table[q] /\ entry'[q] = entry[q]

\* What a process holds is read off its own space only.
LEMMA SpacesKept ==
    ASSUME NEW q \in Process, SameSpace(q)
    PROVE  Held(q)' = Held(q) /\ (Once(q) => Once(q)')
<1>1. UserPages(q)' = UserPages(q) /\ UserTables(q)' = UserTables(q)
    BY DEF SameSpace, UserPages, UserTables
<1>2. Held(q)' = Held(q)
    BY <1>1 DEF SameSpace, Held
<1>3. Once(q) => Once(q)'
    BY <1>1 DEF SameSpace, Once
<1> QED BY <1>2, <1>3

\* A step that touches no space and no frame keeps the books of frames right.
LEMMA FramesKept ==
    ASSUME FramesAgree, memory_map' = memory_map, \A q \in Process : SameSpace(q),
           \A q \in Process : status'[q] = "free" => status[q] = "free"
    PROVE  FramesAgree'
<1>1. \A q \in Process : Held(q)' = Held(q) /\ (Once(q) => Once(q)')
    BY SpacesKept
<1>2. \A q \in Process : Once(q)'
    BY <1>1 DEF FramesAgree
<1>3. UNION {Held(q)' : q \in Process} = UNION {Held(q) : q \in Process}
    BY <1>1
<1>4. memory_map' = UNION {Held(q)' : q \in Process}
    BY <1>3 DEF FramesAgree
<1>5. \A p, q \in Process : p # q => Held(p)' \cap Held(q)' = {}
    BY <1>1 DEF FramesAgree
<1>6. \A q \in Process : status'[q] = "free" => Held(q)' = {}
    BY <1>1 DEF FramesAgree
<1> QED BY <1>2, <1>4, <1>5, <1>6 DEF FramesAgree

\* Frames that were free and go to one process keep the books right.
LEMMA GrowFrames ==
    ASSUME FramesAgree, NEW c \in Process, NEW N, N \cap memory_map = {},
           \A q \in Process \ {c} : SameSpace(q),
           Held(c)' = Held(c) \cup N, Once(c)', memory_map' = memory_map \cup N,
           \A q \in Process : status'[q] = "free" => q # c /\ status[q] = "free"
    PROVE  FramesAgree'
<1> DEFINE H(q) == Held(q)
           G(q) == Held(q)'
<1>1. \A q \in Process \ {c} : G(q) = H(q) /\ Once(q)'
    BY SpacesKept DEF FramesAgree
<1>2. G(c) = H(c) \cup N
    OBVIOUS
<1>3. /\ memory_map = UNION {H(q) : q \in Process}
      /\ \A p, q \in Process : p # q => H(p) \cap H(q) = {}
      /\ \A q \in Process : status[q] = "free" => H(q) = {}
    BY DEF FramesAgree
<1> HIDE DEF H, G
<1>4. \A p, q \in Process : p # q => G(p) \cap G(q) = {}
    <2> SUFFICES ASSUME NEW p \in Process, NEW q \in Process, p # q, NEW x \in G(p), x \in G(q)
                 PROVE  FALSE
        OBVIOUS
    <2>1. \A r \in Process : H(r) \subseteq memory_map
        BY <1>3
    <2>2. CASE p = c
        BY <2>1, <2>2, <1>1, <1>2, <1>3
    <2>3. CASE q = c
        BY <2>1, <2>3, <1>1, <1>2, <1>3
    <2>4. CASE p # c /\ q # c
        BY <2>4, <1>1, <1>3
    <2> QED BY <2>2, <2>3, <2>4
<1>5. memory_map' = UNION {G(q) : q \in Process}
    <2>1. ASSUME NEW x \in memory_map' PROVE x \in UNION {G(q) : q \in Process}
        <3>1. CASE x \in N
            BY <3>1, <1>2
        <3>2. CASE x \in memory_map
            <4>1. PICK q \in Process : x \in H(q)
                BY <3>2, <1>3
            <4>2. x \in G(q)
                BY <4>1, <1>1, <1>2
            <4> QED BY <4>2
        <3> QED BY <2>1, <3>1, <3>2
    <2>2. ASSUME NEW q \in Process, NEW x \in G(q) PROVE x \in memory_map'
        <3>1. x \in H(q) \/ x \in N
            BY <2>2, <1>1, <1>2
        <3> QED BY <3>1, <1>3
    <2> QED BY <2>1, <2>2
<1>6. \A q \in Process : status'[q] = "free" => G(q) = {}
    BY <1>1, <1>3
<1>7. \A q \in Process : Once(q)'
    BY <1>1
<1> QED BY <1>4, <1>5, <1>6, <1>7 DEF FramesAgree, G

\* Frames that one process gives up and that are freed keep the books right.
LEMMA ShrinkFrames ==
    ASSUME FramesAgree, NEW c \in Process, NEW N, N \subseteq Held(c),
           \A q \in Process \ {c} : SameSpace(q),
           Held(c)' = Held(c) \ N, Once(c)', memory_map' = memory_map \ N,
           \A q \in Process : status'[q] = "free" => status[q] = "free" \/ Held(q)' = {}
    PROVE  FramesAgree'
<1> DEFINE H(q) == Held(q)
           G(q) == Held(q)'
<1>1. \A q \in Process \ {c} : G(q) = H(q) /\ Once(q)'
    BY SpacesKept DEF FramesAgree
<1>2. G(c) = H(c) \ N /\ N \subseteq H(c)
    OBVIOUS
<1>3. /\ memory_map = UNION {H(q) : q \in Process}
      /\ \A p, q \in Process : p # q => H(p) \cap H(q) = {}
      /\ \A q \in Process : status[q] = "free" => H(q) = {}
      /\ \A q \in Process : status'[q] = "free" => status[q] = "free" \/ G(q) = {}
    BY DEF FramesAgree
<1> HIDE DEF H, G
<1>4. \A p, q \in Process : p # q => G(p) \cap G(q) = {}
    <2>1. \A q \in Process : G(q) \subseteq H(q)
        BY <1>1, <1>2
    <2> QED BY <2>1, <1>3
<1>5. memory_map' = UNION {G(q) : q \in Process}
    <2>1. ASSUME NEW x \in memory_map' PROVE x \in UNION {G(q) : q \in Process}
        <3>1. PICK q \in Process : x \in H(q)
            BY <2>1, <1>3
        <3>2. x \in G(q)
            BY <2>1, <3>1, <1>1, <1>2
        <3> QED BY <3>2
    <2>2. ASSUME NEW q \in Process, NEW x \in G(q) PROVE x \in memory_map'
        <3>1. x \in H(q) /\ x \notin N
            BY <2>2, <1>1, <1>2, <1>3
        <3>2. x \in memory_map
            BY <3>1, <1>3
        <3> QED BY <3>1, <3>2
    <2> QED BY <2>1, <2>2
<1>6. \A q \in Process : status'[q] = "free" => G(q) = {}
    BY <1>1, <1>2, <1>3
<1>7. \A q \in Process : Once(q)'
    BY <1>1
<1> QED BY <1>4, <1>5, <1>6, <1>7 DEF FramesAgree, G

\* What memmgr_create_or_get_page for a range does: free pages get frames or guards,
\* other entries stay, and the frames are accounted for.
LEMMA Created ==
    ASSUME UserTypeOK, FramesAgree, NEW p \in Process, NEW R \in SUBSET Page,
           NEW guards \in SUBSET Page, CreatePages(p, R, guards), upper' = upper
    PROVE  /\ table' \in [Process -> [Table -> Frame \cup {Free}]]
           /\ entry' \in [Process -> [Page -> Frame \cup {Free, Guard}]]
           /\ memory_map' \subseteq Frame
           /\ \A q \in Process \ {p} : SameSpace(q)
           /\ \A v \in R \ guards : entry[p][v] = Free => entry'[p][v] \in Frame
           /\ \A v \in guards : entry[p][v] = Free => entry'[p][v] = Guard
           /\ \A v \in Page : entry[p][v] # Free => entry'[p][v] = entry[p][v]
           /\ (\A q \in Process : status'[q] = "free" => q # p /\ status[q] = "free")
                  => FramesAgree'
<1> DEFINE new == {v \in R \ guards : entry[p][v] = Free}
           tables == {t \in Table : table[p][t] = Free /\ \E v \in new : TableOf(v) = t}
           n == Cardinality(new) + Cardinality(tables)
           P(v) == kalloc_frame(NthPage(new, tables, v))
           T(t) == kalloc_frame(NthTable(new, tables, t))
           N == {kalloc_frame(k) : k \in 1..n}
<1>1. /\ new \in SUBSET Page /\ tables \in SUBSET Table
      /\ new \cap guards = {}
      /\ \A v \in new : entry[p][v] = Free
      /\ \A t \in tables : table[p][t] = Free
      /\ \A v \in R \ guards : entry[p][v] = Free => v \in new
    OBVIOUS
<1>2. /\ Suffices(n)
      /\ entry' = [entry EXCEPT ![p] = [v \in Page |->
               IF v \in new THEN P(v)
               ELSE IF v \in guards /\ entry[p][v] = Free THEN Guard
               ELSE entry[p][v]]]
      /\ table' = [table EXCEPT ![p] = [t \in Table |->
               IF t \in tables THEN T(t) ELSE table[p][t]]]
      /\ memory_map' = memory_map \cup N
    BY DEF CreatePages
<1> HIDE DEF new, tables
<1>3. /\ \A v \in new : P(v) \in Frame \ memory_map
      /\ \A t \in tables : T(t) \in Frame \ memory_map
      /\ \A v, w \in new : P(v) = P(w) => v = w
      /\ \A t, u \in tables : T(t) = T(u) => t = u
      /\ \A v \in new, t \in tables : P(v) # T(t)
      /\ N = {P(v) : v \in new} \cup {T(t) : t \in tables}
    <2>1. Cardinality(new) \in Nat /\ Cardinality(tables) \in Nat
        BY <1>1, PagesFinite
    <2>2. /\ \A v \in new : NthPage(new, tables, v) \in 1..n
          /\ \A t \in tables : NthTable(new, tables, t) \in 1..n
        BY <1>1, Numbers, Zenon
    <2> DEFINE z == 0
               P0(v) == kalloc_frame(z + NthPage(new, tables, v))
               T0(t) == kalloc_frame(z + NthTable(new, tables, t))
               F0 == {kalloc_frame(k) : k \in 1..z}
               N0 == {kalloc_frame(k) : k \in 1..(z + Cardinality(new) + Cardinality(tables))}
    <2>3. /\ z \in Nat /\ z + Cardinality(new) + Cardinality(tables) = n /\ 1..z = {}
          /\ \A v \in new : z + NthPage(new, tables, v) = NthPage(new, tables, v)
          /\ \A t \in tables : z + NthTable(new, tables, t) = NthTable(new, tables, t)
        BY <2>1, <2>2
    <2>4. /\ \A v \in new : P0(v) \in Frame \ memory_map
          /\ \A t \in tables : T0(t) \in Frame \ memory_map
          /\ \A v, w \in new : P0(v) = P0(w) => v = w
          /\ \A t, u \in tables : T0(t) = T0(u) => t = u
          /\ \A v \in new, t \in tables : P0(v) # T0(t)
          /\ \A x : x \in N0 <=> x \in F0 \/ (\E v \in new : x = P0(v)) \/ (\E t \in tables : x = T0(t))
        <3> HIDE DEF n, z
        <3>1. memory_map \subseteq Frame /\ Suffices(z + Cardinality(new) + Cardinality(tables))
            BY <1>2, <2>3 DEF UserTypeOK
        <3>2. z \in Nat /\ new \in SUBSET Page /\ tables \in SUBSET Table
            BY <1>1, <2>3
        <3>a. \A v \in new : P0(v) \in Frame \ memory_map /\ P0(v) \notin F0
            BY <3>1, <3>2, NewFrames
        <3>b. \A t \in tables : T0(t) \in Frame \ memory_map /\ T0(t) \notin F0
            BY <3>1, <3>2, NewFrames
        <3>c. \A v, w \in new : P0(v) = P0(w) => v = w
            BY <3>1, <3>2, NewFrames
        <3>d. \A t, u \in tables : T0(t) = T0(u) => t = u
            BY <3>1, <3>2, NewFrames
        <3>e. \A v \in new, t \in tables : P0(v) # T0(t)
            BY <3>1, <3>2, NewFrames
        <3>f. \A x : x \in N0 <=> x \in F0 \/ (\E v \in new : x = P0(v)) \/ (\E t \in tables : x = T0(t))
            BY <3>1, <3>2, NewFrames
        <3> HIDE DEF P0, T0, F0, N0
        <3> QED BY <3>a, <3>b, <3>c, <3>d, <3>e, <3>f
    <2>5. /\ \A v \in new : P0(v) = P(v)
          /\ \A t \in tables : T0(t) = T(t)
          /\ N0 = N /\ F0 = {}
        <3> HIDE DEF n, z
        <3> QED BY <2>3
    <2> HIDE DEF P0, T0, F0, N0, P, T, N
    <2> QED BY <2>4, <2>5
<1>4. /\ Free \notin Frame /\ Guard \notin Frame /\ Guard # Free
      /\ memory_map \subseteq Frame
      /\ upper \in [Process -> SUBSET Frame]
      /\ table \in [Process -> [Table -> Frame \cup {Free}]]
      /\ entry \in [Process -> [Page -> Frame \cup {Free, Guard}]]
    BY FrameAssumption DEF UserTypeOK, Free, Guard
<1> HIDE DEF P, T, N, n
<1>5. /\ \A v \in Page : entry'[p][v] = IF v \in new THEN P(v)
               ELSE IF v \in guards /\ entry[p][v] = Free THEN Guard ELSE entry[p][v]
      /\ \A t \in Table : table'[p][t] = IF t \in tables THEN T(t) ELSE table[p][t]
    BY <1>2, <1>4
<1>6. \A q \in Process \ {p} : SameSpace(q)
    BY <1>2, <1>4 DEF SameSpace
<1>7. memory_map' \subseteq Frame
    BY <1>2, <1>3, <1>4
<1>8. entry' \in [Process -> [Page -> Frame \cup {Free, Guard}]]
    BY <1>2, <1>3, <1>4
<1>9. table' \in [Process -> [Table -> Frame \cup {Free}]]
    BY <1>2, <1>3, <1>4
<1>10. /\ \A v \in R \ guards : entry[p][v] = Free => entry'[p][v] \in Frame
       /\ \A v \in guards : entry[p][v] = Free => entry'[p][v] = Guard
       /\ \A v \in Page : entry[p][v] # Free => entry'[p][v] = entry[p][v]
    BY <1>1, <1>3, <1>5
<1>11. ASSUME \A q \in Process : status'[q] = "free" => q # p /\ status[q] = "free"
       PROVE  FramesAgree'
    <2>0. \A v \in Page : entry'[p][v] \in Frame <=> entry[p][v] \in Frame \/ v \in new
        BY <1>1, <1>3, <1>4, <1>5
    <2>1. /\ UserPages(p)' = UserPages(p) \cup new
          /\ \A v \in UserPages(p) : v \notin new /\ entry'[p][v] = entry[p][v]
          /\ \A v \in new : entry'[p][v] = P(v)
        <3>1. UserPages(p)' = UserPages(p) \cup new
            BY <1>1, <2>0 DEF UserPages
        <3>2. \A v \in UserPages(p) : v \notin new /\ entry'[p][v] = entry[p][v]
            BY <1>1, <1>4, <1>10 DEF UserPages
        <3>3. \A v \in new : entry'[p][v] = P(v)
            BY <1>1, <1>5
        <3> QED BY <3>1, <3>2, <3>3
    <2>2. /\ UserTables(p)' = UserTables(p) \cup tables
          /\ \A t \in UserTables(p) : t \notin tables /\ table'[p][t] = table[p][t]
          /\ \A t \in tables : table'[p][t] = T(t)
        BY <1>1, <1>3, <1>4, <1>5 DEF UserTables
    <2>3. Held(p)' = Held(p) \cup N
        BY <1>3, <2>1, <2>2 DEF Held
    <2>4. Held(p) \subseteq memory_map /\ Once(p)
        BY DEF FramesAgree
    <2>5. /\ upper'[p] = upper[p] /\ upper[p] \subseteq memory_map
          /\ \A v \in UserPages(p) : entry[p][v] \in memory_map
          /\ \A t \in UserTables(p) : table[p][t] \in memory_map
        BY <2>4 DEF Held
    <2>6. Once(p)'
        <3>1. \A v, w \in UserPages(p)' : entry'[p][v] = entry'[p][w] => v = w
            BY <1>3, <2>1, <2>4, <2>5 DEF Once
        <3>2. \A t, u \in UserTables(p)' : table'[p][t] = table'[p][u] => t = u
            BY <1>3, <2>2, <2>4, <2>5 DEF Once
        <3>3. \A v \in UserPages(p)', t \in UserTables(p)' : entry'[p][v] # table'[p][t]
            BY <1>3, <2>1, <2>2, <2>4, <2>5 DEF Once
        <3>4. \A v \in UserPages(p)' : entry'[p][v] \notin upper'[p]
            BY <1>3, <2>1, <2>4, <2>5 DEF Once
        <3>5. \A t \in UserTables(p)' : table'[p][t] \notin upper'[p]
            BY <1>3, <2>2, <2>4, <2>5 DEF Once
        <3> QED BY <3>1, <3>2, <3>3, <3>4, <3>5 DEF Once
    <2>7. N \cap memory_map = {}
        BY <1>3
    <2> QED BY <1>2, <1>6, <1>11, <2>3, <2>6, <2>7, GrowFrames
<1> QED BY <1>6, <1>7, <1>8, <1>9, <1>10, <1>11

-----------------------------------------------------------------------------
\* The place that the search for free pages finds holds the pages mmap needs.
LEMMA CountFits ==
    ASSUME NEW len \in Lengths, NEW k \in Nat, k * PAGE_SIZE > len
    PROVE  Count(len) \in Nat \ {0} /\ Count(len) =< k
<1> DEFINE q == len \div PAGE_SIZE
           r == len % PAGE_SIZE
<1>0. PAGE_SIZE \in Nat \ {0} /\ len \in Nat \ {0}
    BY SizeAssumption
<1>1. q \in Nat /\ r \in 0..(PAGE_SIZE - 1) /\ len = PAGE_SIZE * q + r
    BY <1>0, DivFacts
<1>2. Count(len) = q + (IF r # 0 THEN 1 ELSE 0)
    BY DEF Count
<1> HIDE DEF q, r
<1>3. q < k
    <2> SUFFICES ASSUME k < q \/ k = q PROVE FALSE
        BY <1>1
    <2>1. PAGE_SIZE * k =< PAGE_SIZE * q
        <3>1. CASE k < q
            <4>1. PAGE_SIZE * k + PAGE_SIZE =< PAGE_SIZE * q
                BY <1>0, <1>1, <3>1, Times
            <4>2. PAGE_SIZE * k \in Nat /\ PAGE_SIZE * q \in Nat
                BY <1>0, <1>1
            <4> QED BY <4>1, <4>2, <1>0
        <3>2. CASE k = q
            BY <1>0, <1>1, <3>2
        <3> QED BY <3>1, <3>2
    <2>2. PAGE_SIZE * k \in Nat /\ PAGE_SIZE * q \in Nat /\ PAGE_SIZE * k = k * PAGE_SIZE
        BY <1>0, <1>1
    <2> QED BY <1>0, <1>1, <2>1, <2>2
<1>4. q = 0 => r # 0
    BY <1>0, <1>1
<1> QED BY <1>1, <1>2, <1>3, <1>4

\* The run of pages that get_free_page returns is free.
LEMMA RoomFound ==
    ASSUME NEW p \in Process, NEW len \in Lengths, RoomFor(p, len, {Free}) # {}
    PROVE  LET from == get_free_page(p, len)
               R == from..(from + Count(len) - 1)
           IN  R \in SUBSET Page /\ \A x \in R : entry[p][x] = Free
<1> DEFINE S == RoomFor(p, len, {Free})
           from == get_free_page(p, len)
           last == Tables * TableSize - 1
<1>1. S \in SUBSET Page
    BY DEF RoomFor
<1>2. IsFiniteSet(S) /\ S \subseteq Nat
    BY <1>1, PagesFinite
<1>3. from \in S
    <2> HIDE DEF S
    <2>1. Min(S) \in S
        BY <1>2, Least DEF S
    <2> QED BY <2>1 DEF get_free_page, S
<1>4. PICK w \in from..last : /\ (w - from + 1) * PAGE_SIZE > len
                              /\ \A x \in from..w : entry[p][x] \in {Free}
    BY <1>3 DEF RoomFor
<1>5. last \in Int /\ from \in Nat /\ from =< last /\ w \in Nat /\ w =< last
    BY <1>1, <1>3, SizeAssumption DEF Page
<1> HIDE DEF from, S
<1>6. Count(len) \in Nat \ {0} /\ Count(len) =< w - from + 1
    <2>1. w - from + 1 \in Nat
        BY <1>5, <1>4
    <2> QED BY <2>1, <1>4, CountFits
<1>7. \A x \in from..(from + Count(len) - 1) : x \in from..w /\ x \in 0..last
    BY <1>5, <1>6
<1> QED BY <1>4, <1>7 DEF Page, from

-----------------------------------------------------------------------------
\* The invariant and what mmap promises, action by action.
Fresh == \A r \in region' : entry[r[1]][r[2]] = Free /\ entry'[r[1]][r[2]] \in Frame

\* The marks of an entry are not frames, and the image and stack of a task lie within the pages.
LEMMA Numerals ==
    /\ Free \notin Frame /\ Guard \notin Frame /\ Guard # Free
    /\ ElfPages \in Page /\ 0..(ElfPages + UserStack) \subseteq Page
<1>1. Free \notin Frame /\ Guard \notin Frame /\ Guard # Free
    BY FrameAssumption DEF Free, Guard
<1>2. ElfPages \in Page /\ 0..(ElfPages + UserStack) \subseteq Page
    <2>1. Tables * TableSize \in Nat
        BY SizeAssumption
    <2> QED BY <2>1, SizeAssumption, ElfAssumption DEF Page
<1> QED BY <1>1, <1>2

\* A call of process p that maps pages of R which were free, and nothing else.
LEMMA MapKeeps ==
    ASSUME UserInv, NEW p \in Process, NEW R \in SUBSET Page, CreatePages(p, R, {}),
           UNCHANGED <<status, upper, stack>>, status[p] # "free",
           halted' \in BOOLEAN, locked' \in [Process -> BOOLEAN],
           region' = {} \/ (region' = {p} \X R /\ \A x \in R : entry[p][x] = Free)
    PROVE  UserTypeOK' /\ FramesAgree' /\ UserStackGuarded' /\ StackHeld' /\ Fresh
<1>1. /\ table' \in [Process -> [Table -> Frame \cup {Free}]]
      /\ entry' \in [Process -> [Page -> Frame \cup {Free, Guard}]]
      /\ memory_map' \subseteq Frame
      /\ \A q \in Process \ {p} : SameSpace(q)
      /\ \A v \in R : entry[p][v] = Free => entry'[p][v] \in Frame
      /\ \A v \in Page : entry[p][v] # Free => entry'[p][v] = entry[p][v]
      /\ (\A q \in Process : status'[q] = "free" => q # p /\ status[q] = "free") => FramesAgree'
    <2>1. {} \in SUBSET Page /\ R \ {} = R OBVIOUS
    <2> QED BY <2>1, Created DEF UserInv
<1>2. FramesAgree'
    BY <1>1
<1>3. UserTypeOK'
    <2>1. region' \subseteq Process \X Page
        OBVIOUS
    <2> QED BY <1>1, <2>1 DEF UserInv, UserTypeOK
<1>4. UserStackGuarded'
    <2>1. \A q \in Process : entry[q][ElfPages] = Guard => entry'[q][ElfPages] = Guard
        BY <1>1, Numerals DEF SameSpace
    <2> QED BY <2>1 DEF UserInv, UserStackGuarded
<1>5. StackHeld'
    BY DEF UserInv, StackHeld
<1>6. Fresh
    <2>1. CASE region' = {}
        BY <2>1 DEF Fresh
    <2>2. CASE region' = {p} \X R /\ \A x \in R : entry[p][x] = Free
        <3>1. ASSUME NEW r \in region' PROVE r[1] = p /\ r[2] \in R
            BY <2>2
        <3> QED BY <2>2, <3>1, <1>1 DEF Fresh
    <2> QED BY <2>1, <2>2
<1> QED BY <1>2, <1>3, <1>4, <1>5, <1>6

\* A step that leaves every address space alone.
LEMMA SpacesUntouched ==
    ASSUME UserInv, UNCHANGED <<upper, table, entry, memory_map>>,
           status' \in [Process -> {"free", "running", "spinning", "finished", "removed"}],
           locked' \in [Process -> BOOLEAN], halted' \in BOOLEAN, region' = {},
           \A q \in Process : status'[q] = "free" <=> status[q] = "free"
    PROVE  UserTypeOK' /\ FramesAgree' /\ UserStackGuarded' /\ Fresh
<1>1. FramesAgree'
    <2>1. \A q \in Process : SameSpace(q)
        BY DEF SameSpace
    <2> QED BY <2>1, FramesKept DEF UserInv
<1>2. UserTypeOK'
    BY DEF UserInv, UserTypeOK
<1>3. UserStackGuarded'
    BY DEF UserInv, UserStackGuarded
<1> QED BY <1>1, <1>2, <1>3 DEF Fresh

\* sbrk and memmgr_create_stack leave the spaces of processes alone.
LEMMA KernelKeeps ==
    ASSUME UserInv, KernelStep
    PROVE  UserInv' /\ Fresh
<1>1. UserTypeOK' /\ FramesAgree' /\ UserStackGuarded' /\ Fresh
    <2>1. status' = status /\ locked' = locked /\ halted' = halted /\ region' = {}
        BY DEF KernelStep
    <2>2. UNCHANGED <<upper, table, entry, memory_map>>
        BY DEF KernelStep
    <2>3. /\ status' \in [Process -> {"free", "running", "spinning", "finished", "removed"}]
          /\ locked' \in [Process -> BOOLEAN] /\ halted' \in BOOLEAN
        BY <2>1 DEF UserInv, UserTypeOK
    <2> QED BY <2>1, <2>2, <2>3, SpacesUntouched
<1>2. \A q \in Process : stack'[q] = stack[q]
    <2>1. CASE process_create_idle
        BY <2>1, ThreadAssumption DEF process_create_idle, memmgr_create_stack
    <2>2. CASE \E n \in Sizes : sbrk(n)
        BY <2>2 DEF sbrk
    <2> QED BY <2>1, <2>2 DEF KernelStep
<1>3. StackHeld'
    <2>1. status' = status
        BY DEF KernelStep
    <2> QED BY <1>2, <2>1 DEF UserInv, StackHeld
<1> QED BY <1>1, <1>3 DEF UserInv

\* Mapping at an address the kernel chooses, the common part of sys_mmap and sys_brk.
LEMMA MapAnywhereKeeps ==
    ASSUME UserInv, NEW p \in Process, NEW len \in Lengths, MapAnywhere(p, len),
           UNCHANGED <<status, upper, stack, halted>>, locked' \in [Process -> BOOLEAN],
           status[p] = "running"
    PROVE  UserInv' /\ Fresh
<1> DEFINE from == get_free_page(p, len)
           R == from..(from + Count(len) - 1)
<1>1. RoomFor(p, len, {Free}) # {} /\ CreatePages(p, R, {}) /\ region' = {p} \X R
    BY DEF MapAnywhere
<1>2. R \in SUBSET Page /\ \A x \in R : entry[p][x] = Free
    BY <1>1, RoomFound
<1> HIDE DEF R
<1>3. status[p] # "free" /\ halted' \in BOOLEAN
    BY DEF UserInv, UserTypeOK
<1> QED BY <1>1, <1>2, <1>3, MapKeeps DEF UserInv

\* sys_mmap at a fixed address: pages that are mapped there stay, and a guard page stops it.
LEMMA FixedKeeps ==
    ASSUME UserInv, NEW p \in Process, NEW len \in Lengths, NEW v \in Page,
           sys_mmap_fixed(p, v, len)
    PROVE  UserInv' /\ Fresh
<1> DEFINE R == v..(v + Count(len) - 1)
           guards == {x \in R : entry[p][x] = Guard}
<1>1. /\ status[p] = "running" /\ R \in SUBSET Page
      /\ UNCHANGED <<heapVars, status, upper, locked>>
    BY DEF sys_mmap_fixed
<1>2. /\ \A x \in Page : entry[p][x] \in Frame \cup {Free, Guard}
      /\ status \in [Process -> {"free", "running", "spinning", "finished", "removed"}]
      /\ locked \in [Process -> BOOLEAN] /\ halted \in BOOLEAN
    BY DEF UserInv, UserTypeOK
<1>3. stack' = stack /\ status' = status /\ upper' = upper /\ locked' = locked /\ status[p] # "free"
    BY <1>1 DEF heapVars
<1>4. CASE R \cap UserPages(p) # {}
    <2>1. region' = {} /\ UNCHANGED <<entry, table, memory_map, halted>>
        BY <1>4 DEF sys_mmap_fixed
    <2>2. StackHeld'
        BY <1>3 DEF UserInv, StackHeld
    <2> HIDE DEF R
    <2> QED BY <1>2, <1>3, <2>1, <2>2, SpacesUntouched DEF UserInv
<1>5. CASE R \cap UserPages(p) = {} /\ guards = {}
    <2>1. CreatePages(p, R, {}) /\ region' = {p} \X R /\ halted' = halted
        BY <1>5 DEF sys_mmap_fixed
    <2>2. \A x \in R : entry[p][x] = Free
        <3> SUFFICES ASSUME NEW x \in R PROVE entry[p][x] = Free
            OBVIOUS
        <3>1. x \in Page /\ entry[p][x] # Guard
            BY <1>1, <1>5
        <3>2. x \notin UserPages(p)
            BY <1>5
        <3> QED BY <1>2, <3>1, <3>2 DEF UserPages
    <2> HIDE DEF R
    <2> QED BY <1>1, <1>2, <1>3, <2>1, <2>2, MapKeeps DEF UserInv
<1>6. CASE R \cap UserPages(p) = {} /\ guards # {}
    <2> DEFINE B == v..(Min(guards) - 1)
    <2>1. CreatePages(p, B, {}) /\ region' = {} /\ halted' = TRUE
        BY <1>6 DEF sys_mmap_fixed
    <2>2. B \in SUBSET Page
        <3>1. guards \in SUBSET Page
            BY <1>1
        <3>2. IsFiniteSet(guards) /\ guards \subseteq Nat
            BY <3>1, PagesFinite
        <3>3. Min(guards) \in guards
            <4> HIDE DEF guards
            <4> QED BY <1>6, <3>2, Least
        <3>4. Min(guards) \in Page
            BY <3>1, <3>3
        <3> HIDE DEF guards
        <3> QED BY <3>4, SizeAssumption DEF Page
    <2> HIDE DEF B
    <2> QED BY <1>2, <1>3, <2>1, <2>2, MapKeeps DEF UserInv
<1> QED BY <1>4, <1>5, <1>6

\* Unmapping: the frames of the pages that go are the ones freed.
LEMMA MunmapKeeps ==
    ASSUME UserInv, NEW p \in Process, NEW len \in Lengths, NEW v \in Page,
           sys_munmap(p, v, len)
    PROVE  UserInv' /\ Fresh
<1> DEFINE gone == Victims(p, (v + 1)..(v + Count(len)))
           N == {entry[p][x] : x \in gone}
<1>1. /\ entry' = [entry EXCEPT ![p] = [x \in Page |-> IF x \in gone THEN Free ELSE entry[p][x]]]
      /\ memory_map' = memory_map \ N
      /\ region' = {} /\ stack' = stack /\ status' = status /\ upper' = upper
      /\ table' = table /\ locked' = locked /\ halted' = halted
    BY DEF sys_munmap, memmgr_delete_page, heapVars
<1>2. gone \subseteq UserPages(p)
    BY DEF Victims
<1>3. /\ entry \in [Process -> [Page -> Frame \cup {Free, Guard}]] /\ memory_map \subseteq Frame
      /\ UserPages(p) \subseteq Page /\ FramesAgree /\ UserTypeOK /\ UserStackGuarded /\ StackHeld
    BY DEF UserInv, UserTypeOK, UserPages
<1> HIDE DEF gone
<1>4. \A x \in Page : entry'[p][x] = IF x \in gone THEN Free ELSE entry[p][x]
    BY <1>1, <1>3
<1>5. \A q \in Process \ {p} : SameSpace(q)
    BY <1>1, <1>3 DEF SameSpace
<1>6. UserTypeOK'
    <2>1. entry' \in [Process -> [Page -> Frame \cup {Free, Guard}]]
        BY <1>1, <1>3
    <2> QED BY <1>1, <1>3, <2>1 DEF UserTypeOK
<1>7. UserPages(p)' = UserPages(p) \ gone /\ UserTables(p)' = UserTables(p)
    <2>1. \A x \in Page : entry'[p][x] \in Frame <=> entry[p][x] \in Frame /\ x \notin gone
        BY <1>4, Numerals
    <2> QED BY <1>1, <2>1 DEF UserPages, UserTables
<1>8. \A x \in UserPages(p)' : entry'[p][x] = entry[p][x]
    BY <1>3, <1>4, <1>7
<1>9. Once(p)
    BY <1>3 DEF FramesAgree
<1>10. Once(p)'
    <2>1. \A x, w \in UserPages(p)' : entry'[p][x] = entry'[p][w] => x = w
        BY <1>7, <1>8, <1>9 DEF Once
    <2>2. \A x \in UserPages(p)', t \in UserTables(p)' : entry'[p][x] # table'[p][t]
        BY <1>1, <1>7, <1>8, <1>9 DEF Once
    <2>3. \A x \in UserPages(p)' : entry'[p][x] \notin upper'[p]
        BY <1>1, <1>7, <1>8, <1>9 DEF Once
    <2>4. \A t, u \in UserTables(p)' : table'[p][t] = table'[p][u] => t = u
        BY <1>1, <1>7, <1>9 DEF Once
    <2>5. \A t \in UserTables(p)' : table'[p][t] \notin upper'[p]
        BY <1>1, <1>7, <1>9 DEF Once
    <2> QED BY <2>1, <2>2, <2>3, <2>4, <2>5 DEF Once
<1>11. Held(p)' = Held(p) \ N
    <2>1. /\ Held(p) = upper[p] \cup {table[p][t] : t \in UserTables(p)}
                                \cup {entry[p][x] : x \in UserPages(p)}
          /\ Held(p)' = upper[p] \cup {table[p][t] : t \in UserTables(p)}
                                 \cup {entry'[p][x] : x \in UserPages(p)'}
        BY <1>1, <1>7 DEF Held
    <2>2. \A y : y \in N => y \notin upper[p] /\ \A t \in UserTables(p) : table[p][t] # y
        BY <1>2, <1>9 DEF Once
    <2>3. \A y : y \in {entry'[p][x] : x \in UserPages(p)'}
                 <=> y \in {entry[p][x] : x \in UserPages(p)} /\ y \notin N
        <3>1. ASSUME NEW x \in UserPages(p)' PROVE entry'[p][x] \notin N
            BY <1>2, <1>7, <1>8, <1>9, <3>1 DEF Once
        <3>2. ASSUME NEW x \in UserPages(p), entry[p][x] \notin N
              PROVE  x \in UserPages(p)' /\ entry'[p][x] = entry[p][x]
            BY <1>7, <1>8, <3>2
        <3> HIDE DEF N
        <3> QED BY <1>7, <1>8, <3>1, <3>2
    <2> HIDE DEF N
    <2> QED BY <2>1, <2>2, <2>3
<1>12. N \subseteq Held(p)
    BY <1>2 DEF Held
<1>13. FramesAgree'
    <2> HIDE DEF N
    <2>1. \A q \in Process : status'[q] = "free" => status[q] = "free" \/ Held(q)' = {}
        BY <1>1
    <2> QED BY <1>1, <1>3, <1>5, <1>10, <1>11, <1>12, <2>1, ShrinkFrames
<1>14. UserStackGuarded'
    <2>1. ElfPages \in Page /\ (entry[p][ElfPages] = Guard => ElfPages \notin gone)
        BY <1>2, Numerals DEF UserPages
    <2>2. \A q \in Process : entry[q][ElfPages] = Guard => entry'[q][ElfPages] = Guard
        BY <1>4, <1>5, <2>1 DEF SameSpace
    <2> QED BY <1>1, <1>3, <2>2 DEF UserStackGuarded
<1>15. StackHeld'
    BY <1>1, <1>3 DEF StackHeld
<1> QED BY <1>1, <1>6, <1>13, <1>14, <1>15 DEF UserInv, Fresh

\* sys_brk.
LEMMA BrkKeeps ==
    ASSUME UserInv, NEW p \in Process, NEW len \in Lengths, sys_brk(p, len)
    PROVE  UserInv' /\ Fresh
<1>1. /\ status[p] = "running" /\ stack' = stack /\ upper' = upper /\ halted' = halted
      /\ locked \in [Process -> BOOLEAN] /\ halted \in BOOLEAN
      /\ status \in [Process -> {"free", "running", "spinning", "finished", "removed"}]
    BY DEF sys_brk, UserInv, UserTypeOK, heapVars
<1>2. CASE ~locked[p]
    <2>1. MapAnywhere(p, len) /\ locked' = [locked EXCEPT ![p] = TRUE] /\ status' = status
        BY <1>2 DEF sys_brk
    <2>2. locked' \in [Process -> BOOLEAN]
        BY <1>1, <2>1
    <2> QED BY <1>1, <2>1, <2>2, MapAnywhereKeeps
<1>3. CASE locked[p]
    <2>1. /\ status' = [status EXCEPT ![p] = "spinning"] /\ region' = {}
          /\ UNCHANGED <<entry, table, memory_map, locked>>
        BY <1>3 DEF sys_brk
    <2>2. /\ status' \in [Process -> {"free", "running", "spinning", "finished", "removed"}]
          /\ \A q \in Process : status'[q] = "free" <=> status[q] = "free"
        BY <1>1, <2>1
    <2>3. UserTypeOK' /\ FramesAgree' /\ UserStackGuarded' /\ Fresh
        BY <1>1, <2>1, <2>2, SpacesUntouched
    <2>4. StackHeld'
        BY <1>1, <2>1 DEF UserInv, StackHeld
    <2> QED BY <2>3, <2>4 DEF UserInv
<1> QED BY <1>2, <1>3

\* A process that gets a kernel stack, or loses it and stops running.
LEMMA StackGiven ==
    ASSUME StackHeld, HeapTypeOK, NEW c \in Process, CreateKernelStack(c),
           \A q \in Process \ {c} : status'[q] = status[q]
    PROVE  StackHeld'
<1>1. /\ kernel_heap_length \in Nat /\ stack \in [Thread -> KPage \cup {NoStack}]
      /\ stack' = [stack EXCEPT ![c] = kernel_heap_length] /\ Process \subseteq Thread
    BY MaxPagesAssumption DEF HeapTypeOK, CreateKernelStack, memmgr_create_stack, Thread
<1>2. stack'[c] # NoStack
    BY <1>1 DEF NoStack
<1>3. \A q \in Process \ {c} : stack'[q] = stack[q]
    BY <1>1
<1> QED BY <1>2, <1>3 DEF StackHeld

\* process_create_task.
LEMMA TaskKeeps ==
    ASSUME UserInv, HeapTypeOK, process_create_task
    PROVE  UserInv' /\ Fresh
<1> DEFINE p == InitProcess
           R == 0..(ElfPages + UserStack)
<1>1. /\ p \in Process /\ status[p] = "free" /\ CreatePages(p, R, {ElfPages}) /\ CreateKernelStack(p)
      /\ status' = [status EXCEPT ![p] = "running"] /\ region' = {}
      /\ upper' = upper /\ locked' = locked /\ halted' = halted
    BY InitAssumption DEF process_create_task
<1>2. R \in SUBSET Page /\ {ElfPages} \in SUBSET Page
    BY Numerals
<1> HIDE DEF p, R
<1>3. UserTypeOK /\ FramesAgree /\ UserStackGuarded /\ StackHeld
    BY DEF UserInv
<1>4. /\ table' \in [Process -> [Table -> Frame \cup {Free}]]
      /\ entry' \in [Process -> [Page -> Frame \cup {Free, Guard}]]
      /\ memory_map' \subseteq Frame
      /\ \A q \in Process \ {p} : SameSpace(q)
      /\ \A v \in {ElfPages} : entry[p][v] = Free => entry'[p][v] = Guard
      /\ \A v \in Page : entry[p][v] # Free => entry'[p][v] = entry[p][v]
      /\ (\A q \in Process : status'[q] = "free" => q # p /\ status[q] = "free") => FramesAgree'
    BY <1>1, <1>2, <1>3, Created
<1>5. /\ status' \in [Process -> {"free", "running", "spinning", "finished", "removed"}]
      /\ status'[p] = "running" /\ \A q \in Process \ {p} : status'[q] = status[q]
    BY <1>1, <1>3 DEF UserTypeOK
<1>6. FramesAgree'
    BY <1>4, <1>5
<1>7. UserTypeOK'
    BY <1>1, <1>3, <1>4, <1>5 DEF UserTypeOK
<1>8. entry'[p][ElfPages] = Guard
    <2>1. entry[p][ElfPages] \in Frame \cup {Free, Guard}
        BY <1>1, <1>3, Numerals DEF UserTypeOK
    <2>2. Held(p) = {}
        BY <1>1, <1>3 DEF FramesAgree
    <2>3. ElfPages \notin UserPages(p)
        BY <2>2 DEF Held
    <2>4. entry[p][ElfPages] \notin Frame
        BY <2>3, Numerals DEF UserPages
    <2> QED BY <2>1, <2>4, <1>4, Numerals
<1>9. UserStackGuarded'
    BY <1>3, <1>4, <1>5, <1>8 DEF UserStackGuarded, SameSpace
<1>10. StackHeld'
    BY <1>1, <1>3, <1>5, StackGiven
<1> QED BY <1>1, <1>6, <1>7, <1>9, <1>10 DEF UserInv, Fresh

\* The copy a fork makes has frames of its own for all it refers to.
LEMMA ForkKeeps ==
    ASSUME UserInv, HeapTypeOK, NEW p \in Process, NEW c \in Process, process_fork(p, c)
    PROVE  UserInv' /\ Fresh
<1> DEFINE pages == UserPages(p)
           tables == UserTables(p)
           m == 3
           n == m + Cardinality(pages) + Cardinality(tables)
           P(v) == kalloc_frame(m + NthPage(pages, tables, v))
           T(t) == kalloc_frame(m + NthTable(pages, tables, t))
           F == {kalloc_frame(k) : k \in 1..m}
           N == {kalloc_frame(k) : k \in 1..n}
<1>1. /\ status[p] = "running" /\ status[c] = "free" /\ CreateKernelStack(c)
      /\ status' = [status EXCEPT ![c] = "running"] /\ locked' = [locked EXCEPT ![c] = FALSE]
      /\ region' = {} /\ halted' = halted
    BY DEF process_fork
<1>2. /\ Suffices(n) /\ upper' = [upper EXCEPT ![c] = F]
      /\ table' = [table EXCEPT ![c] = [t \in Table |-> IF t \in tables THEN T(t) ELSE Free]]
      /\ entry' = [entry EXCEPT ![c] = [v \in Page |-> IF v \in pages THEN P(v) ELSE entry[p][v]]]
      /\ memory_map' = memory_map \cup N
    BY DEF process_fork, memmgr_clone_page_map
<1>3. UserTypeOK /\ FramesAgree /\ UserStackGuarded /\ StackHeld
    BY DEF UserInv
<1>4. /\ memory_map \subseteq Frame /\ upper \in [Process -> SUBSET Frame]
      /\ table \in [Process -> [Table -> Frame \cup {Free}]]
      /\ entry \in [Process -> [Page -> Frame \cup {Free, Guard}]]
      /\ status \in [Process -> {"free", "running", "spinning", "finished", "removed"}]
      /\ locked \in [Process -> BOOLEAN] /\ halted \in BOOLEAN
    BY <1>3 DEF UserTypeOK
<1>5. /\ pages \in SUBSET Page /\ tables \in SUBSET Table
      /\ \A v \in Page : entry[p][v] \in Frame => v \in pages
    BY DEF UserPages, UserTables
<1>6. m \in Nat
    OBVIOUS
<1> HIDE DEF pages, tables, m
<1>7. /\ \A v \in pages : P(v) \in Frame \ memory_map /\ P(v) \notin F
      /\ \A t \in tables : T(t) \in Frame \ memory_map /\ T(t) \notin F
      /\ F \subseteq Frame \ memory_map
    <2>1. \A v \in pages : P(v) \in Frame \ memory_map /\ P(v) \notin F
        BY ZenonT(60), <1>2, <1>4, <1>5, <1>6, NewFrames
    <2>2. \A t \in tables : T(t) \in Frame \ memory_map /\ T(t) \notin F
        BY <1>2, <1>4, <1>5, <1>6, NewFrames
    <2>3. F \subseteq Frame \ memory_map
        BY <1>2, <1>4, <1>5, <1>6, NewFrames
    <2> QED BY <2>1, <2>2, <2>3
<1>8. /\ \A v, w \in pages : P(v) = P(w) => v = w
      /\ \A t, u \in tables : T(t) = T(u) => t = u
      /\ \A v \in pages, t \in tables : P(v) # T(t)
    <2>1. \A v, w \in pages : P(v) = P(w) => v = w
        BY <1>2, <1>4, <1>5, <1>6, NewFrames
    <2>2. \A t, u \in tables : T(t) = T(u) => t = u
        BY <1>2, <1>4, <1>5, <1>6, NewFrames
    <2>3. \A v \in pages, t \in tables : P(v) # T(t)
        BY <1>2, <1>4, <1>5, <1>6, NewFrames
    <2> QED BY <2>1, <2>2, <2>3
<1>9. \A x : x \in N <=> x \in F \/ (\E v \in pages : x = P(v)) \/ (\E t \in tables : x = T(t))
    <2>1. /\ memory_map \subseteq Frame /\ Suffices(n)
          /\ pages \in SUBSET Page /\ tables \in SUBSET Table
        BY <1>2, <1>4, <1>5
    <2> QED BY <2>1, <1>6, NewFrames
<1> HIDE DEF P, T, F, N, n
<1>10. /\ upper'[c] = F
       /\ \A v \in Page : entry'[c][v] = IF v \in pages THEN P(v) ELSE entry[p][v]
       /\ \A t \in Table : table'[c][t] = IF t \in tables THEN T(t) ELSE Free
    BY <1>2, <1>4
<1>11. \A q \in Process \ {c} : SameSpace(q)
    BY <1>2, <1>4 DEF SameSpace
<1>12. UserTypeOK'
    <2>1. memory_map' \subseteq Frame
        BY SMTT(30), <1>2, <1>4, <1>7, <1>9
    <2>2. upper' \in [Process -> SUBSET Frame]
        BY <1>2, <1>4, <1>7
    <2>3. table' \in [Process -> [Table -> Frame \cup {Free}]]
        BY <1>2, <1>4, <1>7
    <2>4. entry' \in [Process -> [Page -> Frame \cup {Free, Guard}]]
        BY <1>2, <1>4, <1>7
    <2>5. /\ status' \in [Process -> {"free", "running", "spinning", "finished", "removed"}]
          /\ locked' \in [Process -> BOOLEAN]
        BY <1>1, <1>4
    <2> QED BY <1>1, <1>4, <2>1, <2>2, <2>3, <2>4, <2>5 DEF UserTypeOK
<1>13. UserPages(c)' = pages /\ UserTables(c)' = tables
    <2>1. \A v \in Page : entry'[c][v] \in Frame <=> v \in pages
        BY <1>5, <1>7, <1>10
    <2>2. \A t \in Table : table'[c][t] # Free <=> t \in tables
        BY <1>5, <1>7, <1>10, Numerals
    <2> QED BY <1>5, <2>1, <2>2 DEF UserPages, UserTables
<1>14. /\ \A v \in pages : entry'[c][v] = P(v)
       /\ \A t \in tables : table'[c][t] = T(t)
    BY <1>5, <1>10
<1>15. Once(c)'
    BY <1>7, <1>8, <1>10, <1>13, <1>14 DEF Once
<1>16. Held(c)' = N
    <2>1. Held(c)' = F \cup {table'[c][t] : t \in tables} \cup {entry'[c][v] : v \in pages}
        BY <1>10, <1>13 DEF Held
    <2> QED BY <2>1, <1>9, <1>14
<1>17. Held(c) = {} /\ N \cap memory_map = {}
    BY <1>1, <1>3, <1>7, <1>9 DEF FramesAgree
<1>18. status'[c] = "running" /\ \A q \in Process \ {c} : status'[q] = status[q]
    BY <1>1, <1>4
<1>19. FramesAgree'
    <2>1. Held(c)' = Held(c) \cup N
        BY <1>16, <1>17
    <2>2. \A q \in Process : status'[q] = "free" => q # c /\ status[q] = "free"
        BY <1>18
    <2> QED BY <1>2, <1>3, <1>11, <1>15, <1>17, <2>1, <2>2, GrowFrames
<1>20. UserStackGuarded'
    <2>1. entry[p][ElfPages] = Guard /\ ElfPages \notin pages
        BY <1>1, <1>3, Numerals DEF UserStackGuarded, UserPages, pages
    <2>2. entry'[c][ElfPages] = Guard
        BY <1>10, <2>1, Numerals
    <2> QED BY <1>3, <1>11, <1>18, <2>2 DEF UserStackGuarded, SameSpace
<1>21. StackHeld'
    BY <1>1, <1>3, <1>18, StackGiven
<1> QED BY <1>1, <1>12, <1>19, <1>20, <1>21 DEF UserInv, Fresh

\* The end of a process, which keeps its space until it is reaped.
LEMMA ExitKeeps ==
    ASSUME UserInv, HeapTypeOK, NEW p \in Process, Exit(p)
    PROVE  UserInv' /\ Fresh
<1>1. /\ status[p] = "running" /\ region' = {}
      /\ status' = [status EXCEPT ![p] = "finished"]
      /\ UNCHANGED <<upper, table, entry, memory_map>> /\ locked' = locked /\ halted' = halted
      /\ stack' = [stack EXCEPT ![p] = NoStack]
    BY DEF Exit, DeleteKernelStack, AbandonKernelStack
<1>2. /\ locked \in [Process -> BOOLEAN] /\ halted \in BOOLEAN /\ StackHeld
      /\ status \in [Process -> {"free", "running", "spinning", "finished", "removed"}]
      /\ stack \in [Thread -> KPage \cup {NoStack}] /\ Process \subseteq Thread
    BY DEF UserInv, UserTypeOK, HeapTypeOK, Thread
<1>3. /\ status' \in [Process -> {"free", "running", "spinning", "finished", "removed"}]
      /\ \A q \in Process : status'[q] = "free" <=> status[q] = "free"
      /\ status'[p] = "finished" /\ \A q \in Process \ {p} : status'[q] = status[q]
    BY <1>1, <1>2
<1>4. UserTypeOK' /\ FramesAgree' /\ UserStackGuarded' /\ Fresh
    BY <1>1, <1>2, <1>3, SpacesUntouched
<1>5. StackHeld'
    BY <1>1, <1>2, <1>3 DEF StackHeld
<1> QED BY <1>4, <1>5 DEF UserInv

\* process_reap, which frees every frame of the space.
LEMMA ReapKeeps ==
    ASSUME UserInv, NEW p \in Process, NEW c \in Process, process_reap(p, c)
    PROVE  UserInv' /\ Fresh
<1>1. /\ status[p] = "running" /\ status[c] = "finished" /\ region' = {}
      /\ stack' = stack /\ locked' = locked /\ halted' = halted
    BY DEF process_reap, heapVars
<1>2. UserTypeOK /\ FramesAgree /\ UserStackGuarded /\ StackHeld
    BY DEF UserInv
<1>3. /\ memory_map \subseteq Frame /\ upper \in [Process -> SUBSET Frame]
      /\ table \in [Process -> [Table -> Frame \cup {Free}]]
      /\ entry \in [Process -> [Page -> Frame \cup {Free, Guard}]]
      /\ status \in [Process -> {"free", "running", "spinning", "finished", "removed"}]
      /\ locked \in [Process -> BOOLEAN] /\ halted \in BOOLEAN
    BY <1>2 DEF UserTypeOK
<1>4. CASE ~locked[c]
    <2>1. /\ memory_map' = memory_map \ Held(c)
          /\ upper' = [upper EXCEPT ![c] = {}]
          /\ table' = [table EXCEPT ![c] = [t \in Table |-> Free]]
          /\ entry' = [entry EXCEPT ![c] = [v \in Page |-> Free]]
          /\ status' = [status EXCEPT ![c] = "free"]
        BY <1>4 DEF process_reap, memmgr_clear_page_map
    <2>2. UserTypeOK'
        <3>1. entry' \in [Process -> [Page -> Frame \cup {Free, Guard}]]
            BY <1>3, <2>1
        <3>2. table' \in [Process -> [Table -> Frame \cup {Free}]]
            BY <1>3, <2>1
        <3>3. upper' \in [Process -> SUBSET Frame] /\ memory_map' \subseteq Frame
            BY <1>3, <2>1
        <3>4. status' \in [Process -> {"free", "running", "spinning", "finished", "removed"}]
            BY <1>3, <2>1
        <3> QED BY <1>1, <1>3, <3>1, <3>2, <3>3, <3>4 DEF UserTypeOK
    <2>3. \A q \in Process \ {c} : SameSpace(q) /\ status'[q] = status[q]
        BY <1>3, <2>1 DEF SameSpace
    <2>4. UserPages(c)' = {} /\ UserTables(c)' = {} /\ upper'[c] = {}
        BY <1>3, <2>1, Numerals DEF UserPages, UserTables
    <2>5. Held(c)' = {} /\ Once(c)'
        BY <2>4 DEF Held, Once
    <2>6. FramesAgree'
        <3>1. Held(c)' = Held(c) \ Held(c)
            BY <2>5
        <3>2. \A q \in Process : status'[q] = "free" => status[q] = "free" \/ Held(q)' = {}
            BY <2>3, <2>5
        <3> QED BY <1>2, <2>1, <2>3, <2>5, <3>1, <3>2, ShrinkFrames
    <2>7. status'[c] = "free"
        BY <1>3, <2>1
    <2>8. UserStackGuarded'
        BY <1>2, <2>3, <2>7 DEF UserStackGuarded, SameSpace
    <2>9. StackHeld'
        BY <1>1, <1>2, <2>3, <2>7 DEF StackHeld
    <2> QED BY <1>1, <2>2, <2>6, <2>8, <2>9 DEF UserInv, Fresh
<1>5. CASE locked[c]
    <2>1. /\ status' = [status EXCEPT ![c] = "removed", ![p] = "spinning"]
          /\ UNCHANGED <<upper, table, entry, memory_map>>
        BY <1>5 DEF process_reap
    <2>2. /\ status' \in [Process -> {"free", "running", "spinning", "finished", "removed"}]
          /\ \A q \in Process : status'[q] = "free" <=> status[q] = "free"
          /\ \A q \in Process : status'[q] = "running" => status[q] = "running"
        BY <1>1, <1>3, <2>1
    <2>3. UserTypeOK' /\ FramesAgree' /\ UserStackGuarded' /\ Fresh
        BY <1>1, <1>3, <2>1, <2>2, SpacesUntouched
    <2>4. StackHeld'
        BY <1>1, <1>2, <2>2 DEF StackHeld
    <2> QED BY <2>3, <2>4 DEF UserInv
<1> QED BY <1>4, <1>5

-----------------------------------------------------------------------------
\* A step of an address space is one of the kernel's region, or leaves it alone.
LEMMA StepIsHeapStep ==
    ASSUME UserInv, [Next]_vars
    PROVE  [HeapNext]_heapVars
<1>1. CASE KernelStep
    BY <1>1 DEF KernelStep, HeapNext
<1>2. CASE process_create_task
    BY <1>2, InitAssumption DEF process_create_task, HeapNext
<1>3. ASSUME NEW p \in Process, Exit(p) PROVE HeapNext
    <2>1. stack[p] # NoStack
        BY <1>3 DEF Exit, UserInv, StackHeld
    <2> QED BY <2>1, <1>3 DEF Exit, HeapNext
<1>4. ASSUME NEW p \in Process, NEW c \in Process, process_fork(p, c) PROVE HeapNext
    BY <1>4 DEF process_fork, HeapNext
<1>5. ASSUME NEW p \in Process, NEW c \in Process, process_reap(p, c) PROVE UNCHANGED heapVars
    BY <1>5 DEF process_reap
<1>6. ASSUME NEW p \in Process, NEW len \in Lengths,
             \/ sys_mmap(p, len) \/ sys_brk(p, len)
             \/ \E v \in Page : sys_mmap_fixed(p, v, len) \/ sys_munmap(p, v, len)
      PROVE  UNCHANGED heapVars
    BY <1>6 DEF sys_mmap, sys_brk, sys_mmap_fixed, sys_munmap
<1>7. CASE UNCHANGED vars
    BY <1>7 DEF vars
<1> QED BY <1>1, <1>2, <1>3, <1>4, <1>5, <1>6, <1>7 DEF Next

\* Every step keeps UserInv, and mmap gives pages nobody used.
LEMMA StepKeeps ==
    ASSUME UserInv, HeapTypeOK, Next
    PROVE  UserInv' /\ Fresh
<1>1. CASE KernelStep
    BY <1>1, KernelKeeps
<1>2. CASE process_create_task
    BY <1>2, TaskKeeps
<1>3. ASSUME NEW p \in Process, Exit(p) PROVE UserInv' /\ Fresh
    BY <1>3, ExitKeeps
<1>4. ASSUME NEW p \in Process, NEW c \in Process, process_fork(p, c) PROVE UserInv' /\ Fresh
    BY <1>4, ForkKeeps
<1>5. ASSUME NEW p \in Process, NEW c \in Process, process_reap(p, c) PROVE UserInv' /\ Fresh
    BY <1>5, ReapKeeps
<1>6. ASSUME NEW p \in Process, NEW len \in Lengths, sys_mmap(p, len) PROVE UserInv' /\ Fresh
    <2>1. /\ MapAnywhere(p, len) /\ status[p] = "running"
          /\ UNCHANGED <<status, upper, stack, halted>> /\ locked' = locked
        BY <1>6 DEF sys_mmap, heapVars
    <2>2. locked' \in [Process -> BOOLEAN]
        BY <2>1 DEF UserInv, UserTypeOK
    <2> QED BY <2>1, <2>2, MapAnywhereKeeps
<1>7. ASSUME NEW p \in Process, NEW len \in Lengths, sys_brk(p, len) PROVE UserInv' /\ Fresh
    BY <1>7, BrkKeeps
<1>8. ASSUME NEW p \in Process, NEW len \in Lengths, NEW v \in Page, sys_mmap_fixed(p, v, len)
      PROVE  UserInv' /\ Fresh
    BY <1>8, FixedKeeps
<1>9. ASSUME NEW p \in Process, NEW len \in Lengths, NEW v \in Page, sys_munmap(p, v, len)
      PROVE  UserInv' /\ Fresh
    BY <1>9, MunmapKeeps
<1> QED BY <1>1, <1>2, <1>3, <1>4, <1>5, <1>6, <1>7, <1>8, <1>9 DEF Next

\* The kernel starts in UserInv, with the region behind its image empty.
LEMMA InitUser == Init => UserInv /\ HeapInd
<1> SUFFICES ASSUME Init PROVE UserInv /\ HeapInd
    OBVIOUS
<1>1. HeapInd
    BY HeapIndInit DEF Init
<1>2. UserTypeOK
    BY DEF Init, UserTypeOK
<1>3. \A p \in Process : UserPages(p) = {} /\ UserTables(p) = {} /\ upper[p] = {}
    BY Numerals DEF Init, UserPages, UserTables
<1>4. \A p \in Process : Held(p) = {} /\ Once(p)
    BY <1>3 DEF Held, Once
<1>5. FramesAgree
    BY <1>4 DEF Init, FramesAgree
<1>6. UserStackGuarded /\ StackHeld
    BY DEF Init, UserStackGuarded, StackHeld
<1> QED BY <1>1, <1>2, <1>5, <1>6 DEF UserInv

\* The inductive invariant: HeapInd of the kernel's region, UserInv of the rest.
LEMMA SpaceInvariant == Spec => [](UserInv /\ HeapInd)
<1>1. UserInv /\ HeapInd /\ [Next]_vars => (UserInv /\ HeapInd)'
    <2> SUFFICES ASSUME UserInv, HeapInd, [Next]_vars PROVE UserInv' /\ HeapInd'
        OBVIOUS
    <2>1. HeapInd'
        BY StepIsHeapStep, HeapIndStep
    <2>2. CASE Next
        BY <2>1, <2>2, StepKeeps DEF HeapInd
    <2>3. CASE UNCHANGED vars
        <3>1. UserInv'
            BY <2>3 DEF vars, heapVars, userVars, UserInv, UserTypeOK, FramesAgree,
                        UserStackGuarded, StackHeld, Held, Once, UserPages, UserTables
        <3> QED BY <2>1, <3>1
    <2> QED BY <2>2, <2>3
<1> QED BY <1>1, InitUser, PTL DEF Spec

\* The page tables, the frame bitmap and the guard below the user stack agree: each
\* frame in use is referred to from one place in one address space, through every
\* mmap, munmap, fork and process_reap.
THEOREM MemoryAgreesHolds == Spec => []MemoryAgrees
<1>1. UserInv /\ HeapInd => MemoryAgrees
    BY DEF UserInv, HeapInd, MemoryAgrees, TypeOK
<1> QED BY <1>1, SpaceInvariant, PTL

\* Every page that mmap returns was free before the call and has a frame after it.
THEOREM MmapFresh == Spec => MmapGivesFresh
<1> DEFINE A == \A r \in region' : entry[r[1]][r[2]] = Free /\ entry'[r[1]][r[2]] \in Frame
<1>1. UserInv /\ HeapInd /\ [Next]_vars => [A]_vars
    BY StepKeeps DEF HeapInd, Fresh
<1> QED BY <1>1, SpaceInvariant, PTL DEF Spec, MmapGivesFresh

\* fork, exit, reaping and malloc change the kernel's region only in the ways that
\* KernelHeap specifies.
THEOREM RegionRefinement == Spec => HeapSpec
<1>1. Init => HeapInit
    BY DEF Init
<1>2. UserInv /\ HeapInd /\ [Next]_vars => [HeapNext]_heapVars
    BY StepIsHeapStep
<1> QED BY <1>1, <1>2, SpaceInvariant, PTL DEF Spec, HeapSpec

\* So what is proved of the kernel's region holds while processes come and go.
THEOREM RegionSafe == Spec => []OverlapOnlyTop /\ []InteriorMapped
BY RegionRefinement, OnlyTopsOverlap, InteriorIsMapped, PTL
=============================================================================
