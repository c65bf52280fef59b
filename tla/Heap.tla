-------------------------------- MODULE Heap --------------------------------
(***************************************************************************)
(* The kernel's heap (alloc/liballoc.c), its lock (arch/amd64/alloc.c) and *)
(* the keyboard handler (arch/amd64/hid/ps2.c), which allocates in the     *)
(* middle of whatever it interrupts.                                       *)
(*                                                                         *)
(* A block is one or more pages from sbrk.  It is divided into pieces; a   *)
(* piece begins with a boundary_tag, which knows the pieces to its left    *)
(* and right in the block, and, if the piece is free, its neighbours in    *)
(* one of the lists l_freePages.  A step is one turn of a loop of malloc   *)
(* or free, or what comes between two loops.                               *)
(***************************************************************************)
EXTENDS Integers, FiniteSets, FiniteSetsExt

CONSTANTS
    TagSize,      \* sizeof(struct boundary_tag)
    MinExp,       \* MINEXP: what is left of a piece is kept if it has 2^MinExp bytes
    MaxExp,       \* MAXEXP
    MaxComplete,  \* MAXCOMPLETE
    PageSize,
    MaxPages,     \* bound on the pages of the heap
    Size,         \* sizes that the kernel asks for
    KeySize       \* sizeof(key_event_t)

ASSUME HeapAssumption ==
    /\ {TagSize, PageSize, MaxPages, MaxComplete, MaxExp} \subseteq Nat \ {0}
    /\ MinExp \in 0..MaxExp - 1 /\ Size \subseteq Nat /\ KeySize \in Nat
    /\ TagSize < PageSize

Null == 0
Exp == 0..MaxExp - 1
Address == PageSize..PageSize * (MaxPages + 1) - 1

\* getexp: the n with 2^n <= size < 2^(n+1), found by shifting until the power is larger;
\* -1 below the smallest.
getexp(size) ==
    IF size < 2^MinExp THEN -1
    ELSE Min({shift \in MinExp..MaxExp : shift = MaxExp \/ 2^shift > size}) - 1

\* The list that malloc searches for so many bytes, and free puts a piece into.
ListFor(bytes) == IF getexp(bytes) < MinExp THEN MinExp ELSE getexp(bytes)

VARIABLES
    pieces,           \* the addresses of the tags
    real_size,        \* the fields of the tags, 0 where there is no tag
    index,            \* the list a piece is in, or -1
    split_left,
    split_right,
    next,
    prev,
    l_freePages,
    l_completePages,
    pages,            \* what sbrk has returned so far
    owned,            \* the regions that are handed out: pointer and size
    lock,             \* LOCK, taken with interrupts on
    op,               \* the locals of malloc or free: where it is, size and tag
    irq,              \* the keyboard handler runs
    event,            \* the key_event_t it holds, or Null
    keyboard,         \* kbd_extended_state and the shift state
    stuck             \* the handler waits for the lock of the code below it

blockVars == <<pieces, real_size, split_left, split_right>>
listVars == <<index, next, prev, l_freePages>>
heapVars == <<blockVars, listVars, l_completePages, pages>>
keyVars == <<irq, event, keyboard, stuck>>
vars == <<heapVars, owned, lock, op, keyVars>>

NoOp == [at |-> "none", size |-> 0, tag |-> Null]

Init ==
    /\ pieces = {} /\ pages = 0 /\ owned = {}
    /\ real_size = [a \in Address |-> 0] /\ index = [a \in Address |-> -1]
    /\ split_left = [a \in Address |-> Null] /\ split_right = [a \in Address |-> Null]
    /\ next = [a \in Address |-> Null] /\ prev = [a \in Address |-> Null]
    /\ l_freePages = [i \in Exp |-> Null] /\ l_completePages = [i \in Exp |-> 0]
    /\ lock = FALSE /\ op = NoOp
    /\ irq = FALSE /\ event = Null /\ stuck = FALSE
    /\ keyboard = [extended |-> FALSE, lshift |-> FALSE]

Usable(t) == real_size[t] - TagSize
IsFreeTag(t) == t # Null /\ index[t] >= 0
Whole(t) == split_left[t] = Null /\ split_right[t] = Null

\* An assignment through a pointer that may be NULL.
Assign(field, t, v) == IF t = Null THEN field ELSE [field EXCEPT ![t] = v]

\* At the head of its list.  The prev of the piece is left as it is.
insert_tag(t, i) ==
    LET first == l_freePages[i]
    IN  /\ index' = [index EXCEPT ![t] = i]
        /\ prev' = Assign(prev, first, t)
        /\ next' = [next EXCEPT ![t] = IF first = Null THEN @ ELSE first]
        /\ l_freePages' = [l_freePages EXCEPT ![i] = t]

\* As it would be if the list did not lose its head.
remove_tag_KeepsHead(t) ==
    /\ next' = [Assign(next, prev[t], next[t]) EXCEPT ![t] = Null]
    /\ prev' = [Assign(prev, next[t], prev[t]) EXCEPT ![t] = Null]
    /\ index' = [index EXCEPT ![t] = -1]
    /\ UNCHANGED l_freePages

remove_tag(t) ==
    /\ next' = [Assign(next, prev[t], next[t]) EXCEPT ![t] = Null]
    /\ prev' = [Assign(prev, next[t], prev[t]) EXCEPT ![t] = Null]
    /\ index' = [index EXCEPT ![t] = -1]
    /\ l_freePages' = [l_freePages EXCEPT ![index[t]] = IF @ = t THEN next[t] ELSE @]

\* Two neighbours in a block become one piece; the tag of the right one is forgotten.
Join(left, right) ==
    /\ pieces' = pieces \ {right}
    /\ real_size' = [real_size EXCEPT ![left] = @ + real_size[right], ![right] = 0]
    /\ split_right' = [split_right EXCEPT ![left] = split_right[right], ![right] = Null]
    /\ split_left' = [Assign(split_left, split_right[right], left) EXCEPT ![right] = Null]

\* The end of a piece that is given out becomes a piece of its own.
split_tag(t, size) ==
    LET new == t + TagSize + size
        remainder == real_size[t] - TagSize - size
    IN  /\ pieces' = pieces \cup {new}
        /\ real_size' = [real_size EXCEPT ![t] = TagSize + size, ![new] = remainder]
        /\ split_right' = [split_right EXCEPT ![t] = new, ![new] = split_right[t]]
        /\ split_left' = [Assign(split_left, split_right[t], new) EXCEPT ![new] = t]
        /\ insert_tag(new, ListFor(remainder - TagSize))
-----------------------------------------------------------------------------
Running == ~stuck
At(stage) == Running /\ op.at = stage

\* liballoc_lock, and the head of the list that is searched.
Malloc(size) ==
    /\ Running /\ ~lock
    /\ lock' = TRUE
    /\ op' = [at |-> "search", size |-> size, tag |-> l_freePages[ListFor(size)]]
    /\ UNCHANGED <<heapVars, owned>>

\* As it would be if the first piece of the list were taken.
Fits_Any(t, size) == TRUE

\* A piece is large enough if another tag fits as well.
Fits(t, size) == Usable(t) >= size + TagSize

\* The loop of malloc: the next piece of the list ...
NextTag ==
    /\ At("search") /\ op.tag # Null /\ ~Fits(op.tag, op.size)
    /\ op' = [op EXCEPT !.tag = next[op.tag]]
    /\ UNCHANGED <<heapVars, owned, lock, keyVars>>

\* ... the one that is found ...
Take ==
    LET t == op.tag
    IN  /\ At("search") /\ t # Null /\ Fits(t, op.size)
        /\ remove_tag(t)
        /\ l_completePages' =
               [l_completePages EXCEPT ![ListFor(op.size)] = IF Whole(t) THEN @ - 1 ELSE @]
        /\ op' = [op EXCEPT !.at = "got"]
        /\ UNCHANGED <<blockVars, pages, owned, lock, keyVars>>

\* ... or a block of as many pages as needed.  sbrk never fails.
PagesFor(size) == (size + TagSize + PageSize - 1) \div PageSize
Full == At("search") /\ op.tag = Null /\ pages + PagesFor(op.size) > MaxPages

allocate_new_tag ==
    LET t == (pages + 1) * PageSize
        n == PagesFor(op.size)
    IN  /\ At("search") /\ op.tag = Null /\ ~Full
        /\ pieces' = pieces \cup {t}
        /\ real_size' = [real_size EXCEPT ![t] = n * PageSize]
        /\ pages' = pages + n
        /\ op' = [op EXCEPT !.at = "got", !.tag = t]
        /\ UNCHANGED <<split_left, split_right, listVars, l_completePages, owned, lock, keyVars>>

\* What is left of the piece is split off if it is not too small.
Give ==
    LET t == op.tag
        remainder == real_size[t] - op.size - 2 * TagSize
    IN  /\ At("got")
        /\ IF remainder > 0 /\ getexp(remainder) >= 0 THEN split_tag(t, op.size)
           ELSE UNCHANGED <<blockVars, listVars>>
        /\ owned' = owned \cup {<<t + TagSize, op.size>>}
        /\ event' = IF irq THEN t + TagSize ELSE event
        /\ op' = NoOp
        /\ UNCHANGED <<l_completePages, pages, lock, irq, keyboard, stuck>>

\* The piece is the caller's no longer.
Free(r) ==
    /\ Running /\ ~lock
    /\ lock' = TRUE
    /\ owned' = owned \ {r}
    /\ op' = [at |-> "free", size |-> 0, tag |-> r[1] - TagSize]
    /\ UNCHANGED heapVars

\* The two loops of free: melt_left with remove_tag, and absorb_right.
MeltLeft ==
    LET left == split_left[op.tag]
    IN  /\ At("free") /\ IsFreeTag(left)
        /\ Join(left, op.tag)
        /\ remove_tag(left)
        /\ op' = [op EXCEPT !.tag = left]
        /\ UNCHANGED <<l_completePages, pages, owned, lock, keyVars>>

AbsorbRight ==
    LET t == op.tag
        right == split_right[t]
    IN  /\ At("free") /\ ~IsFreeTag(split_left[t]) /\ IsFreeTag(right)
        /\ remove_tag(right)
        /\ Join(t, right)
        /\ UNCHANGED <<l_completePages, pages, owned, lock, op, keyVars>>

\* When a list has MAXCOMPLETE whole blocks the code prints a message forever.
Insert ==
    LET t == op.tag
        i == ListFor(Usable(t))
    IN  /\ At("free") /\ ~IsFreeTag(split_left[t]) /\ ~IsFreeTag(split_right[t])
        /\ IF Whole(t) /\ l_completePages[i] = MaxComplete
           THEN /\ op' = [op EXCEPT !.at = "full"]
                /\ UNCHANGED <<listVars, l_completePages>>
           ELSE /\ l_completePages' = [l_completePages EXCEPT ![i] = IF Whole(t) THEN @ + 1 ELSE @]
                /\ insert_tag(t, i)
                /\ op' = NoOp
        /\ UNCHANGED <<blockVars, pages, owned, lock, keyVars>>

liballoc_unlock ==
    /\ At("none") /\ lock
    /\ lock' = FALSE
    /\ UNCHANGED <<heapVars, owned, op, keyVars>>

\* Kernel code that calls malloc or free.
Kernel ==
    /\ ~irq
    /\ (\E n \in Size : Malloc(n)) \/ (\E r \in owned : Free(r))
    /\ UNCHANGED keyVars

\* keyboard_handler: a key press allocates an event, hands it on and frees it, unless
\* an extended key was pressed before.  Neither state is ever reset: the code for the
\* release of a key is not the one that the switch compares with.
keyboard_handler(code) ==
    /\ Running /\ ~irq
    /\ keyboard' = [extended |-> keyboard.extended \/ code = "extended",
                    lshift |-> keyboard.lshift \/ code = "lshift"]
    /\ IF code \in {"key", "lshift"} /\ ~keyboard.extended
       THEN IF lock THEN stuck' = TRUE /\ UNCHANGED <<heapVars, owned, lock, op, irq>>
            ELSE Malloc(KeySize) /\ irq' = TRUE /\ UNCHANGED stuck
       ELSE UNCHANGED <<heapVars, owned, lock, op, irq, stuck>>
    /\ UNCHANGED event

FreeEvent ==
    /\ irq /\ event # Null
    /\ \E r \in owned : r[1] = event /\ Free(r)
    /\ event' = Null
    /\ UNCHANGED <<irq, keyboard, stuck>>

HandlerReturns ==
    /\ Running /\ irq /\ ~lock /\ event = Null
    /\ irq' = FALSE
    /\ UNCHANGED <<heapVars, owned, lock, op, event, keyboard, stuck>>

\* The kernel stops, or the heap has reached the bound.
Stopped == (~Running \/ At("full") \/ Full) /\ UNCHANGED vars

Next ==
    \/ Kernel \/ NextTag \/ Take \/ allocate_new_tag \/ Give
    \/ MeltLeft \/ AbsorbRight \/ Insert \/ liballoc_unlock
    \/ \E code \in {"key", "lshift", "extended", "release"} : keyboard_handler(code)
    \/ FreeEvent \/ HandlerReturns
    \/ Stopped

Spec == Init /\ [][Next]_vars
-----------------------------------------------------------------------------
Pointer == pieces \cup {Null}

TypeOK ==
    /\ pieces \subseteq Address
    /\ real_size \in [Address -> Nat] /\ index \in [Address -> -1..MaxExp - 1]
    /\ \A f \in {split_left, split_right, next, prev} : f \in [Address -> Pointer]
    /\ l_freePages \in [Exp -> Pointer]
    /\ l_completePages \in [Exp -> 0..MaxComplete]
    /\ pages \in 0..MaxPages
    /\ owned \subseteq Address \X (Size \cup {KeySize})
    /\ op.at \in {"none", "search", "got", "free", "full"}
    /\ op = [at |-> op.at, size |-> op.size, tag |-> op.tag]
    /\ op.size \in Size \cup {KeySize, 0} /\ op.tag \in Pointer
    /\ event \in Address \cup {Null}
    /\ keyboard \in [extended : BOOLEAN, lshift : BOOLEAN]
    /\ lock \in BOOLEAN /\ irq \in BOOLEAN /\ stuck \in BOOLEAN

End(t) == t + real_size[t]
Top == (pages + 1) * PageSize

\* The pieces fill the heap without gap or overlap, and the pointers to the left and
\* right neighbour are each other's inverse; no byte is lost by splitting and joining.
Tiled ==
    /\ \A t \in pieces :
          /\ real_size[t] >= TagSize
          /\ split_right[t] # Null => split_right[t] = End(t) /\ split_left[End(t)] = t
          /\ split_left[t] # Null => split_right[split_left[t]] = t
          /\ split_right[t] = Null => End(t) % PageSize = 0
          /\ End(t) \in pieces \cup {Top} /\ End(t) =< Top
          /\ \A s \in pieces : ~(t < s /\ s < End(t))
    /\ pages > 0 => PageSize \in pieces

\* The piece that malloc or free has in its hands.
Current == {t \in pieces : op.at \in {"got", "free", "full"} /\ t = op.tag}

\* The pieces met on the way from the head of a list: they are in every set that has the
\* head and, with a piece, the next one.
Listed(i) ==
    {t \in pieces : \A S \in SUBSET pieces :
        {l_freePages[i]} \cup {next[s] : s \in S} \subseteq S \cup {Null} => t \in S}

\* A piece is in use, or in the one list that malloc will look for it in, once: the links
\* back are the inverse of the links forward.  What is in use has room for the size that
\* was asked for.
FreeListed ==
    /\ \A t \in pieces :
          /\ index[t] = -1 <=> t \in Current \/ \E r \in owned : r[1] = t + TagSize
          /\ index[t] # -1 => index[t] = ListFor(Usable(t))
          /\ \A i \in Exp : t \in Listed(i) <=> i = index[t]
          /\ next[t] # Null => prev[next[t]] = t
          /\ prev[t] # Null => next[prev[t]] = t
    /\ \A r \in owned :
          /\ r[1] - TagSize \in pieces \ Current /\ r[2] =< Usable(r[1] - TagSize)
          /\ \A s \in owned : s[1] = r[1] => s = r

\* No two free pieces are neighbours: what is freed is joined with both sides, in every
\* order of allocation and release.
Coalesced == \A t \in pieces : ~(IsFreeTag(t) /\ IsFreeTag(split_right[t]))

\* l_completePages is the number of whole blocks in each list, so that the limit is on
\* blocks and not on anything else.
CompleteCounted ==
    \A i \in Exp : l_completePages[i] = Cardinality({t \in pieces : index[t] = i /\ Whole(t)})

\* malloc, free and the keyboard handler's malloc keep the free lists, the split
\* pointers and the counters in agreement with the pieces of the heap.
HeapOK == TypeOK /\ Tiled /\ FreeListed /\ Coalesced /\ CompleteCounted

Abstract == INSTANCE Allocator WITH regions <- owned

\* malloc and free, interrupted by key presses, implement an allocator: a region that
\* is handed out overlaps no other.
ImplementsAllocator == Abstract!AllocatorSpec
=============================================================================
