-------------------------------- MODULE Slab --------------------------------
(***************************************************************************)
(* The slab allocator (arch/amd64/alloc.c) for the one size of object that *)
(* the kernel takes from it: the 24 bytes of a list entry and of a tree    *)
(* node.  A slab is a page with PerPage objects (170 in the code), a       *)
(* bitmap of words of WordBits bits (64) and a count of free objects.      *)
(*                                                                         *)
(* The bit of an object is made with 1 << bit, an int of IntBits bits (32):*)
(* the processor takes the shift modulo IntBits, and the sign bit fills    *)
(* the rest of the word when the int is widened.                           *)
(***************************************************************************)
EXTENDS Integers, SequencesExt, FiniteSetsExt

CONSTANTS
    IntBits,   \* width of an int
    WordBits,  \* width of an unsigned long
    PerPage,   \* objects in a slab
    MaxSlabs   \* bound on the slabs

ASSUME SlabAssumption ==
    /\ IntBits \in Nat \ {0} /\ WordBits \in Nat /\ IntBits <= WordBits
    /\ PerPage \in Nat \ {0} /\ MaxSlabs \in Nat \ {0}

Null == 0

\* Objects are numbered through all slabs; the j-th of the first slab is j + 1.
Object == 1..PerPage * MaxSlabs
Slot == 0..PerPage - 1
Word == 0..(PerPage - 1) \div WordBits
SlabOf(obj) == (obj - 1) \div PerPage + 1
SlotOf(obj) == (obj - 1) % PerPage

\* kmalloc_for_size
NewSlab == [bitmap |-> [w \in Word |-> {}], free_objects |-> PerPage]

\* alloc_register_object_size: one slab at boot.
Registered == <<NewSlab>>

\* The bits of (unsigned long) (1 << bit).
Shift(bit) ==
    LET s == bit % IntBits IN IF s = IntBits - 1 THEN s..WordBits - 1 ELSE {s}

IsFree(slab, j) == slab.bitmap[j \div WordBits] \cap Shift(j % WordBits) = {}

\* kmalloc gives out slot j of the k-th slab.
Take(slabs, k, j) ==
    [slabs EXCEPT ![k].bitmap[j \div WordBits] = @ \cup Shift(j % WordBits),
                  ![k].free_objects = @ - 1]

\* kmalloc searches the first slab that counts free objects; obj is Null when it
\* finds no bit there, which makes it search forever.  When no slab counts a free
\* object a new one is added.
kmalloc(slabs) ==
    LET k == SelectInSeq(slabs, LAMBDA s : s.free_objects > 0)
        free == {j \in Slot : IsFree(slabs[k], j)}
    IN IF k = 0
       THEN [slabs |-> Take(Append(slabs, NewSlab), Len(slabs) + 1, 0),
             obj |-> Len(slabs) * PerPage + 1]
       ELSE IF free = {} THEN [slabs |-> slabs, obj |-> Null]
       ELSE [slabs |-> Take(slabs, k, Min(free)), obj |-> (k - 1) * PerPage + Min(free) + 1]

\* kfree clears the one bit of the object, with 1UL << bitOffset.
kfree(slabs, obj) ==
    LET j == SlotOf(obj)
    IN [slabs EXCEPT ![SlabOf(obj)].bitmap[j \div WordBits] = @ \ {j % WordBits},
                     ![SlabOf(obj)].free_objects = @ + 1]

\* The objects that are given out: those below IntBits in their word whose bit is set.
GivenOut(slabs) ==
    {obj \in Object :
        /\ SlabOf(obj) \in DOMAIN slabs
        /\ SlotOf(obj) % WordBits < IntBits
        /\ SlotOf(obj) % WordBits \in slabs[SlabOf(obj)].bitmap[SlotOf(obj) \div WordBits]}
=============================================================================
