--------------------------- MODULE FrameAllocator ---------------------------
(***************************************************************************)
(* The physical frame allocator of kernel/arch/amd64/memmgr.c: a map with  *)
(* one word per frame and a search index that survives between calls.      *)
(* PHYS_MEM_LOCK is held during a whole search, so a free happens between  *)
(* searches; each iteration of the search loop is a step.                  *)
(***************************************************************************)
EXTENDS Integers

CONSTANTS
    BITMAP_SIZE,  \* number of frames in memory_map
    Reserved      \* frames memmgr_init marks: low memory and what the firmware reports

ASSUME BitmapSizeAssumption == BITMAP_SIZE \in Nat \ {0}
\* memmgr_init marks the frames of the first 16 MiB, frame 0 among them.
ASSUME ReservedAssumption == Reserved \subseteq 0..(BITMAP_SIZE - 1) /\ 0 \in Reserved

Frame == 0..(BITMAP_SIZE - 1)

VARIABLES
    memory_map,  \* 1 = used, 0 = unused
    idx,
    restart,     \* local of kalloc_frame
    searching,   \* a call of kalloc_frame is in its loop (and holds PHYS_MEM_LOCK)
    result,      \* frame the last finished call returned; 0 is "no frame"
    held         \* the frames callers got and have not freed

vars == <<memory_map, idx, restart, searching, result, held>>

\* memmgr_init.
Init ==
    /\ memory_map = [f \in Frame |-> IF f \in Reserved THEN 1 ELSE 0]
    /\ idx = 0
    /\ restart = FALSE
    /\ searching = FALSE
    /\ result = 0
    /\ held = {}

\* Mutant: the neighbour of the frame that was found is marked.
memmgr_phys_mark_page_Next(f) ==
    memory_map' = [g \in Frame |-> IF g = f + 1 THEN 1 ELSE memory_map[g]]

memmgr_phys_mark_page(f) ==
    memory_map' = [g \in Frame |-> IF g = f THEN 1 ELSE memory_map[g]]

memmgr_phys_free_page(f) ==
    memory_map' = [g \in Frame |-> IF g = f THEN 0 ELSE memory_map[g]]

kalloc_frame ==
    /\ ~searching
    /\ searching' = TRUE
    /\ restart' = (idx > 0)
    /\ UNCHANGED <<memory_map, idx, result, held>>

\* memory_map[idx] reads 0.  The loop tests the word before it tests idx, so for
\* idx = BITMAP_SIZE it reads what the linker placed behind the map, which may be 0:
\* then nothing is marked and the frame behind the map is returned.
Found ==
    /\ searching
    /\ idx \in Frame => memory_map[idx] = 0
    /\ memmgr_phys_mark_page(idx)
    /\ result' = idx
    /\ held' = held \cup {idx}
    /\ searching' = FALSE
    /\ UNCHANGED <<idx, restart>>

\* Mutant: the second round is never the last.
NextFrame_NoLastRound ==
    /\ searching
    /\ \/ idx \in Frame /\ memory_map[idx] = 1 /\ idx' = idx + 1
       \/ idx = BITMAP_SIZE /\ restart /\ idx' = 1
    /\ UNCHANGED <<restart, memory_map, searching, result, held>>

\* memory_map[idx] is not 0: go on, once more from the start if the search did not
\* begin there (idx = 0, then idx++: frame 0 is not looked at again).
NextFrame ==
    /\ searching
    /\ \/ idx \in Frame /\ memory_map[idx] = 1 /\ idx' = idx + 1 /\ UNCHANGED restart
       \/ idx = BITMAP_SIZE /\ restart /\ idx' = 1 /\ restart' = FALSE
    /\ UNCHANGED <<memory_map, searching, result, held>>

NotFound ==
    /\ searching
    /\ idx = BITMAP_SIZE /\ ~restart
    /\ searching' = FALSE
    /\ result' = 0
    /\ UNCHANGED <<memory_map, idx, restart, held>>

\* Mutant: freeing does not move the search index back.
kfree_frame_KeepsIdx(f) ==
    /\ ~searching
    /\ f \in held
    /\ held' = held \ {f}
    /\ memmgr_phys_free_page(f)
    /\ UNCHANGED <<idx, restart, searching, result>>

kfree_frame(f) ==
    /\ ~searching
    /\ f \in held
    /\ held' = held \ {f}
    /\ memmgr_phys_free_page(f)
    /\ idx' = IF idx = f THEN idx - 1 ELSE IF f < idx THEN f ELSE idx
    /\ UNCHANGED <<restart, searching, result>>

Next ==
    \/ kalloc_frame \/ Found \/ NextFrame \/ NotFound
    \/ \E f \in held : kfree_frame(f)

Spec == Init /\ [][Next]_vars

\* The loop of a started call runs on; nobody is forced to call or to free.
FairSpec == Spec /\ WF_vars(Found \/ NextFrame \/ NotFound)
-----------------------------------------------------------------------------
TypeOK ==
    /\ memory_map \in [Frame -> {0, 1}]
    /\ idx \in 0..BITMAP_SIZE
    /\ restart \in BOOLEAN
    /\ searching \in BOOLEAN
    /\ result \in 0..BITMAP_SIZE
    /\ held \subseteq 1..BITMAP_SIZE

\* A frame is marked used exactly when it is reserved or somebody holds it: no
\* frame leaks and no frame is given to two callers.
MapAgrees ==
    /\ held \cap Reserved = {}
    /\ \A f \in Frame : memory_map[f] = 1 <=> f \in Reserved \cup held

\* All frames below the search index are used, although kfree_frame moves the
\* index in three different ways and a search leaves it wherever it stopped.
BelowIdxUsed == \A f \in Frame : f < idx => memory_map[f] = 1

\* kalloc_frame returns the lowest free frame.
LowestFree ==
    [][\A f \in Frame : f \in held' \ held =>
           memory_map[f] = 0 /\ \A g \in Frame : g < f => memory_map[g] = 1]_vars

\* kalloc_frame reports failure, or reads behind the map, only when no frame is free.
FailsOnlyWhenFull ==
    [][searching /\ ~searching' /\ result' \notin Frame \ {0} =>
           \A f \in Frame : memory_map[f] = 1]_vars

\* The search loop ends.
SearchEnds == searching ~> ~searching

IndInv == TypeOK /\ MapAgrees /\ BelowIdxUsed
=============================================================================
