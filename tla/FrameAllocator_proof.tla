------------------------ MODULE FrameAllocator_proof ------------------------
(***************************************************************************)
(* For every size of the map and every set of reserved frames: the map     *)
(* agrees with what callers hold, and kalloc_frame returns the lowest free *)
(* frame, or none when none is free.                                       *)
(***************************************************************************)
EXTENDS FrameAllocator, TLAPS

\* memmgr_init establishes the invariant.
LEMMA InitInv == Init => IndInv
<1> SUFFICES ASSUME Init PROVE IndInv
  OBVIOUS
<1>1. TypeOK
  <2>1. 0 \in 0..BITMAP_SIZE
    BY BitmapSizeAssumption
  <2>2. memory_map \in [Frame -> {0, 1}]
    BY DEF Init
  <2> QED BY <2>1, <2>2, Zenon DEF Init, TypeOK
<1>2. MapAgrees /\ BelowIdxUsed
  BY BitmapSizeAssumption, ReservedAssumption DEF Init, MapAgrees, BelowIdxUsed, Frame
<1> QED BY <1>1, <1>2 DEF IndInv

\* Every step of a search and every free preserves it.
LEMMA NextInv == IndInv /\ [Next]_vars => IndInv'
<1> SUFFICES ASSUME IndInv, [Next]_vars PROVE IndInv'
  OBVIOUS
<1> USE BitmapSizeAssumption, ReservedAssumption
<1>1. CASE kalloc_frame
  BY <1>1 DEF kalloc_frame, IndInv, TypeOK, MapAgrees, BelowIdxUsed
<1>2. CASE Found
  <2>1. idx \in 1..BITMAP_SIZE
    BY <1>2 DEF Found, IndInv, TypeOK, MapAgrees, Frame
  <2>2. TypeOK'
    BY <1>2, <2>1 DEF Found, memmgr_phys_mark_page, IndInv, TypeOK
  <2>3. MapAgrees'
    <3>1. idx \notin Reserved
      BY <1>2, <2>1 DEF Found, IndInv, MapAgrees, Frame
    <3> QED BY <1>2, <3>1 DEF Found, memmgr_phys_mark_page, IndInv, MapAgrees
  <2>4. BelowIdxUsed'
    BY <1>2 DEF Found, memmgr_phys_mark_page, IndInv, BelowIdxUsed
  <2> QED BY <2>2, <2>3, <2>4 DEF IndInv
<1>3. CASE NextFrame
  <2>1. TypeOK'
    <3>1. idx' \in 0..BITMAP_SIZE
      BY <1>3 DEF NextFrame, Frame
    <3>2. restart' \in BOOLEAN
      BY <1>3, Zenon DEF NextFrame, IndInv, TypeOK
    <3> QED BY <1>3, <3>1, <3>2 DEF NextFrame, IndInv, TypeOK
  <2>2. MapAgrees'
    BY <1>3 DEF NextFrame, IndInv, MapAgrees
  <2>3. BelowIdxUsed'
    <3>1. CASE idx \in Frame /\ memory_map[idx] = 1 /\ idx' = idx + 1
      BY <1>3, <3>1 DEF NextFrame, IndInv, BelowIdxUsed, Frame
    <3>2. CASE idx' = 1
      BY <1>3, <3>2 DEF NextFrame, IndInv, MapAgrees, BelowIdxUsed, Frame
    <3> QED BY <1>3, <3>1, <3>2 DEF NextFrame
  <2> QED BY <2>1, <2>2, <2>3 DEF IndInv
<1>4. CASE NotFound
  <2>1. 0 \in 0..BITMAP_SIZE
    OBVIOUS
  <2> QED BY <1>4, <2>1 DEF NotFound, IndInv, TypeOK, MapAgrees, BelowIdxUsed
<1>5. ASSUME NEW f \in held, kfree_frame(f) PROVE IndInv'
  <2>1. f \in 1..BITMAP_SIZE /\ f \notin Reserved
    BY <1>5 DEF IndInv, TypeOK, MapAgrees
  <2>2. idx' \in 0..BITMAP_SIZE
    BY <1>5, <2>1 DEF kfree_frame, IndInv, TypeOK
  <2>3. TypeOK'
    BY <1>5, <2>2 DEF kfree_frame, memmgr_phys_free_page, IndInv, TypeOK
  <2>4. MapAgrees'
    BY <1>5, <2>1 DEF kfree_frame, memmgr_phys_free_page, IndInv, MapAgrees
  <2>5. BelowIdxUsed'
    <3>1. idx' <= idx /\ idx' <= f
      BY <1>5, <2>1 DEF kfree_frame, IndInv, TypeOK
    <3>2. ASSUME NEW g \in Frame, g < idx' PROVE memory_map'[g] = 1
      <4>1. g # f /\ g < idx
        BY <2>1, <2>2, <3>1, <3>2 DEF Frame, IndInv, TypeOK
      <4> QED BY <1>5, <4>1 DEF kfree_frame, memmgr_phys_free_page, IndInv, BelowIdxUsed
    <3> QED BY <3>2 DEF BelowIdxUsed
  <2> QED BY <2>3, <2>4, <2>5 DEF IndInv
<1>6. CASE UNCHANGED vars
  BY <1>6 DEF vars, IndInv, TypeOK, MapAgrees, BelowIdxUsed
<1> QED BY <1>1, <1>2, <1>3, <1>4, <1>5, <1>6 DEF Next

\* The map, the holders and the search index always agree.
THEOREM InductiveInvariant == Spec => []IndInv
  BY InitInv, NextInv, PTL DEF Spec

\* No frame leaks and none is handed out twice, for every size of the map.
THEOREM MapAgreesHolds == Spec => []MapAgrees
  BY InductiveInvariant, PTL DEF IndInv

\* Every frame below the search index is used, for every size of the map.
THEOREM BelowIdxUsedHolds == Spec => []BelowIdxUsed
  BY InductiveInvariant, PTL DEF IndInv

\* kalloc_frame is first fit: the search index never hides a lower free frame.
THEOREM LowestFreeHolds == Spec => LowestFree
<1> DEFINE Step == \A f \in Frame : f \in held' \ held =>
                       memory_map[f] = 0 /\ \A g \in Frame : g < f => memory_map[g] = 1
<1>1. IndInv /\ [Next]_vars => [Step]_vars
  <2> SUFFICES ASSUME IndInv, Next, NEW f \in Frame, f \in held' \ held
               PROVE  memory_map[f] = 0 /\ \A g \in Frame : g < f => memory_map[g] = 1
    BY DEF vars
  <2>1. CASE Found
    BY <2>1 DEF Found, IndInv, BelowIdxUsed
  <2>2. CASE kalloc_frame \/ NextFrame \/ NotFound \/ \E g \in held : kfree_frame(g)
    BY <2>2 DEF kalloc_frame, NextFrame, NotFound, kfree_frame
  <2> QED BY <2>1, <2>2 DEF Next
<1> QED BY <1>1, InductiveInvariant, PTL DEF Spec, LowestFree

\* kalloc_frame gives up, or reads behind the map, only when every frame is used.
THEOREM FailsOnlyWhenFullHolds == Spec => FailsOnlyWhenFull
<1> DEFINE Step == searching /\ ~searching' /\ result' \notin Frame \ {0} =>
                       \A f \in Frame : memory_map[f] = 1
<1>1. IndInv /\ [Next]_vars => [Step]_vars
  <2> SUFFICES ASSUME IndInv, Next, searching, ~searching', result' \notin Frame \ {0},
                      NEW f \in Frame
               PROVE  memory_map[f] = 1
    BY DEF vars
  <2>1. Found \/ NotFound
    BY DEF Next, kalloc_frame, NextFrame, kfree_frame
  <2>2. idx \notin Frame \/ idx = 0
    BY <2>1, BitmapSizeAssumption DEF Found, NotFound, Frame
  <2>3. memory_map[0] = 1
    BY BitmapSizeAssumption, ReservedAssumption DEF IndInv, MapAgrees, Frame
  <2>4. idx = BITMAP_SIZE
    BY <2>1, <2>2, <2>3, BitmapSizeAssumption
       DEF Found, NotFound, IndInv, TypeOK, Frame
  <2> QED BY <2>4, BitmapSizeAssumption DEF IndInv, BelowIdxUsed, Frame
<1> QED BY <1>1, InductiveInvariant, PTL DEF Spec, FailsOnlyWhenFull
=============================================================================
