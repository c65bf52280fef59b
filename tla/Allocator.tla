----------------------------- MODULE Allocator -----------------------------
(***************************************************************************)
(* What malloc and free promise: a region that was handed out belongs to   *)
(* its owner alone until it is given back.                                 *)
(***************************************************************************)
EXTENDS Integers

CONSTANT Address

VARIABLE regions  \* pairs of the first address and the length

Bytes(r) == r[1]..r[1] + r[2] - 1

Allocate ==
    /\ regions \subseteq regions'
    /\ \A r \in regions' \ regions :
          /\ Bytes(r) \subseteq Address
          /\ \A s \in regions' \ {r} : Bytes(r) \cap Bytes(s) = {} /\ r[1] # s[1]

Release == \E r \in regions : regions' = regions \ {r}

AllocatorSpec == regions = {} /\ [][Allocate \/ Release]_regions
=============================================================================
