------------------------------- MODULE MCFat --------------------------------
(***************************************************************************)
(* Volumes of four clusters, whose table has two sectors: a file of two    *)
(* clusters and one of one; a directory; and a file behind an erased       *)
(* entry, whose chain another system has ended.                            *)
(***************************************************************************)
EXTENDS Fat, TLC

Table(links) == [c \in Entry |-> IF c \in DOMAIN links THEN links[c] ELSE 0]
Root(entries) == [c \in Cluster |-> IF c = RootCluster THEN entries ELSE NoEntries]

MCVolumes ==
    {[fat |-> Table(0 :> End8 @@ 1 :> EndF @@ 2 :> 3 @@ 3 :> EndF @@ 4 :> EndF @@ 5 :> End8),
      area |-> Root(<<Slot("a", "file", 2, 3), Slot("b", "file", 4, 1)>>)],
     [fat |-> Table(0 :> End8 @@ 1 :> EndF @@ 2 :> EndF @@ 3 :> EndF @@ 5 :> End8),
      area |-> Root(<<Slot("a", "dir", 2, 0), Slot("b", "file", 3, 1)>>)],
     [fat |-> Table(0 :> End8 @@ 1 :> EndF @@ 3 :> 2 @@ 2 :> End8 @@ 5 :> End8),
      area |-> Root(<<Slot("", "erased", 0, 0), Slot("b", "file", 3, 4)>>)]}
=============================================================================
