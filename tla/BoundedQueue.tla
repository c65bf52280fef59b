---------------------------- MODULE BoundedQueue ----------------------------
(***************************************************************************)
(* What a ring buffer promises: a queue of bytes with a capacity.  A       *)
(* writer moves the bytes it has accepted, todo, one by one to the end of  *)
(* the queue, and may take back the last one; a reader takes bytes from    *)
(* the front.  How a writer comes by its bytes is left open: only steps    *)
(* that change the queue are constrained.                                  *)
(***************************************************************************)
EXTENDS Integers, Sequences

CONSTANTS Byte, Capacity

VARIABLES q, todo

QueueInit == q = <<>>

Put ==
    /\ todo # <<>>
    /\ Head(todo) \in Byte
    /\ Len(q) < Capacity
    /\ q' = Append(q, Head(todo))
    /\ todo' = Tail(todo)

Take(n) ==
    /\ n <= Len(q)
    /\ q' = SubSeq(q, n + 1, Len(q))
    /\ UNCHANGED todo

Drop ==
    /\ q # <<>>
    /\ q' = SubSeq(q, 1, Len(q) - 1)
    /\ UNCHANGED todo

Clear == q' = <<>> /\ UNCHANGED todo

QueueNext ==
    \/ Put
    \/ \E n \in 1..Capacity : Take(n)
    \/ Drop
    \/ Clear

QueueSpec == QueueInit /\ [][QueueNext]_q
=============================================================================
