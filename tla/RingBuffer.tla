----------------------------- MODULE RingBuffer -----------------------------
(***************************************************************************)
(* The ring buffer of libc/kernel/ring_buffer.c, created without           *)
(* blockingWrite as every caller does, with one writer and any number of   *)
(* readers.  Each access happens with interrupts off and cb->lock held, so *)
(* it is one step; ring_buffer_write takes the lock once per byte.         *)
(***************************************************************************)
EXTENDS Integers, Sequences

CONSTANTS
    max,   \* cb->max, the size of the buffer
    Byte   \* the bytes that are written

ASSUME MaxAssumption == max \in Nat \ {0}

VARIABLES
    buffer,  \* cb->buffer
    head,    \* index of the next byte to read
    tail,    \* index of the next byte to write
    todo,    \* what ring_buffer_write still has to write
    ret      \* what the last call of ring_buffer_write returned

vars == <<buffer, head, tail, todo, ret>>

Index == 0..(max - 1)

\* Mutant: the slot that tells a full ring from an empty one is used too.
ring_buffer_writeable_NoGap ==
    IF head = tail THEN max
    ELSE IF tail < head THEN head - tail ELSE (max - tail) + head

ring_buffer_writeable ==
    IF head = tail THEN max - 1
    ELSE IF tail < head THEN head - tail - 1 ELSE (max - tail) + head - 1

ring_buffer_available ==
    IF head = tail THEN 0
    ELSE IF tail < head THEN (max - head) + tail ELSE tail - head

\* ring_buffer_peek for an offset below the number of available bytes.
ring_buffer_peek(offset) == buffer[(head + offset) % max]

(***************************************************************************)
(* The critical sections.                                                  *)
(***************************************************************************)

\* One byte of ring_buffer_write.
PutByte(c) ==
    /\ buffer' = [buffer EXCEPT ![tail] = c]
    /\ tail' = IF tail + 1 >= max THEN 0 ELSE tail + 1
    /\ UNCHANGED head

\* The copy loop of ring_buffer_read: as much as there is, at most size bytes.
ReadCount(size) == IF ring_buffer_available < size THEN ring_buffer_available ELSE size

TakeBytes(size) ==
    /\ head' = (head + ReadCount(size)) % max
    /\ UNCHANGED <<buffer, tail>>

\* ring_buffer_pop takes back the byte written last.
PopByte ==
    /\ ring_buffer_available # 0
    /\ tail' = (tail - 1 + max) % max
    /\ UNCHANGED <<buffer, head>>

ring_buffer_discard_readable == head' = tail /\ UNCHANGED <<buffer, tail>>

-----------------------------------------------------------------------------
(***************************************************************************)
(* The calls.  calloc leaves the buffer full of one byte value.            *)
(***************************************************************************)
Init ==
    /\ buffer \in {[i \in Index |-> z] : z \in Byte}
    /\ head = 0
    /\ tail = 0
    /\ todo = <<>>
    /\ ret = 0

\* Mutant: off by one in the test for room.
ring_buffer_write_OffByOne(data) ==
    /\ todo = <<>>
    /\ IF ring_buffer_writeable + 1 < Len(data)
       THEN ret' = 0 /\ UNCHANGED todo
       ELSE ret' = Len(data) /\ todo' = data
    /\ UNCHANGED <<buffer, head, tail>>

\* The test before the loop: everything fits, or nothing is written.
ring_buffer_write(data) ==
    /\ todo = <<>>
    /\ IF ring_buffer_writeable < Len(data)
       THEN ret' = 0 /\ UNCHANGED todo
       ELSE ret' = Len(data) /\ todo' = data
    /\ UNCHANGED <<buffer, head, tail>>

WriteNext ==
    /\ todo # <<>>
    /\ PutByte(Head(todo))
    /\ todo' = Tail(todo)
    /\ UNCHANGED ret

ring_buffer_read(size) ==
    /\ ring_buffer_available > 0
    /\ TakeBytes(size)
    /\ UNCHANGED <<todo, ret>>

\* Only the writer pops, and never inside ring_buffer_write.
ring_buffer_pop == todo = <<>> /\ PopByte /\ UNCHANGED <<todo, ret>>

Discard == ring_buffer_discard_readable /\ UNCHANGED <<todo, ret>>

Data == UNION {[1..n -> Byte] : n \in 1..max}

Next ==
    \/ \E data \in Data : ring_buffer_write(data)
    \/ WriteNext
    \/ \E size \in 1..max : ring_buffer_read(size)
    \/ ring_buffer_pop
    \/ Discard

Spec == Init /\ [][Next]_vars
-----------------------------------------------------------------------------
TypeOK ==
    /\ buffer \in [Index -> Byte]
    /\ head \in Index
    /\ tail \in Index
    /\ todo \in Seq(Byte)
    /\ ret \in 0..max

\* The rest of an accepted write still fits when a byte is written long after the
\* test of ring_buffer_write: a reader only makes room, and nobody else writes.
RestFits == Len(todo) <= ring_buffer_writeable

IndInv == TypeOK /\ RestFits

\* What a reader will get, oldest byte first.
Contents == [i \in 1..ring_buffer_available |-> ring_buffer_peek(i - 1)]

Queue == INSTANCE BoundedQueue WITH Capacity <- max - 1, q <- Contents

\* Across the wrap-around of head and tail the ring is a first-in first-out queue of
\* max - 1 bytes: no byte is lost, duplicated, reordered or overwritten.
ImplementsQueue == Queue!QueueSpec
=============================================================================
