-------------------------- MODULE RingBuffer_proof --------------------------
(***************************************************************************)
(* The ring buffer is a bounded queue, for every size and every set of     *)
(* bytes.  The inductive invariant says that what a write has still to     *)
(* store fits; without it WriteNext could run into the bytes not yet read. *)
(***************************************************************************)
EXTENDS RingBuffer, SequenceTheorems, TLAPS

\* x % max for an index x that has passed the end of the buffer at most once.
Wrap(x) == IF x < max THEN x ELSE x - max

\* The number of bytes and the contents as functions of the indices and the buffer, to
\* speak of them before and after a step.
Avail(h, t) == IF h = t THEN 0 ELSE IF t < h THEN (max - h) + t ELSE t - h
ContentsOf(b, h, t) == [i \in 1..Avail(h, t) |-> b[(h + (i - 1)) % max]]

\* Every index the code computes is below 2 * max, where the remainder is Wrap.
LEMMA ModFacts ==
    ASSUME NEW x \in Nat, x < 2 * max
    PROVE  x % max = Wrap(x)
<1>1. CASE x < max
  BY <1>1, MaxAssumption, Z3 DEF Wrap
<1>2. CASE x >= max
  BY <1>2, MaxAssumption, Z3 DEF Wrap
<1> QED BY <1>1, <1>2, MaxAssumption

\* Bytes and room add up to one less than the size of the buffer.
LEMMA RoomFacts ==
    ASSUME NEW h \in Index, NEW t \in Index
    PROVE  /\ Avail(h, t) \in 0..(max - 1)
           /\ t = Wrap(h + Avail(h, t))
           /\ max - 1 - Avail(h, t) =
                  IF h = t THEN max - 1
                  ELSE IF t < h THEN h - t - 1 ELSE (max - t) + h - 1
  BY MaxAssumption DEF Index, Avail, Wrap

\* The code's ring_buffer_writeable is what ring_buffer_available leaves.
LEMMA WriteableFacts ==
    /\ ring_buffer_available = Avail(head, tail)
    /\ head \in Index /\ tail \in Index =>
           ring_buffer_writeable = max - 1 - Avail(head, tail)
  BY MaxAssumption DEF ring_buffer_available, ring_buffer_writeable, Avail, Index

\* The contents are a sequence of as many bytes as are available.
LEMMA ContentsFacts ==
    ASSUME NEW b \in [Index -> Byte], NEW h \in Index, NEW t \in Index
    PROVE  /\ ContentsOf(b, h, t) \in Seq(Byte)
           /\ Len(ContentsOf(b, h, t)) = Avail(h, t)
           /\ \A i \in 1..Avail(h, t) :
                  /\ Wrap(h + (i - 1)) \in Index
                  /\ ContentsOf(b, h, t)[i] = b[Wrap(h + (i - 1))]
<1> DEFINE n == Avail(h, t)
<1>1. n \in 0..(max - 1)
  BY RoomFacts
<1> HIDE DEF n
<1>2. ASSUME NEW i \in 1..n
      PROVE  /\ Wrap(h + (i - 1)) \in Index
             /\ (h + (i - 1)) % max = Wrap(h + (i - 1))
  <2>1. h + (i - 1) \in Nat /\ h + (i - 1) < 2 * max
    BY <1>1, MaxAssumption DEF Index
  <2>2. (h + (i - 1)) % max = Wrap(h + (i - 1))
    BY <2>1, ModFacts
  <2> QED BY <1>1, <2>1, <2>2, MaxAssumption DEF Wrap, Index
<1>3. /\ ContentsOf(b, h, t) \in [1..n -> Byte]
      /\ \A i \in 1..n : ContentsOf(b, h, t)[i] = b[Wrap(h + (i - 1))]
  BY <1>2 DEF ContentsOf, n
<1>4. ContentsOf(b, h, t) \in Seq(Byte) /\ Len(ContentsOf(b, h, t)) = n
  BY <1>1, <1>3
<1> QED BY <1>2, <1>3, <1>4 DEF n
-----------------------------------------------------------------------------
\* Writing a byte where there is room appends it to the contents.
LEMMA PutFacts ==
    ASSUME TypeOK, ring_buffer_writeable >= 1, NEW c \in Byte, PutByte(c)
    PROVE  /\ buffer' \in [Index -> Byte] /\ head' \in Index /\ tail' \in Index
           /\ Avail(head', tail') = Avail(head, tail) + 1
           /\ ContentsOf(buffer', head', tail') = Append(ContentsOf(buffer, head, tail), c)
<1> DEFINE n == Avail(head, tail)
           old == ContentsOf(buffer, head, tail)
           new == ContentsOf(buffer', head', tail')
<1>1. n \in 0..(max - 1) /\ n < max - 1 /\ tail = Wrap(head + n)
  BY RoomFacts, WriteableFacts, MaxAssumption DEF TypeOK
<1>2. buffer' \in [Index -> Byte] /\ head' \in Index /\ tail' \in Index
  BY MaxAssumption DEF PutByte, TypeOK, Index
<1>3. Avail(head', tail') = n + 1
  BY <1>1, MaxAssumption DEF PutByte, TypeOK, Index, Avail
<1>4. /\ old \in Seq(Byte) /\ Len(old) = n
      /\ \A i \in 1..n : Wrap(head + (i - 1)) \in Index /\ old[i] = buffer[Wrap(head + (i - 1))]
  BY ContentsFacts DEF TypeOK
<1>5. /\ new \in Seq(Byte) /\ Len(new) = n + 1
      /\ \A i \in 1..(n + 1) : /\ Wrap(head' + (i - 1)) \in Index
                               /\ new[i] = buffer'[Wrap(head' + (i - 1))]
  BY <1>2, <1>3, ContentsFacts
<1> HIDE DEF n, old, new
<1>6. ASSUME NEW i \in 1..(n + 1) PROVE new[i] = Append(old, c)[i]
  <2>1. CASE i = n + 1
    BY <1>1, <1>2, <1>4, <1>5, <2>1 DEF PutByte, TypeOK
  <2>2. CASE i < n + 1
    <3>1. Wrap(head + (i - 1)) # tail
      BY <1>1, <2>2, MaxAssumption DEF Wrap, TypeOK, Index
    <3> QED BY <1>1, <1>4, <1>5, <2>2, <3>1 DEF PutByte, TypeOK
  <2>3. i = n + 1 \/ i < n + 1
    BY <1>1, MaxAssumption
  <2> QED BY <2>1, <2>2, <2>3, Zenon
<1>7. Append(old, c) \in Seq(Byte) /\ Len(Append(old, c)) = n + 1
  BY <1>4
<1>8. new = Append(old, c)
  BY <1>5, <1>6, <1>7, SeqEqual
<1> QED BY <1>2, <1>3, <1>8 DEF n, old, new

\* Reading takes bytes from the front of the contents.
LEMMA TakeFacts ==
    ASSUME TypeOK, NEW size \in Nat, TakeBytes(size)
    PROVE  /\ ReadCount(size) \in 0..Avail(head, tail)
           /\ buffer' = buffer /\ head' \in Index /\ tail' = tail
           /\ Avail(head', tail') = Avail(head, tail) - ReadCount(size)
           /\ ContentsOf(buffer', head', tail') =
                  SubSeq(ContentsOf(buffer, head, tail), ReadCount(size) + 1,
                         Len(ContentsOf(buffer, head, tail)))
<1> DEFINE n == Avail(head, tail)
           k == ReadCount(size)
           old == ContentsOf(buffer, head, tail)
           new == ContentsOf(buffer', head', tail')
           rest == SubSeq(old, k + 1, Len(old))
<1>1. n \in 0..(max - 1) /\ tail = Wrap(head + n)
  BY RoomFacts DEF TypeOK
<1>2. k \in 0..n
  BY <1>1, WriteableFacts DEF ReadCount
<1>3. head' = Wrap(head + k) /\ buffer' = buffer /\ tail' = tail
  <2> HIDE DEF k, n
  <2>1. head + k \in Nat /\ head + k < 2 * max
    BY <1>1, <1>2, MaxAssumption DEF TypeOK, Index
  <2>2. (head + k) % max = Wrap(head + k)
    BY <2>1, ModFacts
  <2> QED BY <2>2 DEF TakeBytes, k
<1>4. head' \in Index
  <2> HIDE DEF k, n
  <2> QED BY <1>1, <1>2, <1>3, MaxAssumption DEF Wrap, TypeOK, Index
<1>5. Avail(head', tail') = n - k
  <2> HIDE DEF k
  <2> QED BY <1>1, <1>2, <1>3, MaxAssumption DEF Wrap, TypeOK, Index, Avail
<1>6. /\ old \in Seq(Byte) /\ Len(old) = n
      /\ \A i \in 1..n : Wrap(head + (i - 1)) \in Index /\ old[i] = buffer[Wrap(head + (i - 1))]
  BY ContentsFacts DEF TypeOK
<1>7. /\ new \in Seq(Byte) /\ Len(new) = n - k
      /\ \A i \in 1..(n - k) : new[i] = buffer'[Wrap(head' + (i - 1))]
  <2>1. buffer' \in [Index -> Byte] /\ tail' \in Index
    BY <1>3 DEF TypeOK
  <2> QED BY <1>4, <1>5, <2>1, ContentsFacts
<1> HIDE DEF n, k, old, new
<1>8. /\ rest \in Seq(Byte) /\ Len(rest) = n - k
      /\ \A i \in 1..(n - k) : rest[i] = old[k + i]
  <2>1. \A i \in (k + 1)..n : old[i] \in Byte
    BY <1>1, <1>2, <1>6
  <2>2. /\ rest \in Seq(Byte)
        /\ Len(rest) = IF k + 1 <= n THEN n - (k + 1) + 1 ELSE 0
        /\ \A i \in 1..(n - (k + 1) + 1) : rest[i] = old[(k + 1) + i - 1]
    BY <1>1, <1>2, <1>6, <2>1, SubSeqProperties
  <2> HIDE DEF rest
  <2>3. Len(rest) = n - k
    BY <1>1, <1>2, <2>2, MaxAssumption
  <2>4. ASSUME NEW i \in 1..(n - k) PROVE rest[i] = old[k + i]
    <3>1. i \in 1..(n - (k + 1) + 1) /\ (k + 1) + i - 1 = k + i
      BY <1>1, <1>2, MaxAssumption
    <3> QED BY <2>2, <3>1
  <2> QED BY <2>2, <2>3, <2>4
<1>9. ASSUME NEW i \in 1..(n - k) PROVE new[i] = rest[i]
  <2>1. Wrap(head' + (i - 1)) = Wrap(head + ((k + i) - 1))
    BY <1>1, <1>2, <1>3, MaxAssumption DEF Wrap, TypeOK, Index
  <2>2. k + i \in 1..n
    BY <1>1, <1>2
  <2> QED BY <1>3, <1>6, <1>7, <1>8, <2>1, <2>2
<1>10. new = rest
  <2> HIDE DEF rest
  <2> QED BY <1>7, <1>8, <1>9, SeqEqual
<1> QED BY <1>2, <1>3, <1>4, <1>5, <1>10 DEF n, k, old, new

\* Taking back the byte written last drops it from the end of the contents.
LEMMA PopFacts ==
    ASSUME TypeOK, PopByte
    PROVE  /\ Avail(head, tail) > 0
           /\ buffer' = buffer /\ head' = head /\ tail' \in Index
           /\ Avail(head', tail') = Avail(head, tail) - 1
           /\ ContentsOf(buffer', head', tail') =
                  SubSeq(ContentsOf(buffer, head, tail), 1,
                         Len(ContentsOf(buffer, head, tail)) - 1)
<1> DEFINE n == Avail(head, tail)
           old == ContentsOf(buffer, head, tail)
           new == ContentsOf(buffer', head', tail')
           rest == SubSeq(old, 1, Len(old) - 1)
<1>1. n \in 0..(max - 1) /\ n > 0 /\ tail = Wrap(head + n)
  BY RoomFacts, WriteableFacts DEF TypeOK, PopByte
<1>2. buffer' = buffer /\ head' = head /\ tail' = Wrap(tail - 1 + max)
  <2>1. tail - 1 + max \in Nat /\ tail - 1 + max < 2 * max
    BY MaxAssumption DEF TypeOK, Index
  <2>2. (tail - 1 + max) % max = Wrap(tail - 1 + max)
    BY <2>1, ModFacts
  <2> QED BY <2>2 DEF PopByte
<1>3. tail' \in Index
  BY <1>2, MaxAssumption DEF Wrap, TypeOK, Index
<1>4. Avail(head', tail') = n - 1
  BY <1>1, <1>2, MaxAssumption DEF Wrap, TypeOK, Index, Avail
<1>5. /\ old \in Seq(Byte) /\ Len(old) = n
      /\ \A i \in 1..n : old[i] = buffer[Wrap(head + (i - 1))]
  BY ContentsFacts DEF TypeOK
<1>6. /\ new \in Seq(Byte) /\ Len(new) = n - 1
      /\ \A i \in 1..(n - 1) : new[i] = buffer'[Wrap(head' + (i - 1))]
  <2>1. buffer' \in [Index -> Byte] /\ head' \in Index
    BY <1>2 DEF TypeOK
  <2> QED BY <1>3, <1>4, <2>1, ContentsFacts
<1> HIDE DEF n, old, new
<1>7. /\ rest \in Seq(Byte) /\ Len(rest) = n - 1
      /\ \A i \in 1..(n - 1) : rest[i] = old[i]
  <2>1. \A i \in 1..(n - 1) : old[i] \in Byte
    BY <1>1, <1>5
  <2>2. /\ rest \in Seq(Byte)
        /\ Len(rest) = IF 1 <= n - 1 THEN n - 1 - 1 + 1 ELSE 0
        /\ \A i \in 1..(n - 1 - 1 + 1) : rest[i] = old[1 + i - 1]
    BY <1>1, <1>5, <2>1, SubSeqProperties
  <2> HIDE DEF rest
  <2> QED BY <1>1, <2>2
<1>8. new = rest
  <2> HIDE DEF rest
  <2>1. ASSUME NEW i \in 1..(n - 1) PROVE new[i] = rest[i]
    <3>1. i \in 1..n
      BY <1>1, MaxAssumption
    <3> QED BY <1>2, <1>5, <1>6, <1>7, <3>1
  <2> QED BY <1>6, <1>7, <2>1, SeqEqual
<1> QED BY <1>1, <1>2, <1>3, <1>4, <1>8 DEF n, old, new
-----------------------------------------------------------------------------
\* An empty buffer satisfies the invariant.
LEMMA InitInv == Init => IndInv
<1> SUFFICES ASSUME Init PROVE IndInv
  OBVIOUS
<1>1. head \in Index /\ tail \in Index /\ buffer \in [Index -> Byte]
  BY MaxAssumption DEF Init, Index
<1>2. Len(todo) = 0 /\ todo \in Seq(Byte) /\ ret \in 0..max
  BY EmptySeq, MaxAssumption DEF Init
<1>3. 0 <= ring_buffer_writeable
  BY <1>1, RoomFacts, WriteableFacts, MaxAssumption
<1> QED BY <1>1, <1>2, <1>3 DEF IndInv, TypeOK, RestFits

\* Every call and every byte written preserves it: reads, pops and discards only make
\* room, and a byte written uses the room it was promised.
LEMMA NextInv == IndInv /\ [Next]_vars => IndInv'
<1> SUFFICES ASSUME IndInv, [Next]_vars PROVE IndInv'
  OBVIOUS
<1>1. TypeOK /\ Len(todo) \in Nat /\ Len(todo) <= ring_buffer_writeable
  BY DEF IndInv, TypeOK, RestFits
<1>2. ring_buffer_writeable = max - 1 - Avail(head, tail)
  BY <1>1, WriteableFacts DEF TypeOK
<1>3. head' \in Index /\ tail' \in Index =>
          ring_buffer_writeable' = max - 1 - Avail(head', tail')
  <2>1. ring_buffer_writeable' =
            IF head' = tail' THEN max - 1
            ELSE IF tail' < head' THEN head' - tail' - 1 ELSE (max - tail') + head' - 1
    BY DEF ring_buffer_writeable
  <2> QED BY <2>1, RoomFacts
<1>4. Avail(head, tail) \in 0..(max - 1)
  BY <1>1, RoomFacts DEF TypeOK
<1>5. ASSUME NEW data \in Data, ring_buffer_write(data) PROVE IndInv'
  <2>1. PICK n \in 1..max : data \in [1..n -> Byte]
    BY <1>5 DEF Data
  <2>2. data \in Seq(Byte) /\ Len(data) = n
    BY <2>1, MaxAssumption
  <2>3. TypeOK'
    <3>1. ret' \in 0..max /\ todo' \in Seq(Byte)
      <4>1. CASE ring_buffer_writeable < Len(data)
        BY <1>1, <1>5, <4>1, MaxAssumption DEF ring_buffer_write, TypeOK
      <4>2. CASE ~(ring_buffer_writeable < Len(data))
        BY <1>5, <2>2, <4>2, MaxAssumption DEF ring_buffer_write
      <4> QED BY <4>1, <4>2
    <3> QED BY <1>1, <1>5, <3>1 DEF ring_buffer_write, TypeOK
  <2>4. Len(todo') <= ring_buffer_writeable
    BY <1>1, <1>2, <1>4, <1>5, <2>2, MaxAssumption DEF ring_buffer_write
  <2>5. ring_buffer_writeable' = ring_buffer_writeable
    BY <1>5 DEF ring_buffer_write, ring_buffer_writeable
  <2> QED BY <2>3, <2>4, <2>5 DEF IndInv, RestFits
<1>6. CASE WriteNext
  <2>1. Head(todo) \in Byte /\ Tail(todo) \in Seq(Byte) /\ Len(Tail(todo)) = Len(todo) - 1
    BY <1>1, <1>6, HeadTailProperties DEF WriteNext, TypeOK
  <2>2. ring_buffer_writeable >= 1
    BY <1>1, <1>2, <1>4, <1>6, EmptySeq, MaxAssumption DEF WriteNext, TypeOK
  <2>3. /\ buffer' \in [Index -> Byte] /\ head' \in Index /\ tail' \in Index
        /\ Avail(head', tail') = Avail(head, tail) + 1
    BY <1>1, <1>6, <2>1, <2>2, PutFacts DEF WriteNext
  <2>4. TypeOK'
    BY <1>1, <1>6, <2>1, <2>3 DEF WriteNext, TypeOK
  <2>5. Len(todo') <= ring_buffer_writeable'
    BY <1>1, <1>2, <1>3, <1>4, <1>6, <2>1, <2>3, MaxAssumption DEF WriteNext
  <2> QED BY <2>4, <2>5 DEF IndInv, RestFits
<1>7. ASSUME UNCHANGED <<todo, ret>>, buffer' = buffer, head' \in Index, tail' \in Index,
             Avail(head', tail') <= Avail(head, tail)
      PROVE  IndInv'
  <2>1. TypeOK'
    BY <1>1, <1>7 DEF TypeOK
  <2>2. Avail(head', tail') \in 0..(max - 1)
    BY <1>7, RoomFacts
  <2>3. Len(todo') <= ring_buffer_writeable'
    BY <1>1, <1>2, <1>3, <1>4, <1>7, <2>2, MaxAssumption
  <2> QED BY <2>1, <2>3 DEF IndInv, RestFits
<1>8. ASSUME NEW size \in 1..max, ring_buffer_read(size) PROVE IndInv'
  <2>1. size \in Nat
    BY MaxAssumption
  <2>2. /\ ReadCount(size) \in 0..Avail(head, tail)
        /\ buffer' = buffer /\ head' \in Index /\ tail' = tail
        /\ Avail(head', tail') = Avail(head, tail) - ReadCount(size)
    BY <1>1, <1>8, <2>1, TakeFacts DEF ring_buffer_read
  <2>3. Avail(head', tail') <= Avail(head, tail) /\ tail' \in Index
    BY <1>1, <1>4, <2>2, MaxAssumption DEF TypeOK
  <2> QED BY <1>7, <1>8, <2>2, <2>3 DEF ring_buffer_read
<1>9. CASE ring_buffer_pop
  <2>1. /\ buffer' = buffer /\ head' = head /\ tail' \in Index
        /\ Avail(head', tail') = Avail(head, tail) - 1
    BY <1>1, <1>9, PopFacts DEF ring_buffer_pop
  <2>2. Avail(head', tail') <= Avail(head, tail) /\ head' \in Index
    BY <1>1, <1>4, <2>1, MaxAssumption DEF TypeOK
  <2> QED BY <1>7, <1>9, <2>1, <2>2 DEF ring_buffer_pop
<1>10. CASE Discard
  <2>1. Avail(head', tail') = 0
    BY <1>10 DEF Discard, ring_buffer_discard_readable, Avail
  <2> QED BY <1>1, <1>4, <1>7, <1>10, <2>1, MaxAssumption
          DEF Discard, ring_buffer_discard_readable, TypeOK
<1>11. CASE UNCHANGED vars
  BY <1>1, <1>4, <1>7, <1>11, MaxAssumption DEF vars, TypeOK
<1> QED BY <1>5, <1>6, <1>8, <1>9, <1>10, <1>11 DEF Next

\* The invariant holds in every state.
THEOREM InductiveInvariant == Spec => []IndInv
  BY InitInv, NextInv, PTL DEF Spec

\* For every size of the buffer, an accepted write never runs out of room.
THEOREM RestFitsHolds == Spec => []RestFits
  BY InductiveInvariant, PTL DEF IndInv
-----------------------------------------------------------------------------
\* What the refinement mapping is, before and after a step.
LEMMA ContentsIs ==
    /\ Contents = ContentsOf(buffer, head, tail)
    /\ Contents' = ContentsOf(buffer', head', tail')
  BY DEF Contents, ContentsOf, ring_buffer_peek, ring_buffer_available, Avail

\* A step of the ring buffer is a step of the queue or leaves it alone.
LEMMA StepSimulation == IndInv /\ [Next]_vars => [Queue!QueueNext]_Contents
<1> SUFFICES ASSUME IndInv, [Next]_vars PROVE Queue!QueueNext \/ Contents' = Contents
  OBVIOUS
<1>1. TypeOK /\ Len(todo) \in Nat /\ Len(todo) <= ring_buffer_writeable
  BY DEF IndInv, TypeOK, RestFits
<1>2. /\ ring_buffer_writeable = max - 1 - Avail(head, tail)
      /\ Avail(head, tail) \in 0..(max - 1)
      /\ Len(Contents) = Avail(head, tail)
  BY <1>1, WriteableFacts, RoomFacts, ContentsFacts, ContentsIs DEF TypeOK
<1>3. ASSUME NEW data \in Data, ring_buffer_write(data) PROVE Contents' = Contents
  BY <1>3, ContentsIs DEF ring_buffer_write
<1>4. CASE WriteNext
  <2>1. Head(todo) \in Byte
    BY <1>1, <1>4, HeadTailProperties DEF WriteNext, TypeOK
  <2>2. ring_buffer_writeable >= 1
    BY <1>1, <1>2, <1>4, EmptySeq, MaxAssumption DEF WriteNext, TypeOK
  <2>3. Contents' = Append(Contents, Head(todo))
    BY <1>1, <1>4, <2>1, <2>2, PutFacts, ContentsIs DEF WriteNext
  <2>4. Len(Contents) < max - 1
    BY <1>2, <2>2, MaxAssumption
  <2> QED BY <1>4, <2>1, <2>3, <2>4 DEF WriteNext, Queue!QueueNext, Queue!Put
<1>5. ASSUME NEW size \in 1..max, ring_buffer_read(size) PROVE Queue!QueueNext
  <2>1. size \in Nat
    BY MaxAssumption
  <2>2. /\ ReadCount(size) \in 0..Avail(head, tail)
        /\ Contents' = SubSeq(Contents, ReadCount(size) + 1, Len(Contents))
    BY <1>1, <1>5, <2>1, TakeFacts, ContentsIs DEF ring_buffer_read
  <2>3. ReadCount(size) > 0
    BY <1>2, <1>5, WriteableFacts, MaxAssumption DEF ring_buffer_read, ReadCount
  <2>4. ReadCount(size) \in 1..(max - 1) /\ ReadCount(size) <= Len(Contents)
    BY <1>2, <2>2, <2>3, MaxAssumption
  <2>5. UNCHANGED todo
    BY <1>5 DEF ring_buffer_read
  <2> QED BY <2>2, <2>4, <2>5 DEF Queue!QueueNext, Queue!Take
<1>6. CASE ring_buffer_pop
  <2>1. /\ Avail(head, tail) > 0
        /\ Contents' = SubSeq(Contents, 1, Len(Contents) - 1)
    BY <1>1, <1>6, PopFacts, ContentsIs DEF ring_buffer_pop
  <2>2. Contents # <<>>
    BY <1>2, <2>1, EmptySeq
  <2>3. UNCHANGED todo
    BY <1>6 DEF ring_buffer_pop
  <2> QED BY <2>1, <2>2, <2>3 DEF Queue!QueueNext, Queue!Drop
<1>7. CASE Discard
  <2>1. buffer' \in [Index -> Byte] /\ head' \in Index /\ tail' \in Index /\ head' = tail'
    BY <1>1, <1>7 DEF Discard, ring_buffer_discard_readable, TypeOK
  <2>2. Contents' \in Seq(Byte) /\ Len(Contents') = 0
    BY <2>1, ContentsFacts, ContentsIs DEF Avail
  <2>3. UNCHANGED todo
    BY <1>7 DEF Discard
  <2> QED BY <2>2, <2>3, EmptySeq DEF Queue!QueueNext, Queue!Clear
<1>8. CASE UNCHANGED vars
  BY <1>8, ContentsIs DEF vars
<1> QED BY <1>3, <1>4, <1>5, <1>6, <1>7, <1>8 DEF Next

\* The ring buffer implements a first-in first-out queue of max - 1 bytes, for every
\* size: across the wrap-around no byte is lost, duplicated, reordered or overwritten.
THEOREM Refinement == Spec => ImplementsQueue
<1>1. Init => Queue!QueueInit
  <2> SUFFICES ASSUME Init PROVE Contents = <<>>
    BY DEF Queue!QueueInit
  <2>1. buffer \in [Index -> Byte] /\ head \in Index /\ tail \in Index /\ head = tail
    BY MaxAssumption DEF Init, Index
  <2>2. Contents \in Seq(Byte) /\ Len(Contents) = 0
    BY <2>1, ContentsFacts, ContentsIs DEF Avail
  <2> QED BY <2>2, EmptySeq
<1> QED BY <1>1, StepSimulation, InductiveInvariant, PTL
        DEF Spec, ImplementsQueue, Queue!QueueSpec
=============================================================================
