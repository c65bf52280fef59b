----------------------------- MODULE Pty_proof -----------------------------
(***************************************************************************)
(* Proofs about terminal input, for every number of readers, size of the   *)
(* buffer and depth of nested handlers.  WaitInv adds to WaitersOK where a *)
(* reader is when it holds a lock and how a handler ends; RoomInv says of  *)
(* locks whose holder is not on the CPU that they are never released.      *)
(***************************************************************************)
EXTENDS Pty, SequenceTheorems, FiniteSetTheorems, FunctionTheorems, TLAPS

-----------------------------------------------------------------------------
\* What the operators that model list_t do to the set of the elements of a list and to
\* the absence of duplicates.

\* Appending an element: what ready queues, sleeping queue and wait list do on insert.
LEMMA AppendFacts ==
    ASSUME NEW S, NEW s \in Seq(S), NEW x \in S
    PROVE  /\ Append(s, x) \in Seq(S)
           /\ ToSet(Append(s, x)) = ToSet(s) \cup {x}
           /\ IsInjective(s) /\ x \notin ToSet(s) => IsInjective(Append(s, x))
<1>1. Append(s, x) \in Seq(S)
  OBVIOUS
<1>2. ToSet(Append(s, x)) = ToSet(s) \cup {x}
  <2>1. \A i \in DOMAIN s : Append(s, x)[i] = s[i]
    OBVIOUS
  <2>2. DOMAIN Append(s, x) = DOMAIN s \cup {Len(s) + 1} /\ Append(s, x)[Len(s) + 1] = x
    OBVIOUS
  <2> QED BY <2>1, <2>2 DEF ToSet
<1>3. IsInjective(s) /\ x \notin ToSet(s) => IsInjective(Append(s, x))
  BY DEF IsInjective, ToSet
<1> QED BY <1>1, <1>2, <1>3

\* Taking the head off a duplicate-free queue.
LEMMA TailFacts ==
    ASSUME NEW S, NEW s \in Seq(S), s # <<>>
    PROVE  /\ Tail(s) \in Seq(S)
           /\ Head(s) \in S
           /\ ToSet(s) = ToSet(Tail(s)) \cup {Head(s)}
           /\ IsInjective(s) => IsInjective(Tail(s)) /\ Head(s) \notin ToSet(Tail(s))
<1>1. Tail(s) \in Seq(S) /\ Head(s) \in S /\ Len(s) > 0
  OBVIOUS
<1>2. DOMAIN Tail(s) = 1..(Len(s) - 1) /\ DOMAIN s = 1..Len(s) /\ Head(s) = s[1]
  BY <1>1
<1>3. \A i \in DOMAIN Tail(s) : Tail(s)[i] = s[i + 1]
  BY <1>1
<1>4. ToSet(s) = ToSet(Tail(s)) \cup {Head(s)}
  <2>1. \A i \in DOMAIN s : s[i] \in ToSet(Tail(s)) \cup {Head(s)}
    <3> TAKE i \in DOMAIN s
    <3>1. CASE i = 1 BY <1>2, <3>1
    <3>2. CASE i # 1
      <4>1. i - 1 \in DOMAIN Tail(s) /\ Tail(s)[i - 1] = s[i]
        BY <1>1, <1>2, <1>3, <3>2
      <4> QED BY <4>1 DEF ToSet
    <3> QED BY <3>1, <3>2
  <2>2. \A i \in DOMAIN Tail(s) : Tail(s)[i] \in ToSet(s)
    BY <1>1, <1>2, <1>3 DEF ToSet
  <2>3. Head(s) \in ToSet(s)
    BY <1>1, <1>2 DEF ToSet
  <2> QED BY <2>1, <2>2, <2>3 DEF ToSet
<1>5. IsInjective(s) => IsInjective(Tail(s)) /\ Head(s) \notin ToSet(Tail(s))
  BY <1>1, <1>2, <1>3 DEF IsInjective, ToSet
<1> QED BY <1>1, <1>4, <1>5

\* Joining two disjoint duplicate-free queues: what waking all waiters does.
LEMMA ConcatFacts ==
    ASSUME NEW S, NEW s \in Seq(S), NEW t \in Seq(S)
    PROVE  /\ s \o t \in Seq(S)
           /\ ToSet(s \o t) = ToSet(s) \cup ToSet(t)
           /\ IsInjective(s) /\ IsInjective(t) /\ ToSet(s) \cap ToSet(t) = {} =>
                  IsInjective(s \o t)
<1>1. s \o t \in Seq(S) /\ Len(s \o t) = Len(s) + Len(t)
  OBVIOUS
<1>2. \A i \in 1..(Len(s) + Len(t)) :
          (s \o t)[i] = IF i <= Len(s) THEN s[i] ELSE t[i - Len(s)]
  OBVIOUS
<1>3. Len(s) \in Nat /\ Len(t) \in Nat /\ DOMAIN s = 1..Len(s) /\ DOMAIN t = 1..Len(t)
      /\ DOMAIN (s \o t) = 1..(Len(s) + Len(t))
  BY <1>1
<1> HIDE <1>1
<1>4. ToSet(s \o t) = ToSet(s) \cup ToSet(t)
  <2>1. \A i \in DOMAIN (s \o t) : (s \o t)[i] \in ToSet(s) \cup ToSet(t)
    BY <1>2, <1>3 DEF ToSet
  <2>2. \A i \in DOMAIN s : s[i] = (s \o t)[i] /\ i \in DOMAIN (s \o t)
    BY <1>2, <1>3
  <2>3. \A i \in DOMAIN t : t[i] = (s \o t)[i + Len(s)] /\ i + Len(s) \in DOMAIN (s \o t)
    BY <1>2, <1>3
  <2>4. ToSet(s \o t) \subseteq ToSet(s) \cup ToSet(t)
    BY <2>1 DEF ToSet
  <2>5. ToSet(s) \subseteq ToSet(s \o t)
    BY <2>2 DEF ToSet
  <2>6. ToSet(t) \subseteq ToSet(s \o t)
    BY <2>3 DEF ToSet
  <2> QED BY <2>4, <2>5, <2>6
<1>5. IsInjective(s) /\ IsInjective(t) /\ ToSet(s) \cap ToSet(t) = {} => IsInjective(s \o t)
  <2> SUFFICES ASSUME IsInjective(s), IsInjective(t), ToSet(s) \cap ToSet(t) = {},
                      NEW i \in DOMAIN (s \o t), NEW j \in DOMAIN (s \o t),
                      (s \o t)[i] = (s \o t)[j]
               PROVE  i = j
    BY DEF IsInjective
  <2>1. \A k \in DOMAIN s, l \in DOMAIN t : s[k] # t[l]
    BY DEF ToSet
  <2> QED BY <1>2, <1>3, <2>1 DEF IsInjective
<1> QED BY <1>1, <1>4, <1>5

-----------------------------------------------------------------------------
\* The names of threads, locks and queues are different, as strings and ids are.
LEMMA Names ==
    /\ Idle \notin Reader /\ Free \notin Reader /\ Idle # Free
    /\ Thread = Reader \cup {Idle} /\ Free \notin Lock /\ "cb" \notin Queue
    /\ Lock = {"pair_read", "cb_read", "cb_write", "cb"}
    /\ Queue = {"pair_read", "cb_read", "cb_write"}
    /\ Place = {"pair_read", "cb_read", "cb_write", "ready"}
BY ReaderAssumption DEF Idle, Free, Thread, Lock, Queue, Place

\* Taking the head off a sequence shifts the rest by one.
LEMMA TailIs ==
    ASSUME NEW S, NEW s \in Seq(S), s # <<>>
    PROVE  /\ Len(s) \in Nat \ {0} /\ DOMAIN s = 1..Len(s) /\ Head(s) = s[1] /\ s[1] \in S
           /\ Tail(s) \in Seq(S) /\ Len(Tail(s)) = Len(s) - 1
           /\ DOMAIN Tail(s) = 1..(Len(s) - 1)
           /\ \A i \in 1..(Len(s) - 1) : Tail(s)[i] = s[i + 1]
           /\ Len(s) > 1 => Tail(s) # <<>>
<1>1. Len(s) \in Nat \ {0} /\ DOMAIN s = 1..Len(s)
    BY EmptySeq, LenProperties
<1>2. /\ Head(s) \in S /\ Tail(s) \in Seq(S) /\ Len(Tail(s)) = Len(s) - 1
      /\ \A i \in 1..Len(Tail(s)) : Tail(s)[i] = s[i + 1]
    BY HeadTailProperties
<1>3. Head(s) = s[1]
    OBVIOUS
<1>4. DOMAIN Tail(s) = 1..(Len(s) - 1)
    BY <1>2, LenProperties
<1>5. ASSUME Len(s) > 1, Tail(s) = <<>> PROVE FALSE
    <2>1. Len(Tail(s)) = 0
        BY <1>5, EmptySeq
    <2> QED BY SMTT(30), <2>1, <1>1, <1>2, <1>5
<1> QED BY <1>1, <1>2, <1>3, <1>4, <1>5

\* The ring's counts and indices.
LEMMA RingCounts ==
    ASSUME TypeOK
    PROVE  /\ Ring!ring_buffer_available \in 0..(PTY_BUFFER_SIZE - 1)
           /\ Ring!ring_buffer_writeable \in 0..(PTY_BUFFER_SIZE - 1)
           /\ \A n \in Nat : Ring!ReadCount(n) \in Nat
BY SizeAssumption DEF TypeOK, Ring!ring_buffer_available, Ring!ring_buffer_writeable, Ring!ReadCount

\* What schedule() does to the queues: the outgoing process is queued unless it sleeps
\* or is the idle process, and the next one is taken out.
LEMMA ScheduleFacts ==
    ASSUME TypeOK, NEW sleep \in BOOLEAN, NEW flag \in BOOLEAN, schedule(sleep, flag)
    PROVE  /\ current' \in Thread /\ thread_queue' \in Seq(Reader) /\ int_on' \in BOOLEAN
           /\ irq' \in [Thread -> Seq(StageType)]
           /\ \A t \in Reader : irq'[t] = irq[t]
           /\ irq'[Idle] = irq[Idle] \/ irq'[Idle] = <<>>
           /\ \A t \in Reader : (t = current' \/ t \in ToSet(thread_queue')) <=>
                  (t \in ToSet(thread_queue) \/ (t = current /\ ~sleep))
           /\ (/\ IsInjective(thread_queue)
               /\ current = Idle \/ sleep \/ current \notin ToSet(thread_queue)) =>
                  IsInjective(thread_queue') /\ current' \notin ToSet(thread_queue')
<1> DEFINE queue == IF current = Idle \/ sleep THEN thread_queue ELSE Append(thread_queue, current)
           next == IF queue = <<>> THEN Idle ELSE Head(queue)
<1>1. /\ current' = next
      /\ thread_queue' = IF queue = <<>> THEN <<>> ELSE Tail(queue)
      /\ int_on' = (flag \/ next = Idle \/ (pc[next] = "user" /\ irq[next] = <<>>))
      /\ irq' = [irq EXCEPT ![Idle] = IF current = Idle THEN <<>> ELSE irq[Idle]]
    BY DEF schedule
<1>2. /\ current \in Thread /\ thread_queue \in Seq(Reader)
      /\ irq \in [Thread -> Seq(StageType)] /\ Idle \in Thread
      /\ Reader \subseteq Thread /\ Idle \notin Reader
    BY Names DEF TypeOK
<1>3. /\ queue \in Seq(Reader)
      /\ \A t \in Reader : t \in ToSet(queue) <=> t \in ToSet(thread_queue) \/ (t = current /\ ~sleep)
      /\ (/\ IsInjective(thread_queue)
          /\ current = Idle \/ sleep \/ current \notin ToSet(thread_queue)) => IsInjective(queue)
    <2>1. CASE current = Idle \/ sleep
        <3>1. queue = thread_queue
            BY <2>1
        <3> HIDE DEF queue
        <3> QED BY <2>1, <3>1, <1>2
    <2>2. CASE ~(current = Idle \/ sleep)
        <3>1. queue = Append(thread_queue, current) /\ current \in Reader
            BY <2>2, <1>2, Names
        <3> HIDE DEF queue
        <3>2. /\ Append(thread_queue, current) \in Seq(Reader)
              /\ ToSet(Append(thread_queue, current)) = ToSet(thread_queue) \cup {current}
              /\ IsInjective(thread_queue) /\ current \notin ToSet(thread_queue) =>
                     IsInjective(Append(thread_queue, current))
            BY <3>1, <1>2, AppendFacts
        <3> QED BY <2>2, <3>1, <3>2
    <2> QED BY <2>1, <2>2
<1> HIDE DEF queue
<1>4. int_on' \in BOOLEAN
    BY <1>1
<1>5. /\ irq' \in [Thread -> Seq(StageType)]
      /\ \A t \in Reader : irq'[t] = irq[t]
      /\ irq'[Idle] = irq[Idle] \/ irq'[Idle] = <<>>
    BY <1>1, <1>2
<1>6. CASE queue = <<>>
    <2>1. current' = Idle /\ thread_queue' = <<>>
        BY <1>1, <1>6
    <2>2. ToSet(<<>>) = {} /\ IsInjective(<<>>) /\ <<>> \in Seq(Reader)
        BY DEF ToSet, IsInjective
    <2> QED BY <1>2, <1>3, <1>4, <1>5, <1>6, <2>1, <2>2
<1>7. CASE queue # <<>>
    <2>1. current' = Head(queue) /\ thread_queue' = Tail(queue)
        BY <1>1, <1>7
    <2>2. /\ Tail(queue) \in Seq(Reader) /\ Head(queue) \in Reader
          /\ ToSet(queue) = ToSet(Tail(queue)) \cup {Head(queue)}
          /\ IsInjective(queue) => IsInjective(Tail(queue)) /\ Head(queue) \notin ToSet(Tail(queue))
        BY <1>3, <1>7, TailFacts
    <2> QED BY <1>2, <1>3, <1>4, <1>5, <2>1, <2>2
<1> QED BY <1>6, <1>7

-----------------------------------------------------------------------------
\* The stages of a handler.
LEMMA StageFacts ==
    ASSUME NEW s \in StageType
    PROVE  /\ s[1] \in {"put", "pop", "iret", "notify", "ready"}
           /\ s[1] = "put" => s[2] \in Byte
           /\ s[1] = "notify" => s[2] \in Queue
           /\ s[1] = "pop" => s[1] # "iret"
           /\ StageLock(s) \in Lock \cup {Free}
           /\ StageLock(s) = IF s[1] \in {"put", "pop"} THEN "cb"
                             ELSE IF s[1] = "notify" THEN s[2] ELSE Free
<1>1. CASE s \in {"put"} \X Byte
    BY <1>1, Names DEF StageLock
<1>2. CASE s \in {"pop", "iret"} \X Key
    BY <1>2, Names DEF StageLock
<1>3. CASE s \in {"notify"} \X Queue
    BY <1>3, Names DEF StageLock
<1>4. CASE s \in {"ready"} \X {"line", "part"}
    BY <1>4, Names DEF StageLock
<1> QED BY <1>1, <1>2, <1>3, <1>4 DEF StageType

\* What pty_write_to_input is going to do: at most one byte is put, as the first stage
\* and only if there is room.
LEMMA NewStages ==
    ASSUME NEW key \in Key, TypeOK
    PROVE  LET p == pty_write_to_input(key)
           IN  /\ p \in Seq(StageType) /\ Len(p) \in 1..3
               /\ \A i \in 1..Len(p) : p[i][1] = "put" =>
                      i = 1 /\ Ring!ring_buffer_writeable >= 1
<1> DEFINE a == <<<<"ready", "part">>>>
           b == <<<<"pop", key>>, <<"notify", "cb_write">>, <<"ready", "part">>>>
           c == <<<<"ready", "line">>>>
           d == <<<<"put", Code(key)>>, <<"notify", "cb_read">>,
                  <<"ready", IF key = "newline" THEN "line" ELSE "part">>>>
           fits == Ring!ring_buffer_writeable >= 1
<1>1. /\ <<"ready", "part">> \in StageType /\ <<"ready", "line">> \in StageType
      /\ <<"pop", key>> \in StageType
      /\ <<"notify", "cb_write">> \in StageType /\ <<"notify", "cb_read">> \in StageType
      /\ <<"put", Code(key)>> \in StageType
    BY Names DEF StageType, Byte, Code
<1>2. a \in Seq(StageType) /\ Len(a) = 1 /\ a[1][1] # "put"
    BY <1>1
<1>3. c \in Seq(StageType) /\ Len(c) = 1 /\ c[1][1] # "put"
    BY <1>1
<1>4. b \in Seq(StageType) /\ Len(b) = 3 /\ b[1][1] # "put" /\ b[2][1] # "put" /\ b[3][1] # "put"
    BY <1>1
<1>5. d \in Seq(StageType) /\ Len(d) = 3 /\ d[2][1] # "put" /\ d[3][1] # "put"
    BY <1>1
<1>6. \/ pty_write_to_input(key) = a \/ pty_write_to_input(key) = b
      \/ pty_write_to_input(key) = c
      \/ pty_write_to_input(key) = d /\ fits
    <2>1. /\ Ring!ring_buffer_available \in Nat /\ Ring!ring_buffer_writeable \in Nat
        BY RingCounts, SizeAssumption
    <2> QED BY <2>1 DEF pty_write_to_input
<1> HIDE DEF a, b, c, d, fits
<1>7. CASE pty_write_to_input(key) = a
    BY <1>7, <1>2
<1>8. CASE pty_write_to_input(key) = b
    <2>1. \A i \in 1..3 : b[i][1] # "put"
        BY <1>4
    <2> QED BY <1>8, <1>4, <2>1
<1>9. CASE pty_write_to_input(key) = c
    BY <1>9, <1>3
<1>10. CASE pty_write_to_input(key) = d /\ fits
    <2>1. \A i \in 1..3 : d[i][1] = "put" => i = 1
        BY <1>5
    <2> QED BY <1>10, <1>5, <2>1 DEF fits
<1> QED BY <1>6, <1>7, <1>8, <1>9, <1>10

\* A key press: the new handler's stages, an iret, and what was pending.
LEMMA Pushed ==
    ASSUME NEW key \in Key, TypeOK, NEW s \in Seq(StageType)
    PROVE  LET p == pty_write_to_input(key)
               r == p \o <<<<"iret", key>>>> \o s
               n == Len(p) + 1
           IN  /\ r \in Seq(StageType) /\ n \in 2..4 /\ Len(r) = n + Len(s)
               /\ \A i \in 1..(n - 1) : r[i] = p[i]
               /\ r[n][1] = "iret"
               /\ \A i \in 1..Len(s) : r[n + i] = s[i]
<1> DEFINE p == pty_write_to_input(key)
           e == <<<<"iret", key>>>>
<1>1. p \in Seq(StageType) /\ Len(p) \in 1..3
    BY NewStages
<1>2. e \in Seq(StageType) /\ Len(e) = 1 /\ e[1][1] = "iret"
    <2>1. <<"iret", key>> \in StageType
        BY DEF StageType
    <2> QED BY <2>1
<1> HIDE DEF p, e
<1>3. p \o e \in Seq(StageType) /\ Len(p \o e) = Len(p) + Len(e)
    BY <1>1, <1>2, ConcatProperties
<1>4. \A i \in 1..(Len(p) + Len(e)) : (p \o e)[i] = IF i <= Len(p) THEN p[i] ELSE e[i - Len(p)]
    BY <1>1, <1>2, ConcatProperties
<1> DEFINE r == (p \o e) \o s
<1>5. r \in Seq(StageType) /\ Len(r) = Len(p \o e) + Len(s)
    BY <1>3, ConcatProperties
<1>6. \A i \in 1..(Len(p \o e) + Len(s)) :
          r[i] = IF i <= Len(p \o e) THEN (p \o e)[i] ELSE s[i - Len(p \o e)]
    BY <1>3, ConcatProperties
<1> HIDE DEF r
<1>7. Len(s) \in Nat
    OBVIOUS
<1>8. \A i \in 1..Len(p) : r[i] = p[i]
    BY <1>1, <1>2, <1>3, <1>4, <1>6, <1>7
<1>9. r[Len(p) + 1][1] = "iret"
    <2>1. r[Len(p) + 1] = (p \o e)[Len(p) + 1] /\ (p \o e)[Len(p) + 1] = e[(Len(p) + 1) - Len(p)]
        BY <1>1, <1>2, <1>3, <1>4, <1>6, <1>7
    <2>2. (Len(p) + 1) - Len(p) = 1
        BY <1>1
    <2> QED BY <2>1, <2>2, <1>2
<1>10. \A i \in 1..Len(s) : r[Len(p) + 1 + i] = s[i]
    <2> TAKE i \in 1..Len(s)
    <2>1. /\ Len(p \o e) = Len(p) + 1 /\ Len(p) + 1 + i \in 1..(Len(p \o e) + Len(s))
          /\ ~(Len(p) + 1 + i <= Len(p \o e)) /\ (Len(p) + 1 + i) - Len(p \o e) = i
        BY <1>1, <1>2, <1>3, <1>7
    <2> QED BY <2>1, <1>6
<1> DEFINE n == Len(p) + 1
<1>11. n \in 2..4 /\ n - 1 = Len(p) /\ Len(r) = n + Len(s)
    <2>1. Len(p \o e) = Len(p) + 1
        BY <1>1, <1>2, <1>3
    <2>2. Len(r) = (Len(p) + 1) + Len(s)
        BY <1>5, <2>1
    <2>3. \A m \in 1..3 : m + 1 \in 2..4 /\ (m + 1) - 1 = m
        OBVIOUS
    <2>4. Len(p) + 1 \in 2..4 /\ (Len(p) + 1) - 1 = Len(p)
        BY <1>1, <2>3, Zenon
    <2> QED BY <2>2, <2>4, Zenon DEF n
<1> HIDE DEF n
<1>12. /\ r \in Seq(StageType) /\ n \in 2..4 /\ Len(r) = n + Len(s)
       /\ \A i \in 1..(n - 1) : r[i] = p[i]
       /\ r[n][1] = "iret"
       /\ \A i \in 1..Len(s) : r[n + i] = s[i]
    <2>1. \A i \in 1..(n - 1) : r[i] = p[i]
        BY <1>8, <1>11
    <2>2. r[n][1] = "iret" /\ \A i \in 1..Len(s) : r[n + i] = s[i]
        BY <1>9, <1>10 DEF n
    <2> QED BY <1>5, <1>11, <2>1, <2>2
<1> QED BY <1>12, Zenon DEF p, e, r, n

-----------------------------------------------------------------------------
\* The type invariant, action by action.
LEMMA UserTypes ==
    ASSUME TypeOK, NEW t \in Reader, ToUser(t)
    PROVE  /\ pc' \in [Reader -> Where] /\ int_on' \in BOOLEAN
           /\ wq' \in [Reader -> Queue] /\ size' \in [Reader -> Nat]
           /\ scan' \in [Reader -> (0..PTY_BUFFER_SIZE) \X (0..PTY_BUFFER_SIZE)]
<1>1. /\ "user" \in Where /\ "pair_read" \in Queue
      /\ <<0, 0>> \in (0..PTY_BUFFER_SIZE) \X (0..PTY_BUFFER_SIZE)
    BY SizeAssumption DEF Where, Queue
<1>2. /\ pc \in [Reader -> Where] /\ wq \in [Reader -> Queue] /\ size \in [Reader -> Nat]
      /\ scan \in [Reader -> (0..PTY_BUFFER_SIZE) \X (0..PTY_BUFFER_SIZE)]
    BY DEF TypeOK
<1> QED BY <1>1, <1>2 DEF ToUser, Goto

\* A reader's step other than a sleep keeps the types.
LEMMA ReaderTypes ==
    ASSUME TypeOK, NEW t \in Reader, ReaderStep(t), ~Sleep(t)
    PROVE  TypeOK'
<1> DEFINE Span == (0..PTY_BUFFER_SIZE) \X (0..PTY_BUFFER_SIZE)
<1>a. /\ "user" \in Where /\ "discard" \in Where /\ "scan" \in Where /\ "peek" \in Where
      /\ "acquire" \in Where /\ "wait" \in Where /\ "object" \in Where /\ "sleep" \in Where
      /\ "read" \in Where /\ "unlock" \in Where /\ "notify" \in Where /\ "release" \in Where
      /\ "pair_read" \in Queue /\ "cb_read" \in Queue /\ "cb_write" \in Queue
      /\ Queue \subseteq Lock /\ "cb" \in Lock /\ <<0, 0>> \in Span
    BY SizeAssumption DEF Where, Queue, Lock
<1>b. /\ lock \in [Lock -> Reader \cup {Free}] /\ pc \in [Reader -> Where]
      /\ wq \in [Reader -> Queue] /\ size \in [Reader -> Nat] /\ scan \in [Reader -> Span]
      /\ owner \in [Queue -> BOOLEAN] /\ wq[t] \in Queue /\ size[t] \in Nat
      /\ waiting \in [Queue -> Seq(Reader)] /\ thread_queue \in Seq(Reader)
    BY DEF TypeOK
<1> HIDE DEF Span
<1>1. ASSUME NEW n \in ReadSize, pty_slave_read(t, n) PROVE TypeOK'
    <2>1. /\ pc' \in [Reader -> Where] /\ wq' \in [Reader -> Queue] /\ size' \in [Reader -> Nat]
        BY <1>1, <1>a, <1>b, SizeAssumption DEF pty_slave_read, Goto
    <2> QED BY <1>1, <2>1 DEF TypeOK, pty_slave_read, ringVars, cpuVars
<1>2. CASE spin_lock(t)
    <2>1. lock' \in [Lock -> Reader \cup {Free}]
        BY <1>2, <1>a, <1>b DEF spin_lock
    <2> QED BY <1>2, <2>1 DEF TypeOK, spin_lock, ringVars, cpuVars, locals
<1>3. CASE find_newline(t)
    <2>1. <<0, Ring!ring_buffer_available>> \in Span
        BY RingCounts, SizeAssumption DEF Span
    <2>2. pc' \in [Reader -> Where] /\ scan' \in [Reader -> Span]
        BY <1>3, <1>a, <1>b, <2>1 DEF find_newline, Goto
    <2> QED BY <1>3, <2>2 DEF TypeOK, find_newline, ringVars, cpuVars, Span
<1>4. CASE Peek(t)
    <2>1. scan[t][1] \in 0..PTY_BUFFER_SIZE /\ scan[t][2] \in 0..PTY_BUFFER_SIZE
        BY <1>b DEF Span
    <2>2. pc' \in [Reader -> Where] /\ size' \in [Reader -> Nat]
        <3>1. /\ pc' = pc \/ pc' = [pc EXCEPT ![t] = "acquire"] \/ pc' = [pc EXCEPT ![t] = "read"]
              /\ size' = size \/ size' = [size EXCEPT ![t] =
                     IF scan[t][1] + 1 < size[t] THEN scan[t][1] + 1 ELSE size[t]]
            BY <1>4, <1>b DEF Peek, Goto
        <3>2. (IF scan[t][1] + 1 < size[t] THEN scan[t][1] + 1 ELSE size[t]) \in Nat
            BY <1>b, <2>1
        <3> QED BY <1>a, <1>b, <3>1, <3>2
    <2>3. scan' \in [Reader -> Span]
        <3>1. CASE scan' = [scan EXCEPT ![t] = <<0, 0>>]
            BY <3>1, <1>a, <1>b
        <3>2. CASE scan[t][1] < scan[t][2] /\ scan' = [scan EXCEPT ![t] = <<scan[t][1] + 1, scan[t][2]>>]
            <4>1. <<scan[t][1] + 1, scan[t][2]>> \in Span
                BY <3>2, <2>1, SizeAssumption DEF Span
            <4> QED BY <3>2, <4>1, <1>b
        <3> QED BY <1>4, <1>b, <3>1, <3>2 DEF Peek
    <2> QED BY <1>4, <2>2, <2>3 DEF TypeOK, Peek, ringVars, cpuVars, Span
<1>5. CASE mutex_acquire_if_free(t)
    <2>1. /\ lock' \in [Lock -> Reader \cup {Free}] /\ owner' \in [Queue -> BOOLEAN]
          /\ pc' \in [Reader -> Where]
        BY <1>5, <1>a, <1>b DEF mutex_acquire_if_free, spin_unlock, Goto
    <2> QED BY <1>5, <2>1 DEF TypeOK, mutex_acquire_if_free, ringVars, cpuVars, locals
<1>6. CASE mutex_wait(t)
    <2>1. lock' \in [Lock -> Reader \cup {Free}] /\ pc' \in [Reader -> Where]
        BY <1>6, <1>a, <1>b DEF mutex_wait, spin_unlock, Goto
    <2> QED BY <1>6, <2>1 DEF TypeOK, mutex_wait, ringVars, cpuVars, locals
<1>7. CASE wait_for_object(t)
    <2>1. Append(waiting[wq[t]], t) \in Seq(Reader)
        BY <1>b
    <2>2. /\ lock' \in [Lock -> Reader \cup {Free}] /\ pc' \in [Reader -> Where]
          /\ waiting' \in [Queue -> Seq(Reader)]
        BY <1>7, <1>a, <1>b, <2>1 DEF wait_for_object, spin_unlock, Goto
    <2> QED BY <1>7, <2>2 DEF TypeOK, wait_for_object, ringVars, cpuVars, locals
<1>8. CASE ring_buffer_read(t)
    <2>1. Ring!ReadCount(size[t]) \in Nat
        BY RingCounts, <1>b
    <2>2. head' \in 0..(PTY_BUFFER_SIZE - 1)
        <3>1. CASE head' = head
            BY <3>1 DEF TypeOK
        <3>2. CASE head' = (head + Ring!ReadCount(size[t])) % PTY_BUFFER_SIZE
            <4>1. \A n \in Nat : n % PTY_BUFFER_SIZE \in 0..(PTY_BUFFER_SIZE - 1)
                BY SizeAssumption
            <4>2. head + Ring!ReadCount(size[t]) \in Nat
                BY <2>1 DEF TypeOK
            <4> QED BY <3>2, <4>1, <4>2
        <3> QED BY <1>8, <3>1, <3>2 DEF ring_buffer_read, Ring!TakeBytes, ringVars
    <2>3. UNCHANGED <<buffer, tail>>
        BY <1>8 DEF ring_buffer_read, Ring!TakeBytes, ringVars
    <2>4. lock' \in [Lock -> Reader \cup {Free}]
        <3>1. lock' = lock \/ lock' = [lock EXCEPT !["cb"] = t]
            BY <1>8 DEF ring_buffer_read
        <3> QED BY <1>a, <1>b, <3>1
    <2>5. /\ pc' \in [Reader -> Where] /\ wq' \in [Reader -> Queue] /\ int_on' \in BOOLEAN
          /\ size' \in [Reader -> Nat] /\ scan' \in [Reader -> Span]
        <3>1. \/ ToUser(t)
              \/ /\ wq' = wq \/ wq' = [wq EXCEPT ![t] = "cb_read"]
                 /\ pc' = [pc EXCEPT ![t] = "acquire"] \/ pc' = [pc EXCEPT ![t] = "unlock"]
                 /\ UNCHANGED <<int_on, size, scan>>
            BY <1>8 DEF ring_buffer_read, Goto, locals
        <3>2. int_on \in BOOLEAN
            BY DEF TypeOK
        <3> QED BY <1>a, <1>b, <3>1, <3>2, UserTypes DEF Span
    <2> QED BY <1>8, <2>2, <2>3, <2>4, <2>5 DEF TypeOK, ring_buffer_read, Span
<1>9. CASE Unlock(t)
    <2>1. /\ lock' \in [Lock -> Reader \cup {Free}] /\ pc' \in [Reader -> Where]
          /\ wq' \in [Reader -> Queue]
        BY <1>9, <1>a, <1>b DEF Unlock, spin_unlock, Goto
    <2> QED BY <1>9, <2>1 DEF TypeOK, Unlock, ringVars, cpuVars
<1>10. CASE NotifyWriters(t)
    <2>1. lock' \in [Lock -> Reader \cup {Free}] /\ owner' \in [Queue -> BOOLEAN]
        BY <1>10, <1>a, <1>b DEF NotifyWriters, spin_unlock
    <2>2. \/ ToUser(t)
          \/ pc' = [pc EXCEPT ![t] = "release"] /\ UNCHANGED <<int_on, wq, size, scan>>
        BY <1>10 DEF NotifyWriters, Goto, locals
    <2>3. int_on \in BOOLEAN
        BY DEF TypeOK
    <2>4. /\ pc' \in [Reader -> Where] /\ wq' \in [Reader -> Queue] /\ int_on' \in BOOLEAN
          /\ size' \in [Reader -> Nat] /\ scan' \in [Reader -> Span]
        BY <1>a, <1>b, <2>2, <2>3, UserTypes DEF Span
    <2> QED BY <1>10, <2>1, <2>4 DEF TypeOK, NotifyWriters, ringVars, Span
<1>11. CASE mutex_release(t)
    <2>1. waiting["cb_write"] \in Seq(Reader)
        BY <1>a, <1>b
    <2>2. thread_queue' \in Seq(Reader)
        BY <1>11, <1>b, <2>1, ConcatFacts DEF mutex_release
    <2>3. <<>> \in Seq(Reader)
        OBVIOUS
    <2>4. /\ lock' \in [Lock -> Reader \cup {Free}] /\ owner' \in [Queue -> BOOLEAN]
          /\ waiting' \in [Queue -> Seq(Reader)]
        BY <1>11, <1>a, <1>b, <2>3 DEF mutex_release, spin_unlock
    <2>5. /\ pc' \in [Reader -> Where] /\ wq' \in [Reader -> Queue] /\ int_on' \in BOOLEAN
          /\ size' \in [Reader -> Nat] /\ scan' \in [Reader -> Span]
        BY <1>11, UserTypes DEF mutex_release, Span
    <2> QED BY <1>11, <2>2, <2>4, <2>5 DEF TypeOK, mutex_release, ringVars, Span
<1>12. CASE pty_ioctl(t)
    <2>1. pc' \in [Reader -> Where] /\ icanon' \in BOOLEAN
        BY <1>12, <1>a, <1>b DEF TypeOK, pty_ioctl, Goto
    <2> QED BY <1>12, <2>1 DEF TypeOK, pty_ioctl, ringVars, cpuVars, locals
<1>13. CASE Discard(t)
    <2>1. head' \in 0..(PTY_BUFFER_SIZE - 1) /\ UNCHANGED <<buffer, tail>> /\ icanon' \in BOOLEAN
        BY <1>13 DEF TypeOK, Discard, Ring!ring_buffer_discard_readable
    <2>2. /\ pc' \in [Reader -> Where] /\ wq' \in [Reader -> Queue] /\ int_on' \in BOOLEAN
          /\ size' \in [Reader -> Nat] /\ scan' \in [Reader -> Span]
        BY <1>13, UserTypes DEF Discard, Span
    <2> QED BY <1>13, <2>1, <2>2 DEF TypeOK, Discard, Span
<1> QED BY <1>1, <1>2, <1>3, <1>4, <1>5, <1>6, <1>7, <1>8, <1>9, <1>10, <1>11, <1>12, <1>13
        DEF ReaderStep

\* The step of a reader that leaves the queues alone and keeps or takes no other lock
\* than the one it needs.
LEMMA ReaderKeeps ==
    ASSUME WaitInv, NEW t \in Reader, current = t, pc[t] # "sleep", pc'[t] # "sleep",
           TypeOK', UNCHANGED <<waiting, current, thread_queue, irq, spun>>,
           \A u \in Reader \ {t} : pc'[u] = pc[u] /\ wq'[u] = wq[u],
           \A l \in Lock : lock'[l] \in {lock[l], Free, t},
           lock'["cb"] = lock["cb"] \/ lock["cb"] \in {t, Free},
           pc'[t] = "unlock" => lock'["cb"] = t,
           \A l \in Lock : lock'[l] = t =>
               IF l = "cb" THEN pc'[t] = "unlock"
               ELSE l = wq'[t] /\ pc'[t] \in {"acquire", "wait", "object", "notify", "release"}
    PROVE  WaitInv'
<1> USE Names
<1>1. NoLockAsleep'
    BY DEF WaitInv, WaitersOK, NoLockAsleep, TypeOK
<1>2. LocksOK'
    <2> SUFFICES ASSUME NEW l \in Lock, NEW u \in Reader, lock'[l] = u, u # t
                 PROVE  IF l = "cb" THEN pc'[u] = "unlock"
                        ELSE l = wq'[u] /\ pc'[u] \in {"acquire", "wait", "object", "notify", "release"}
        BY DEF LocksOK
    <2>1. lock[l] = u /\ pc'[u] = pc[u] /\ wq'[u] = wq[u]
        OBVIOUS
    <2> QED BY <2>1 DEF WaitInv, LocksOK
<1>3. HandlersEnd' /\ CbHeld'
    BY DEF WaitInv, HandlersEnd, CbHeld
<1>4. \A q \in Place : Line(q)' = Line(q)
    BY DEF Line
<1>5. OneQueue'
    <2>1. \A u \in Reader : Queued(u)' <=> Queued(u)
        BY <1>4 DEF Queued
    <2>2. \A u \in Reader : pc'[u] = "sleep" <=> pc[u] = "sleep"
        OBVIOUS
    <2>3. /\ (\A q \in Place : IsInjective(Line(q))) => \A q \in Place : IsInjective(Line(q))'
          /\ (\A q, r \in Place : q # r => ToSet(Line(q)) \cap ToSet(Line(r)) = {}) =>
                 \A q, r \in Place : q # r => (ToSet(Line(q)) \cap ToSet(Line(r)) = {})'
        BY <1>4
    <2> HIDE Names
    <2> QED BY <2>1, <2>2, <2>3 DEF WaitInv, WaitersOK, OneQueue
<1> QED BY <1>1, <1>2, <1>3, <1>5 DEF WaitInv, WaitersOK

\* Every step of a reader but wait_for_object, its sleep and mutex_release.
LEMMA ReaderQuiet ==
    ASSUME WaitInv, NEW t \in Reader, ReaderStep(t),
           ~Sleep(t), ~wait_for_object(t), ~mutex_release(t)
    PROVE  WaitInv'
<1> USE Names
<1>a. TypeOK /\ LocksOK /\ TypeOK'
    BY ReaderTypes DEF WaitInv, WaitersOK
<1>b. /\ pc \in [Reader -> Where] /\ wq \in [Reader -> Queue] /\ lock \in [Lock -> Reader \cup {Free}]
    BY <1>a DEF TypeOK
<1>c. /\ \A l \in Lock : lock[l] = t =>
             IF l = "cb" THEN pc[t] = "unlock"
             ELSE l = wq[t] /\ pc[t] \in {"acquire", "wait", "object", "notify", "release"}
      /\ pc[t] = "unlock" => lock["cb"] = t
    BY <1>a DEF LocksOK, WaitInv, CbHeld
<1> DEFINE kept == /\ current = t /\ pc[t] # "sleep" /\ pc'[t] # "sleep"
                   /\ UNCHANGED <<waiting, current, thread_queue, irq, spun>>
                   /\ \A u \in Reader \ {t} : pc'[u] = pc[u] /\ wq'[u] = wq[u]
           locked == /\ \A l \in Lock : lock'[l] \in {lock[l], Free, t}
                     /\ lock'["cb"] = lock["cb"] \/ lock["cb"] \in {t, Free}
                     /\ pc'[t] = "unlock" => lock'["cb"] = t
                     /\ \A l \in Lock : lock'[l] = t =>
                            IF l = "cb" THEN pc'[t] = "unlock"
                            ELSE l = wq'[t] /\ pc'[t] \in {"acquire", "wait", "object", "notify", "release"}
<1>1. ASSUME NEW n \in ReadSize, pty_slave_read(t, n) PROVE kept /\ locked
    BY <1>1, <1>b, <1>c DEF pty_slave_read, At, Goto, cpuVars
<1>2. ASSUME spin_lock(t) PROVE kept /\ locked
    BY <1>2, <1>b, <1>c DEF spin_lock, At, cpuVars, locals
<1>3. ASSUME find_newline(t) PROVE kept /\ locked
    BY <1>3, <1>b, <1>c DEF find_newline, At, Goto, cpuVars
<1>4. ASSUME Peek(t) PROVE kept /\ locked
    BY <1>4, <1>b, <1>c DEF Peek, At, Goto, cpuVars
<1>5. ASSUME mutex_acquire_if_free(t) PROVE kept /\ locked
    BY <1>5, <1>b, <1>c DEF mutex_acquire_if_free, At, Goto, spin_unlock, cpuVars, locals
<1>6. ASSUME mutex_wait(t) PROVE kept /\ locked
    BY <1>6, <1>b, <1>c DEF mutex_wait, At, Goto, spin_unlock, cpuVars, locals
<1>7. ASSUME ring_buffer_read(t) PROVE kept /\ locked
    BY <1>7, <1>b, <1>c DEF ring_buffer_read, At, Goto, ToUser, locals
<1>8. ASSUME Unlock(t) PROVE kept /\ locked
    BY <1>8, <1>b, <1>c DEF Unlock, At, Goto, spin_unlock, cpuVars
<1>9. ASSUME NotifyWriters(t) PROVE kept /\ locked
    BY <1>9, <1>b, <1>c DEF NotifyWriters, At, Goto, ToUser, spin_unlock, cpuVars, locals
<1>10. ASSUME pty_ioctl(t) PROVE kept /\ locked
    BY <1>10, <1>b, <1>c DEF pty_ioctl, At, Goto, cpuVars, locals
<1>11. ASSUME Discard(t) PROVE kept /\ locked
    BY <1>11, <1>b, <1>c DEF Discard, At, Goto, ToUser
<1>12. kept /\ locked
    BY <1>1, <1>2, <1>3, <1>4, <1>5, <1>6, <1>7, <1>8, <1>9, <1>10, <1>11 DEF ReaderStep
<1> QED BY <1>a, <1>12, ReaderKeeps

\* Joining a wait queue: the reader is in no queue before, and is at "sleep" after.
LEMMA ReaderWaits ==
    ASSUME WaitInv, NEW t \in Reader, wait_for_object(t)
    PROVE  WaitInv'
<1> USE Names
<1>a. TypeOK /\ LocksOK /\ CbHeld /\ NoLockAsleep /\ OneQueue /\ HandlersEnd
    BY DEF WaitInv, WaitersOK
<1>b. /\ current = t /\ pc[t] = "object" /\ lock[wq[t]] = t
      /\ waiting' = [waiting EXCEPT ![wq[t]] = Append(waiting[wq[t]], t)]
      /\ lock' = [lock EXCEPT ![wq[t]] = Free]
      /\ pc' = [pc EXCEPT ![t] = "sleep"]
      /\ UNCHANGED <<current, thread_queue, wq, irq, spun>>
    BY DEF wait_for_object, At, Goto, spin_unlock, cpuVars, locals
<1>c. /\ pc \in [Reader -> Where] /\ wq \in [Reader -> Queue]
      /\ lock \in [Lock -> Reader \cup {Free}] /\ waiting \in [Queue -> Seq(Reader)]
      /\ thread_queue \in Seq(Reader)
    BY <1>a DEF TypeOK
<1>1. TypeOK'
    BY <1>a, <1>b, ReaderTypes DEF ReaderStep, Sleep, At
<1>2. NoLockAsleep'
    BY <1>a, <1>b, <1>c DEF NoLockAsleep
<1>3. LocksOK'
    <2> SUFFICES ASSUME NEW l \in Lock, NEW u \in Reader, lock'[l] = u
                 PROVE  IF l = "cb" THEN pc'[u] = "unlock"
                        ELSE l = wq'[u] /\ pc'[u] \in {"acquire", "wait", "object", "notify", "release"}
        BY DEF LocksOK
    <2>1. lock[l] = u /\ l # wq[t]
        BY <1>b, <1>c
    <2>2. u # t
        BY <1>a, <1>b, <2>1 DEF LocksOK
    <2> QED BY <1>a, <1>b, <1>c, <2>1, <2>2 DEF LocksOK
<1>4. HandlersEnd' /\ CbHeld'
    BY <1>a, <1>b, <1>c DEF HandlersEnd, CbHeld
<1>5. OneQueue'
    <2> SUFFICES ASSUME ~spun PROVE OneQueue'
        BY <1>b DEF OneQueue
    <2>1. \A q \in Place : t \notin ToSet(Line(q))
        BY <1>a, <1>b DEF OneQueue, Queued
    <2>w. PICK w \in Queue : w = wq[t]
        BY <1>c
    <2>2. w # "ready" /\ waiting[w] \in Seq(Reader)
        BY <1>c
    <2>3. Line(w) = waiting[w] /\ Line(w)' = Append(waiting[w], t)
        BY <1>b, <1>c, <2>w, <2>2 DEF Line
    <2>4. \A q \in Place \ {w} : Line(q)' = Line(q)
        BY <1>b, <1>c, <2>w, <2>2 DEF Line
    <2>5. ToSet(Line(w))' = ToSet(Line(w)) \cup {t} /\ (IsInjective(Line(w)) => IsInjective(Line(w)'))
        BY <2>1, <2>2, <2>3, AppendFacts
    <2>6. pc'[t] = "sleep"
        BY <1>b, <1>c
    <2>7. w \in Place
        OBVIOUS
    <2> HIDE Names
    <2>8. \A q \in Place : IsInjective(Line(q))'
        <3>1. \A q \in Place : IsInjective(Line(q))
            BY <1>a DEF OneQueue
        <3> QED BY <2>4, <2>5, <3>1
    <2>9. \A q, r \in Place : q # r => (ToSet(Line(q)) \cap ToSet(Line(r)) = {})'
        <3>1. \A q, r \in Place : q # r => ToSet(Line(q)) \cap ToSet(Line(r)) = {}
            BY <1>a DEF OneQueue
        <3>2. \A q \in Place : ToSet(Line(q)') = IF q = w THEN ToSet(Line(q)) \cup {t} ELSE ToSet(Line(q))
            BY <2>4, <2>5
        <3> QED BY <2>1, <3>1, <3>2
    <2>10. \A u \in Reader : Queued(u)' <=> Queued(u) \/ u = t
        BY <2>4, <2>5, <2>7 DEF Queued
    <2>11. \A u \in Reader : pc'[u] = IF u = t THEN "sleep" ELSE pc[u]
        BY <1>b, <1>c
    <2> QED BY <1>a, <1>b, <2>8, <2>9, <2>10, <2>11 DEF OneQueue
<1> QED BY <1>1, <1>2, <1>3, <1>4, <1>5 DEF WaitInv, WaitersOK

\* Waking everyone of a wait queue moves them, in their order, behind the ready ones.
LEMMA Woken ==
    ASSUME TypeOK, OneQueue, NEW q \in Queue,
           thread_queue' = thread_queue \o waiting[q],
           waiting' = [waiting EXCEPT ![q] = <<>>],
           UNCHANGED <<current, spun>>,
           \A u \in Reader : pc'[u] = "sleep" <=> pc[u] = "sleep"
    PROVE  /\ ToSet(thread_queue') = ToSet(thread_queue) \cup ToSet(waiting[q])
           /\ OneQueue'
<1> USE Names
<1>a. waiting \in [Queue -> Seq(Reader)] /\ waiting[q] \in Seq(Reader) /\ thread_queue \in Seq(Reader)
    BY DEF TypeOK
<1>1. ToSet(thread_queue') = ToSet(thread_queue) \cup ToSet(waiting[q])
    BY <1>a, ConcatFacts
<1>2. /\ Line("ready") = thread_queue /\ Line("ready")' = thread_queue'
      /\ Line(q) = waiting[q] /\ Line(q)' = <<>>
      /\ \A p \in Place \ {q, "ready"} : Line(p)' = Line(p)
    BY <1>a DEF Line
<1>3. ToSet(<<>>) = {} /\ IsInjective(<<>>)
    BY DEF ToSet, IsInjective
<1>4. OneQueue'
    <2> SUFFICES ASSUME ~spun PROVE OneQueue'
        BY DEF OneQueue
    <2>1. IsInjective(thread_queue')
        <3>1. IsInjective(thread_queue) /\ IsInjective(waiting[q])
              /\ ToSet(thread_queue) \cap ToSet(waiting[q]) = {}
            BY <1>2 DEF OneQueue
        <3> QED BY <3>1, <1>a, ConcatFacts
    <2>2. q \in Place /\ "ready" \in Place /\ q # "ready"
        OBVIOUS
    <2> HIDE Names
    <2>3. \A p \in Place : IsInjective(Line(p))'
        <3>1. \A p \in Place : IsInjective(Line(p))
            BY DEF OneQueue
        <3>2. IsInjective(Line("ready")') /\ IsInjective(Line(q)')
            BY <1>2, <1>3, <2>1
        <3> QED BY <1>2, <3>1, <3>2
    <2>4. /\ ToSet(Line("ready"))' = ToSet(Line("ready")) \cup ToSet(Line(q))
          /\ ToSet(Line(q))' = {}
          /\ \A p \in Place \ {q, "ready"} : ToSet(Line(p))' = ToSet(Line(p))
        BY <1>1, <1>2, <1>3
    <2>5. \A p, r \in Place : p # r => (ToSet(Line(p)) \cap ToSet(Line(r)) = {})'
        BY <2>2, <2>4 DEF OneQueue
    <2>6. \A u \in Reader : Queued(u)' <=> Queued(u)
        BY <2>2, <2>4 DEF Queued
    <2> QED BY <2>3, <2>5, <2>6 DEF OneQueue
<1> QED BY <1>1, <1>4

\* A reader that releases a wait queue wakes its head.
LEMMA ReaderReleases ==
    ASSUME WaitInv, NEW t \in Reader, mutex_release(t)
    PROVE  WaitInv'
<1> USE Names
<1>a. TypeOK /\ LocksOK /\ CbHeld /\ NoLockAsleep /\ OneQueue /\ HandlersEnd
    BY DEF WaitInv, WaitersOK
<1>b. /\ current = t /\ pc[t] = "release" /\ lock["cb_write"] = t
      /\ thread_queue' = thread_queue \o waiting["cb_write"]
      /\ waiting' = [waiting EXCEPT !["cb_write"] = <<>>]
      /\ lock' = [lock EXCEPT !["cb_write"] = Free]
      /\ pc' = [pc EXCEPT ![t] = "user"] /\ wq' = [wq EXCEPT ![t] = "pair_read"]
      /\ UNCHANGED <<current, irq, spun>>
    BY DEF mutex_release, At, ToUser, Goto, spin_unlock
<1>c. /\ pc \in [Reader -> Where] /\ wq \in [Reader -> Queue]
      /\ lock \in [Lock -> Reader \cup {Free}]
    BY <1>a DEF TypeOK
<1>1. TypeOK'
    BY <1>a, <1>b, ReaderTypes DEF ReaderStep, Sleep, At
<1>2. ToSet(thread_queue') = ToSet(thread_queue) \cup ToSet(waiting["cb_write"]) /\ OneQueue'
    <2>1. \A u \in Reader : pc'[u] = "sleep" <=> pc[u] = "sleep"
        BY <1>b, <1>c
    <2> QED BY <1>a, <1>b, <2>1, Woken
<1>3. NoLockAsleep'
    BY <1>a, <1>b, <1>c, <1>2 DEF NoLockAsleep
<1>4. LocksOK'
    <2> SUFFICES ASSUME NEW l \in Lock, NEW u \in Reader, lock'[l] = u
                 PROVE  IF l = "cb" THEN pc'[u] = "unlock"
                        ELSE l = wq'[u] /\ pc'[u] \in {"acquire", "wait", "object", "notify", "release"}
        BY DEF LocksOK
    <2>1. lock[l] = u /\ l # "cb_write"
        BY <1>b, <1>c
    <2>2. u # t
        BY <1>a, <1>b, <2>1 DEF LocksOK
    <2> QED BY <1>a, <1>b, <1>c, <2>1, <2>2 DEF LocksOK
<1>5. HandlersEnd' /\ CbHeld'
    BY <1>a, <1>b, <1>c DEF HandlersEnd, CbHeld
<1> QED BY <1>1, <1>2, <1>3, <1>4, <1>5 DEF WaitInv, WaitersOK

\* A context switch: whoever leaves the CPU without being queued as ready holds no lock
\* and is in a wait queue, or already in the ready queue again.
LEMMA Switch ==
    ASSUME WaitInv, NEW sleep \in BOOLEAN, NEW flag \in BOOLEAN, schedule(sleep, flag),
           UNCHANGED <<ringVars, lock, owner, waiting, icanon, locals>>,
           spun' \in BOOLEAN, spun => spun',
           pc' \in [Reader -> Where],
           \A u \in Reader \ {current} : pc'[u] = pc[u],
           ~sleep => pc' = pc,
           ~sleep /\ ~spun' /\ current \in Reader => pc[current] # "sleep",
           sleep => current \in Reader /\ pc[current] = "sleep" /\ pc'[current] = "wait"
    PROVE  WaitInv'
<1>a. TypeOK /\ LocksOK /\ CbHeld /\ NoLockAsleep /\ OneQueue /\ HandlersEnd
    BY DEF WaitInv, WaitersOK
<1>b. /\ lock \in [Lock -> Reader \cup {Free}] /\ current \in Thread /\ pc \in [Reader -> Where]
    BY <1>a DEF TypeOK
<1>s. /\ current' \in Thread /\ thread_queue' \in Seq(Reader) /\ int_on' \in BOOLEAN
      /\ irq' \in [Thread -> Seq(StageType)]
      /\ \A t \in Reader : irq'[t] = irq[t]
      /\ irq'[Idle] = irq[Idle] \/ irq'[Idle] = <<>>
      /\ \A t \in Reader : (t = current' \/ t \in ToSet(thread_queue')) <=>
             (t \in ToSet(thread_queue) \/ (t = current /\ ~sleep))
      /\ (/\ IsInjective(thread_queue)
          /\ current = Idle \/ sleep \/ current \notin ToSet(thread_queue)) =>
             IsInjective(thread_queue') /\ current' \notin ToSet(thread_queue')
    BY <1>a, ScheduleFacts
<1>1. TypeOK'
    BY <1>a, <1>s DEF TypeOK, ringVars, locals
<1>2. ASSUME sleep, NEW l \in Lock PROVE lock[l] # current
    BY <1>2, <1>a DEF LocksOK
<1>3. NoLockAsleep'
    BY <1>a, <1>b, <1>s, <1>2, Names DEF NoLockAsleep
<1>4. LocksOK'
    <2> SUFFICES ASSUME NEW l \in Lock, NEW u \in Reader, lock'[l] = u
                 PROVE  IF l = "cb" THEN pc'[u] = "unlock"
                        ELSE l = wq'[u] /\ pc'[u] \in {"acquire", "wait", "object", "notify", "release"}
        BY DEF LocksOK
    <2>1. lock[l] = u /\ wq' = wq
        BY DEF locals
    <2>2. pc'[u] = pc[u]
        BY <1>2, <2>1
    <2> QED BY <1>a, <2>1, <2>2 DEF LocksOK
<1>5. HandlersEnd' /\ CbHeld'
    <2>1. \A u \in Reader : pc'[u] = "unlock" => pc[u] = "unlock"
        OBVIOUS
    <2> QED BY <1>a, <1>s, <2>1, Names DEF HandlersEnd, CbHeld
<1>6. OneQueue'
    <2> SUFFICES ASSUME ~spun' PROVE OneQueue'
        BY DEF OneQueue
    <2>1. ~spun
        BY <1>a DEF TypeOK
    <2>o. /\ \A q \in Place : IsInjective(Line(q))
          /\ \A q, r \in Place : q # r => ToSet(Line(q)) \cap ToSet(Line(r)) = {}
          /\ \A t \in Reader : t = current \/ Queued(t)
          /\ \A t \in Reader : pc[t] = "sleep" <=> t = current /\ Queued(t)
        BY <1>a, <2>1 DEF OneQueue
    <2>2. /\ "ready" \in Place /\ Line("ready") = thread_queue /\ Line("ready")' = thread_queue'
          /\ \A q \in Place \ {"ready"} : Line(q)' = Line(q)
        BY DEF Place, Line
    <2>3. current = Idle \/ sleep \/ ~Queued(current)
        <3>1. CASE current \in Reader /\ ~sleep
            BY <3>1, <2>o
        <3> QED BY <3>1, <1>b, Names
    <2>4. IsInjective(thread_queue') /\ current' \notin ToSet(thread_queue')
        <3>1. current \in ToSet(thread_queue) => Queued(current)
            BY <2>2 DEF Queued
        <3> QED BY <1>s, <2>o, <2>2, <2>3, <3>1
    <2>5. \A q \in Place : IsInjective(Line(q))'
        BY <2>o, <2>2, <2>4
    <2>6. \A q \in Place \ {"ready"}, u \in Reader : u \in ToSet(Line(q)) => u # current' /\ u \notin ToSet(thread_queue')
        <3> SUFFICES ASSUME NEW q \in Place, q # "ready", NEW u \in Reader, u \in ToSet(Line(q)),
                            u = current' \/ u \in ToSet(thread_queue')
                     PROVE  FALSE
            OBVIOUS
        <3>1. u \notin ToSet(thread_queue)
            BY <2>o, <2>2
        <3>2. u = current /\ ~sleep
            BY <3>1, <1>s
        <3> QED BY <3>2, <2>3, Names DEF Queued
    <2>7. \A q \in Place : ToSet(Line(q)) \subseteq Reader
        <3>1. \A q \in Place : Line(q) \in Seq(Reader)
            BY <1>a, Names DEF TypeOK, Line
        <3> QED BY <3>1 DEF ToSet
    <2>8. \A q, r \in Place : q # r => (ToSet(Line(q)) \cap ToSet(Line(r)) = {})'
        <3>1. \A q \in Place \ {"ready"} : ToSet(Line(q)') = ToSet(Line(q))
            BY <2>2
        <3> QED BY <2>o, <2>2, <2>6, <2>7, <3>1
    <2>9. \A u \in Reader : u = current' \/ Queued(u)'
        <3> SUFFICES ASSUME NEW u \in Reader, u # current'
                     PROVE  Queued(u)'
            OBVIOUS
        <3>1. CASE u \in ToSet(thread_queue) \/ (u = current /\ ~sleep)
            <4>1. u \in ToSet(Line("ready"))'
                BY <3>1, <1>s, <2>2
            <4> QED BY <4>1, <2>2 DEF Queued
        <3>2. CASE ~(u \in ToSet(thread_queue) \/ (u = current /\ ~sleep))
            <4>1. Queued(u)
                BY <3>2, <2>o
            <4>2. PICK q \in Place : u \in ToSet(Line(q))
                BY <4>1 DEF Queued
            <4>3. q # "ready"
                BY <3>2, <4>2, <2>2
            <4>4. u \in ToSet(Line(q))'
                BY <4>2, <4>3, <2>2
            <4> QED BY <4>4 DEF Queued
        <3> QED BY <3>1, <3>2
    <2>10. \A u \in Reader : pc'[u] # "sleep"
        <3> SUFFICES ASSUME NEW u \in Reader
                     PROVE  pc'[u] # "sleep"
            OBVIOUS
        <3>1. CASE u # current
            BY <3>1, <2>o
        <3>2. CASE u = current
            BY <3>2
        <3> QED BY <3>1, <3>2
    <2>11. current' \in Reader => ~Queued(current)'
        <3> SUFFICES ASSUME current' \in Reader, NEW q \in Place, current' \in ToSet(Line(q))'
                     PROVE  FALSE
            BY DEF Queued
        <3>1. CASE q = "ready"
            BY <3>1, <2>2, <2>4
        <3>2. CASE q # "ready"
            BY <3>2, <2>2, <2>6
        <3> QED BY <3>1, <3>2
    <2>12. \A u \in Reader : pc'[u] = "sleep" <=> u = current' /\ Queued(u)'
        BY <2>10, <2>11
    <2> QED BY <2>5, <2>8, <2>9, <2>12 DEF OneQueue
<1> QED BY <1>1, <1>3, <1>4, <1>5, <1>6 DEF WaitInv, WaitersOK

\* A reader that sleeps gives the CPU to the next thread.
LEMMA ReaderSleeps ==
    ASSUME WaitInv, NEW t \in Reader, Sleep(t)
    PROVE  WaitInv'
<1>1. TypeOK /\ pc \in [Reader -> Where] /\ int_on \in BOOLEAN /\ spun \in BOOLEAN
    BY DEF WaitInv, WaitersOK, TypeOK
<1>2. /\ current = t /\ pc[t] = "sleep" /\ schedule(TRUE, int_on)
      /\ pc' = [pc EXCEPT ![t] = "wait"]
      /\ UNCHANGED <<ringVars, lock, owner, waiting, icanon, locals, spun>>
    BY DEF Sleep, At, Goto
<1>3. pc' \in [Reader -> Where]
    BY <1>1, <1>2 DEF Where
<1> QED BY <1>1, <1>2, <1>3, Switch

\* The steps that only change the thread on the CPU.
LEMMA Switches ==
    ASSUME WaitInv, Spin \/ idle \/ pit_interrupt
    PROVE  WaitInv'
<1>1. TypeOK /\ pc \in [Reader -> Where] /\ int_on \in BOOLEAN /\ spun \in BOOLEAN
    BY DEF WaitInv, WaitersOK, TypeOK
<1>2. CASE Spin
    <2>1. /\ schedule(FALSE, int_on) /\ spun' = (spun \/ irq[current] # <<>>)
          /\ UNCHANGED <<ringVars, lock, owner, waiting, icanon, pc, locals>>
        BY <1>2 DEF Spin
    <2>2. ASSUME irq[current] = <<>>, current \in Reader PROVE pc[current] # "sleep"
        BY <1>2, <2>2, Names DEF Spin, Spins, Needs
    <2> QED BY <1>1, <2>1, <2>2, Switch
<1>3. CASE idle
    BY <1>1, <1>3, Switch, Names DEF idle
<1>4. CASE pit_interrupt
    BY <1>1, <1>4, Switch DEF pit_interrupt
<1> QED BY <1>2, <1>3, <1>4

-----------------------------------------------------------------------------
\* The last stage of a handler stays when the first one ends.
LEMMA StageEnds ==
    ASSUME NEW s \in Seq(StageType), s # <<>>, s[Len(s)][1] = "iret"
    PROVE  /\ Tail(s) \in Seq(StageType)
           /\ Tail(s) # <<>> => Tail(s)[Len(Tail(s))][1] = "iret"
           /\ Head(s)[1] # "iret" => Tail(s) # <<>>
<1>1. /\ Len(s) \in Nat \ {0} /\ Head(s) = s[1] /\ Tail(s) \in Seq(StageType)
      /\ Len(Tail(s)) = Len(s) - 1 /\ Len(s) > 1 => Tail(s) # <<>>
      /\ \A i \in 1..(Len(s) - 1) : Tail(s)[i] = s[i + 1]
    BY TailIs
<1>2. ASSUME Tail(s) # <<>> PROVE Tail(s)[Len(Tail(s))][1] = "iret"
    <2>1. Len(s) > 1
        BY <1>1, <1>2, EmptySeq
    <2>2. Len(s) - 1 \in 1..(Len(s) - 1) /\ (Len(s) - 1) + 1 = Len(s)
        BY <1>1, <2>1
    <2> QED BY <1>1, <2>2
<1> QED BY <1>1, <1>2

\* A handler step keeps the handlers' remaining stages of the form they start with.
LEMMA HandlerSteps ==
    ASSUME WaitInv, IrqStep \/ \E key \in Key : keyboard_handler(key)
    PROVE  irq' \in [Thread -> Seq(StageType)] /\ HandlersEnd'
<1> DEFINE s == irq[current]
<1>a. TypeOK /\ irq \in [Thread -> Seq(StageType)] /\ current \in Thread /\ s \in Seq(StageType)
      /\ \A t \in Thread : irq[t] # <<>> => irq[t][Len(irq[t])][1] = "iret"
    BY DEF WaitInv, WaitersOK, TypeOK, HandlersEnd
<1>1. SUFFICES ASSUME NEW r \in Seq(StageType), irq' = [irq EXCEPT ![current] = r],
                      r # <<>> => r[Len(r)][1] = "iret"
               PROVE  irq' \in [Thread -> Seq(StageType)] /\ HandlersEnd'
    <2> DEFINE ok(r) == /\ r \in Seq(StageType) /\ irq' = [irq EXCEPT ![current] = r]
                        /\ r # <<>> => r[Len(r)][1] = "iret"
    <2> SUFFICES \E r : ok(r)
        BY <1>1
    <2>1. ASSUME NEW key \in Key, keyboard_handler(key) PROVE \E r : ok(r)
        <3> DEFINE p == pty_write_to_input(key)
                   r == p \o <<<<"iret", key>>>> \o s
        <3>1. irq' = [irq EXCEPT ![current] = r]
            BY <2>1 DEF keyboard_handler
        <3>2. PICK n \in 2..4 : /\ r \in Seq(StageType) /\ Len(r) = n + Len(s)
                                /\ r[n][1] = "iret"
                                /\ \A i \in 1..Len(s) : r[n + i] = s[i]
            BY <1>a, Pushed
        <3> HIDE DEF r, p
        <3>3. r[Len(r)][1] = "iret"
            <4>1. CASE s = <<>>
                <5>1. Len(r) = n
                    BY <3>2, <4>1
                <5> QED BY <3>2, <5>1
            <4>2. CASE s # <<>>
                <5>1. Len(s) \in 1..Len(s)
                    BY <1>a, <4>2, TailIs
                <5> QED BY <1>a, <3>2, <4>2, <5>1
            <4> QED BY <4>1, <4>2
        <3>4. ok(r)
            BY <3>1, <3>2, <3>3
        <3> QED BY <3>4
    <2>2. ASSUME s # <<>> PROVE /\ Tail(s) \in Seq(StageType)
                                /\ Tail(s) # <<>> => Tail(s)[Len(Tail(s))][1] = "iret"
                                /\ Head(s)[1] # "iret" => Tail(s) # <<>>
        BY <1>a, <2>2, StageEnds
    <2>3. ASSUME s # <<>>, EndStage PROVE \E r : ok(r)
        <3>1. ok(Tail(s))
            BY <2>2, <2>3 DEF EndStage
        <3> QED BY <3>1
    <2>4. ASSUME IrqPop PROVE \E r : ok(r)
        <3>1. s # <<>> /\ Head(s)[1] = "pop"
            BY <2>4 DEF IrqPop, Stage
        <3>2. CASE EndStage
            BY <3>1, <3>2, <2>3
        <3>3. CASE irq' = [irq EXCEPT ![current] = Tail(Tail(s))]
            <4>1. Tail(s) \in Seq(StageType) /\ Tail(s) # <<>> /\ Tail(s)[Len(Tail(s))][1] = "iret"
                BY <3>1, <2>2
            <4>2. ok(Tail(Tail(s)))
                BY <4>1, <3>3, StageEnds
            <4> QED BY <4>2
        <3> QED BY <2>4, <3>2, <3>3, <1>a DEF IrqPop
    <2>5. ASSUME InputReady PROVE \E r : ok(r)
        <3>1. s # <<>> /\ Head(s)[1] = "ready"
            BY <2>5 DEF InputReady, Stage
        <3>2. CASE EndStage
            BY <3>1, <3>2, <2>3
        <3>3. CASE irq' = [irq EXCEPT ![current] = <<<<"notify", "pair_read">>>> \o Tail(s)]
            <4> DEFINE e == <<<<"notify", "pair_read">>>>
                       w == Tail(s)
            <4>1. w \in Seq(StageType) /\ w # <<>> /\ w[Len(w)][1] = "iret"
                BY <3>1, <2>2
            <4>2. e \in Seq(StageType) /\ Len(e) = 1
                <5>1. <<"notify", "pair_read">> \in StageType
                    BY DEF StageType, Queue
                <5> QED BY <5>1
            <4>3. irq' = [irq EXCEPT ![current] = e \o w]
                BY <3>3
            <4> HIDE DEF e, w
            <4>4. e \o w \in Seq(StageType) /\ Len(e \o w) = Len(e) + Len(w)
                BY <4>1, <4>2, ConcatProperties
            <4>a. \A i \in 1..(Len(e) + Len(w)) : (e \o w)[i] = IF i <= Len(e) THEN e[i] ELSE w[i - Len(e)]
                BY <4>1, <4>2, ConcatProperties
            <4>5. Len(w) \in Nat \ {0}
                BY <4>1, TailIs
            <4>6. (e \o w)[Len(e \o w)] = w[Len(w)]
                BY <4>a, <4>2, <4>4, <4>5
            <4>7. ok(e \o w)
                BY <4>1, <4>3, <4>4, <4>6
            <4> QED BY <4>7
        <3> QED BY <2>5, <3>2, <3>3, <1>a DEF InputReady, EndStage
    <2> QED BY <2>1, <2>3, <2>4, <2>5 DEF IrqStep, IrqPut, IrqNotify, Iret, Stage
<1>2. irq' \in [Thread -> Seq(StageType)]
    BY <1>1, <1>a
<1>3. \A t \in Thread : irq'[t] = IF t = current THEN r ELSE irq[t]
    BY <1>1, <1>a
<1> QED BY <1>1, <1>2, <1>3, <1>a DEF HandlersEnd

\* What a stage of a handler does to the wait queues.
LEMMA HandlerKeeps ==
    ASSUME WaitInv, IrqStep \/ \E key \in Key : keyboard_handler(key)
    PROVE  WaitInv'
<1>a. TypeOK /\ LocksOK /\ CbHeld /\ NoLockAsleep /\ OneQueue /\ HandlersEnd
    BY DEF WaitInv, WaitersOK
<1>h. irq' \in [Thread -> Seq(StageType)] /\ HandlersEnd'
    BY HandlerSteps
<1>u. UNCHANGED <<lock, icanon, current, pc, wq, size, scan, spun>>
    BY DEF IrqStep, IrqPut, IrqPop, InputReady, IrqNotify, Iret, keyboard_handler, cpuVars, locals
<1>i. /\ int_on' \in BOOLEAN
      /\ UNCHANGED ringVars \/ IrqPut \/ IrqPop
      /\ UNCHANGED <<owner, waiting, thread_queue>> \/ IrqNotify
    BY <1>a DEF IrqStep, IrqPut, IrqPop, InputReady, IrqNotify, Iret, keyboard_handler, cpuVars, TypeOK
<1>1. /\ buffer' \in [0..(PTY_BUFFER_SIZE - 1) -> Byte]
      /\ head' \in 0..(PTY_BUFFER_SIZE - 1) /\ tail' \in 0..(PTY_BUFFER_SIZE - 1)
    <2>1. CASE UNCHANGED ringVars
        BY <1>a, <2>1 DEF TypeOK, ringVars
    <2>2. CASE IrqPut
        <3>1. irq[current] # <<>> /\ Head(irq[current])[1] = "put" /\ Head(irq[current]) \in StageType
            <4>1. irq[current] \in Seq(StageType) /\ irq[current] # <<>> /\ Head(irq[current])[1] = "put"
                BY <1>a, <2>2 DEF IrqPut, Stage, TypeOK
            <4> QED BY <4>1, TailIs
        <3>2. Arg \in Byte
            BY <3>1, StageFacts DEF Arg
        <3> QED BY <1>a, <2>2, <3>2, SizeAssumption DEF IrqPut, Ring!PutByte, TypeOK
    <2>3. CASE IrqPop
        <3>1. CASE UNCHANGED ringVars
            BY <3>1, <2>1
        <3>2. CASE Ring!PopByte
            <4>1. \A n \in Nat : n % PTY_BUFFER_SIZE \in 0..(PTY_BUFFER_SIZE - 1)
                BY SizeAssumption
            <4>2. tail - 1 + PTY_BUFFER_SIZE \in Nat
                BY <1>a, SizeAssumption DEF TypeOK
            <4> QED BY <1>a, <3>2, <4>1, <4>2 DEF Ring!PopByte, TypeOK
        <3> QED BY <2>3, <3>1, <3>2 DEF IrqPop
    <2> QED BY <1>i, <2>1, <2>2, <2>3
<1>2. CASE UNCHANGED <<waiting, thread_queue, owner>>
    <2>1. TypeOK'
        BY <1>a, <1>h, <1>u, <1>i, <1>1, <1>2 DEF TypeOK
    <2>2. NoLockAsleep' /\ LocksOK' /\ CbHeld' /\ OneQueue'
        BY <1>a, <1>u, <1>2 DEF NoLockAsleep, LocksOK, CbHeld, OneQueue, Line, Queued
    <2> QED BY <1>h, <2>1, <2>2 DEF WaitInv, WaitersOK
<1>3. CASE IrqNotify
    <2>1. PICK q \in Queue : q = Arg
        <3>1. irq[current] # <<>> /\ Head(irq[current])[1] = "notify" /\ Head(irq[current]) \in StageType
            <4>1. irq[current] \in Seq(StageType) /\ irq[current] # <<>> /\ Head(irq[current])[1] = "notify"
                BY <1>a, <1>3 DEF IrqNotify, Stage, TypeOK
            <4> QED BY <4>1, TailIs
        <3> QED BY <3>1, StageFacts DEF Arg
    <2>2. owner' = [owner EXCEPT ![q] = ~owner[q]]
        BY <1>3, <2>1 DEF IrqNotify, Notify
    <2>3. owner' \in [Queue -> BOOLEAN]
        BY <1>a, <2>2 DEF TypeOK
    <2>4. CASE UNCHANGED <<waiting, thread_queue>>
        <3>1. TypeOK'
            BY <1>a, <1>h, <1>u, <1>i, <1>1, <2>3, <2>4 DEF TypeOK
        <3>2. NoLockAsleep' /\ LocksOK' /\ CbHeld' /\ OneQueue'
            BY <1>a, <1>u, <2>4 DEF NoLockAsleep, LocksOK, CbHeld, OneQueue, Line, Queued
        <3> QED BY <1>h, <3>1, <3>2 DEF WaitInv, WaitersOK
    <2>5. CASE thread_queue' = thread_queue \o waiting[q] /\ waiting' = [waiting EXCEPT ![q] = <<>>]
        <3>1. ToSet(thread_queue') = ToSet(thread_queue) \cup ToSet(waiting[q]) /\ OneQueue'
            BY <1>a, <1>u, <2>5, Woken
        <3>2. waiting[q] \in Seq(Reader) /\ <<>> \in Seq(Reader) /\ thread_queue \in Seq(Reader)
              /\ waiting \in [Queue -> Seq(Reader)]
            BY <1>a DEF TypeOK
        <3>3. thread_queue' \in Seq(Reader) /\ waiting' \in [Queue -> Seq(Reader)]
            BY <2>5, <3>2, ConcatFacts
        <3>4. TypeOK'
            BY <1>a, <1>h, <1>u, <1>i, <1>1, <2>3, <3>3 DEF TypeOK
        <3>5. NoLockAsleep' /\ LocksOK' /\ CbHeld'
            BY <1>a, <1>u, <3>1 DEF NoLockAsleep, LocksOK, CbHeld
        <3> QED BY <1>h, <3>1, <3>4, <3>5 DEF WaitInv, WaitersOK
    <2> QED BY <1>3, <2>1, <2>4, <2>5 DEF IrqNotify, Notify
<1> QED BY <1>i, <1>2, <1>3
-----------------------------------------------------------------------------
\* At the start one reader is on the CPU and the others are ready, in any order.
LEMMA Start == Init => WaitInv
<1> SUFFICES ASSUME Init PROVE WaitInv
    OBVIOUS
<1> USE Names
<1>1. PICK s \in SetToSeqs(Reader) : current = Head(s) /\ thread_queue = Tail(s)
    BY DEF Init
<1> DEFINE n == Cardinality(Reader)
<1>2. n \in Nat \ {0}
    BY ReaderAssumption, FS_CardinalityType, FS_EmptySet
<1>3. s \in [1..n -> Reader] /\ \A i, j \in 1..n : i # j => s[i] # s[j]
    BY DEF SetToSeqs
<1>4. s \in Injection(1..n, Reader)
    BY <1>3 DEF Injection, IsInjective
<1>5. \A t \in Reader : \E i \in 1..n : s[i] = t
    <2>1. IsFiniteSet(1..n) /\ Cardinality(1..n) = n
        BY <1>2, FS_Interval
    <2>2. s \in Surjection(1..n, Reader)
        BY <1>4, <2>1, ReaderAssumption, FS_Injection
    <2> QED BY <2>2 DEF Surjection
<1>6. s \in Seq(Reader) /\ Len(s) = n /\ s # <<>>
    BY <1>2, <1>3
<1>7. IsInjective(s) /\ ToSet(s) = Reader
    BY <1>3, <1>5 DEF IsInjective, ToSet
<1>8. /\ Tail(s) \in Seq(Reader) /\ Head(s) \in Reader
      /\ Reader = ToSet(Tail(s)) \cup {Head(s)}
      /\ IsInjective(Tail(s)) /\ Head(s) \notin ToSet(Tail(s))
    BY <1>6, <1>7, TailFacts
<1>9. TypeOK
    <2>1. /\ buffer \in [0..(PTY_BUFFER_SIZE - 1) -> Byte] /\ head = 0 /\ tail = 0
        BY DEF Init, Ring!Init, Ring!Index
    <2>2. "user" \in Where /\ 0 \in 0..(PTY_BUFFER_SIZE - 1)
          /\ <<0, 0>> \in (0..PTY_BUFFER_SIZE) \X (0..PTY_BUFFER_SIZE)
        BY SizeAssumption DEF Where
    <2>3. scan \in [Reader -> (0..PTY_BUFFER_SIZE) \X (0..PTY_BUFFER_SIZE)]
        BY <2>2 DEF Init
    <2>4. /\ lock \in [Lock -> Reader \cup {Free}] /\ owner \in [Queue -> BOOLEAN]
          /\ waiting \in [Queue -> Seq(Reader)] /\ pc \in [Reader -> Where]
          /\ wq \in [Reader -> Queue] /\ size \in [Reader -> Nat]
          /\ irq \in [Thread -> Seq(StageType)]
        BY <2>2 DEF Init
    <2> QED BY <1>1, <1>8, <2>1, <2>2, <2>3, <2>4 DEF Init, TypeOK
<1>10. NoLockAsleep /\ LocksOK /\ CbHeld /\ HandlersEnd
    BY DEF Init, NoLockAsleep, LocksOK, CbHeld, HandlersEnd
<1>11. OneQueue
    <2>1. /\ Line("ready") = Tail(s) /\ \A q \in Place \ {"ready"} : Line(q) = <<>>
        BY <1>1 DEF Line, Init
    <2>2. ToSet(<<>>) = {} /\ IsInjective(<<>>)
        BY DEF ToSet, IsInjective
    <2>3. \A q \in Place : IsInjective(Line(q))
        BY <1>8, <2>1, <2>2
    <2>4. \A q \in Place : q # "ready" => ToSet(Line(q)) = {}
        BY <2>1, <2>2
    <2>5. \A t \in Reader : Queued(t) <=> t \in ToSet(Tail(s))
        BY <2>1, <2>4 DEF Queued
    <2>6. \A t \in Reader : pc[t] = "user"
        BY DEF Init
    <2> HIDE Names
    <2>7. \A q, r \in Place : q # r => ToSet(Line(q)) \cap ToSet(Line(r)) = {}
        BY <2>4
    <2> QED BY <1>1, <1>8, <2>3, <2>5, <2>6, <2>7 DEF OneQueue
<1> QED BY <1>9, <1>10, <1>11 DEF WaitInv, WaitersOK

\* Every step keeps it.
LEMMA WaitStep == WaitInv /\ [Next]_vars => WaitInv'
<1> SUFFICES ASSUME WaitInv, [Next]_vars PROVE WaitInv'
    OBVIOUS
<1>1. ASSUME NEW t \in Reader, ReaderStep(t) PROVE WaitInv'
    BY <1>1, ReaderQuiet, ReaderWaits, ReaderReleases, ReaderSleeps
<1>2. CASE UNCHANGED vars
    BY ZenonT(60), <1>2 DEF vars, ringVars, cpuVars, locals, WaitInv, WaitersOK, TypeOK, NoLockAsleep,
                OneQueue, Line, Queued, LocksOK, CbHeld, HandlersEnd
<1> QED BY <1>1, <1>2, HandlerKeeps, Switches DEF Next

\* However readers, their wakeups, the keyboard handler and context switches interleave,
\* a reader is queued exactly once or runs, and no lock is held by a sleeper
\* (process.c wait_for_object, wakeup_waiting; mutex.c; ring_buffer.c), for every number
\* of readers, size of the buffer and depth of nested handlers.
THEOREM WaitersHold == Spec => []WaitersOK
<1>1. Init => WaitInv
    BY Start
<1>2. WaitInv /\ [Next]_vars => WaitInv'
    BY WaitStep
<1>3. WaitInv => WaitersOK
    BY DEF WaitInv
<1> QED BY <1>1, <1>2, <1>3, PTL DEF Spec
-----------------------------------------------------------------------------
(***************************************************************************)
(* Room for an accepted byte.                                              *)
(***************************************************************************)
\* What a reader does to the locks: it takes free ones, gives back its own, and holds
\* none when it leaves the CPU.
LEMMA ReaderLocks ==
    ASSUME WaitInv, NEW t \in Reader, ReaderStep(t)
    PROVE  /\ current = t /\ irq[t] = <<>>
           /\ \A l \in Lock : lock'[l] = lock[l] \/ {lock[l], lock'[l]} \subseteq {t, Free}
           /\ \A u \in Reader : irq'[u] = irq[u]
           /\ irq'[Idle] \in {irq[Idle], <<>>}
           /\ \/ current' = current
              \/ \A l \in Lock : lock'[l] = lock[l] /\ lock[l] # t
<1> USE Names
<1>a. TypeOK /\ LocksOK /\ CbHeld
    BY DEF WaitInv, WaitersOK
<1>b. lock \in [Lock -> Reader \cup {Free}] /\ wq[t] \in Queue
      /\ irq \in [Thread -> Seq(StageType)] /\ int_on \in BOOLEAN
    BY <1>a DEF TypeOK
<1> DEFINE goal == /\ current = t /\ irq[t] = <<>>
                   /\ \A l \in Lock : lock'[l] = lock[l] \/ {lock[l], lock'[l]} \subseteq {t, Free}
                   /\ UNCHANGED <<current, irq>>
<1>1. ASSUME NEW n \in ReadSize, pty_slave_read(t, n) PROVE goal
    BY <1>1 DEF pty_slave_read, At, cpuVars
<1>2. ASSUME spin_lock(t) PROVE goal
    BY <1>2, <1>b DEF spin_lock, At, cpuVars
<1>3. ASSUME find_newline(t) PROVE goal
    BY <1>3 DEF find_newline, At, cpuVars
<1>4. ASSUME Peek(t) PROVE goal
    BY <1>4 DEF Peek, At, cpuVars
<1>5. ASSUME mutex_acquire_if_free(t) PROVE goal
    BY <1>5, <1>b DEF mutex_acquire_if_free, At, spin_unlock, cpuVars
<1>6. ASSUME mutex_wait(t) PROVE goal
    BY <1>6, <1>b DEF mutex_wait, At, spin_unlock, cpuVars
<1>7. ASSUME wait_for_object(t) PROVE goal
    BY <1>7, <1>b DEF wait_for_object, At, spin_unlock, cpuVars
<1>8. ASSUME ring_buffer_read(t) PROVE goal
    BY <1>8, <1>b DEF ring_buffer_read, At
<1>9. ASSUME Unlock(t) PROVE goal
    BY <1>9, <1>b, <1>a DEF Unlock, At, spin_unlock, cpuVars, CbHeld
<1>10. ASSUME NotifyWriters(t) PROVE goal
    BY <1>10, <1>b DEF NotifyWriters, At, spin_unlock, cpuVars
<1>11. ASSUME mutex_release(t) PROVE goal
    BY <1>11, <1>b DEF mutex_release, At, spin_unlock
<1>12. ASSUME pty_ioctl(t) PROVE goal
    BY <1>12 DEF pty_ioctl, At, cpuVars
<1>13. ASSUME Discard(t) PROVE goal
    BY <1>13 DEF Discard, At
<1>14. CASE Sleep(t)
    <2>1. /\ current = t /\ irq[t] = <<>> /\ pc[t] = "sleep" /\ lock' = lock
          /\ schedule(TRUE, int_on)
        BY <1>14 DEF Sleep, At
    <2>2. \A l \in Lock : lock[l] # t
        BY <1>a, <2>1 DEF LocksOK
    <2>3. /\ \A u \in Reader : irq'[u] = irq[u]
          /\ irq'[Idle] = irq[Idle] \/ irq'[Idle] = <<>>
        BY <1>a, <1>b, <2>1, ScheduleFacts
    <2> QED BY <2>1, <2>2, <2>3
<1> QED BY <1>1, <1>2, <1>3, <1>4, <1>5, <1>6, <1>7, <1>8, <1>9, <1>10, <1>11, <1>12, <1>13, <1>14
        DEF ReaderStep

\* A step of somebody who is under no handler touches no lock of B.
LEMMA RoomQuiet ==
    ASSUME TypeOK, NEW B \in SUBSET Reader, Room(B), irq[current] = <<>>,
           \A u \in Reader : irq'[u] = irq[u], irq'[Idle] \in {irq[Idle], <<>>},
           \A l \in Lock : lock[l] \in B => lock'[l] = lock[l],
           \A l \in Lock : lock'[l] \in B \cup {current', Free}
    PROVE  Room(B)'
<1>1. \A t \in B : Waits(irq[t], B)'
    <2> SUFFICES ASSUME NEW t \in B PROVE Waits(irq[t], B)'
        OBVIOUS
    <2>1. PICK i \in DOMAIN irq[t] :
              /\ i = 1 \/ irq[t][i - 1][1] = "iret"
              /\ StageLock(irq[t][i]) \in Lock /\ lock[StageLock(irq[t][i])] \in B
        BY DEF Room, Waits
    <2>2. irq'[t] = irq[t]
        OBVIOUS
    <2>3. lock'[StageLock(irq[t][i])] \in B
        BY <2>1
    <2> QED BY <2>1, <2>2, <2>3 DEF Waits, StageLock
<1>2. ASSUME NEW t \in Thread, NEW i \in DOMAIN irq'[t], irq'[t][i][1] = "put"
      PROVE  lock'["cb"] \in B
    <2>1. irq'[t] = irq[t]
        BY <1>2, Names
    <2>2. t # current
        BY <1>2, <2>1
    <2>3. lock["cb"] \in B
        BY <1>2, <2>1, <2>2 DEF Room
    <2> QED BY <2>3, Names
<1> QED BY <1>1, <1>2 DEF Room

\* A handler's stack changes from s to r while the locks stay.
LEMMA RoomHandler ==
    ASSUME TypeOK, NEW B \in SUBSET Reader, Room(B), NEW r \in Seq(StageType),
           irq' = [irq EXCEPT ![current] = r], UNCHANGED <<lock, current>>,
           current \in B => Waits(r, B),
           \A i \in 1..Len(r) : r[i][1] = "put" =>
               \/ lock["cb"] \in B
               \/ i = 1 /\ ~int_on' /\ Ring!ring_buffer_writeable' >= 1
    PROVE  Room(B)'
<1>a. current \in Thread /\ irq \in [Thread -> Seq(StageType)] /\ Reader \subseteq Thread
    BY Names DEF TypeOK
<1>b. \A t \in Thread : irq'[t] = IF t = current THEN r ELSE irq[t]
    BY <1>a
<1>1. ASSUME NEW t \in B PROVE Waits(irq[t], B)'
    <2>1. Waits(irq'[t], B)
        <3>1. CASE t = current
            BY <3>1, <1>a, <1>b
        <3>2. CASE t # current
            BY <3>2, <1>a, <1>b DEF Room
        <3> QED BY <3>1, <3>2
    <2> QED BY <2>1 DEF Waits, StageLock
<1>2. ASSUME NEW t \in Thread, NEW i \in DOMAIN irq'[t], irq'[t][i][1] = "put"
      PROVE  \/ lock["cb"] \in B
             \/ t = current /\ i = 1 /\ ~int_on' /\ Ring!ring_buffer_writeable' >= 1
    <2>1. CASE t = current
        <3>1. irq'[t] = r /\ i \in 1..Len(r)
            BY <1>2, <2>1, <1>b
        <3> QED BY <1>2, <2>1, <3>1
    <2>2. CASE t # current
        BY <1>2, <2>2, <1>b DEF Room
    <2> QED BY <2>1, <2>2
<1> QED BY <1>1, <1>2 DEF Room

\* Whoever waits below the first stage still does when that stage has ended.
LEMMA WaitsBelow ==
    ASSUME NEW B, NEW s \in Seq(StageType), s # <<>>, Waits(s, B),
           StageLock(s[1]) \in Lock => lock[StageLock(s[1])] \notin B
    PROVE  /\ Waits(Tail(s), B)
           /\ s[1][1] # "iret" =>
                  \E i \in 3..Len(s) : /\ s[i - 1][1] = "iret"
                                       /\ StageLock(s[i]) \in Lock /\ lock[StageLock(s[i])] \in B
<1>1. PICK i \in DOMAIN s :
          /\ i = 1 \/ s[i - 1][1] = "iret"
          /\ StageLock(s[i]) \in Lock /\ lock[StageLock(s[i])] \in B
    BY DEF Waits
<1>2. /\ Len(s) \in Nat \ {0} /\ DOMAIN s = 1..Len(s) /\ DOMAIN Tail(s) = 1..(Len(s) - 1)
      /\ \A j \in 1..(Len(s) - 1) : Tail(s)[j] = s[j + 1]
    BY TailIs
<1>3. i # 1 /\ i \in 2..Len(s) /\ s[i - 1][1] = "iret"
    <2>1. i # 1
        BY <1>1
    <2> QED BY <1>1, <1>2, <2>1
<1>4. i - 1 \in DOMAIN Tail(s) /\ Tail(s)[i - 1] = s[i]
    BY <1>2, <1>3
<1>5. i - 1 = 1 \/ Tail(s)[(i - 1) - 1] = s[i - 1]
    BY <1>2, <1>3
<1>6. Waits(Tail(s), B)
    BY <1>1, <1>3, <1>4, <1>5 DEF Waits
<1>7. s[1][1] # "iret" => i \in 3..Len(s)
    <2>1. ASSUME i = 2 PROVE s[1][1] = "iret"
        <3>1. i - 1 = 1
            BY <2>1
        <3> QED BY <1>3, <3>1
    <2> QED BY <1>2, <1>3, <2>1
<1> QED BY <1>1, <1>3, <1>6, <1>7

\* The reader on the CPU is not in B: no handler is on top of it.
LEMMA RoomReader ==
    ASSUME WaitInv, NEW B \in SUBSET Reader, Room(B), NEW t \in Reader, ReaderStep(t)
    PROVE  Room(B)'
<1>1. /\ current = t /\ irq[t] = <<>>
      /\ \A l \in Lock : lock'[l] = lock[l] \/ {lock[l], lock'[l]} \subseteq {t, Free}
      /\ \A u \in Reader : irq'[u] = irq[u]
      /\ irq'[Idle] \in {irq[Idle], <<>>}
      /\ \/ current' = current
         \/ \A l \in Lock : lock'[l] = lock[l] /\ lock[l] # t
    BY ReaderLocks
<1>2. t \notin B /\ Free \notin B
    <2>1. DOMAIN irq[t] = {}
        BY <1>1
    <2> QED BY <2>1, Names DEF Room, Waits
<1>3. \A l \in Lock : lock[l] \in B \cup {current, Free}
    BY DEF Room
<1>4. \A l \in Lock : lock[l] \in B => lock'[l] = lock[l]
    BY <1>1, <1>2
<1>5. \A l \in Lock : lock'[l] \in B \cup {current', Free}
    BY <1>1, <1>3
<1>6. TypeOK
    BY DEF WaitInv, WaitersOK
<1> QED BY <1>1, <1>4, <1>5, <1>6, RoomQuiet

\* A reader or handler that finds a lock held goes to the back of the ready queue.  A
\* handler stays there for ever, and the reader below it joins B.
LEMMA RoomSwitch ==
    ASSUME WaitInv, NEW B \in SUBSET Reader, Room(B), Spin \/ idle \/ pit_interrupt
    PROVE  RoomInv'
<1>a. TypeOK /\ LocksOK /\ int_on \in BOOLEAN /\ current \in Thread
      /\ irq \in [Thread -> Seq(StageType)] /\ lock \in [Lock -> Reader \cup {Free}]
    BY DEF WaitInv, WaitersOK, TypeOK
<1>b. UNCHANGED lock /\ \E flag \in BOOLEAN : schedule(FALSE, flag)
    BY <1>a DEF Spin, idle, pit_interrupt
<1>c. /\ \A u \in Reader : irq'[u] = irq[u]
      /\ irq'[Idle] \in {irq[Idle], <<>>}
    BY <1>a, <1>b, ScheduleFacts
<1>d. \A l \in Lock : lock[l] \in B \cup {current, Free}
    BY DEF Room
<1>1. CASE irq[current] = <<>>
    <2>1. \A l \in Lock : lock[l] # current
        <3>1. CASE current = Idle
            BY <3>1, <1>a, Names
        <3>2. CASE current # Idle /\ Spin
            <4>1. /\ current \in Reader
                  /\ \/ pc[current] \in {"peek", "read", "discard"}
                     \/ pc[current] \in {"acquire", "wait", "object", "notify", "release"}
                        /\ lock[wq[current]] # current
                BY <1>1, <1>a, <3>2, Names DEF Spin, Spins, Needs
            <4> QED BY <4>1, <1>a DEF LocksOK
        <3>3. CASE current # Idle /\ pit_interrupt
            BY <1>a, <3>3 DEF pit_interrupt, LocksOK
        <3> QED BY <3>1, <3>2, <3>3 DEF idle
    <2>2. \A l \in Lock : lock'[l] \in B \cup {current', Free}
        BY <1>b, <1>d, <2>1
    <2>3. Room(B)'
        BY <1>1, <1>a, <1>b, <1>c, <2>2, RoomQuiet
    <2> QED BY <2>3 DEF RoomInv
<1>2. CASE irq[current] # <<>>
    <2>1. Spin
        BY <1>2 DEF idle, pit_interrupt
    <2>2. /\ irq[current] \in Seq(StageType) /\ 1 \in DOMAIN irq[current]
          /\ Head(irq[current]) = irq[current][1]
        BY <1>a, <1>2, TailIs
    <2>3. /\ StageLock(irq[current][1]) \in Lock
          /\ lock[StageLock(irq[current][1])] # Free
        BY <1>2, <2>1, <2>2 DEF Spin, Spins, Needs
    <2>4. PICK C \in SUBSET Reader : C = B \cup ({current} \cap Reader)
        OBVIOUS
    <2>5. \A l \in Lock : lock[l] \in C \cup {Free}
        BY <1>a, <1>d, <2>4
    <2>6. \A t \in C : Waits(irq[t], C)
        <3> SUFFICES ASSUME NEW t \in C PROVE Waits(irq[t], C)
            OBVIOUS
        <3>1. CASE t = current
            BY <3>1, <2>2, <2>3, <2>5 DEF Waits
        <3>2. CASE t # current
            <4>1. Waits(irq[t], B)
                BY <3>2, <2>4 DEF Room
            <4> QED BY <4>1, <2>4 DEF Waits
        <3> QED BY <3>1, <3>2
    <2>7. ASSUME NEW t \in C PROVE Waits(irq[t], C)'
        <3>1. irq'[t] = irq[t] /\ Waits(irq[t], C)
            BY <1>c, <2>6
        <3> QED BY <3>1, <1>b DEF Waits, StageLock
    <2>8. ASSUME NEW t \in Thread, NEW i \in DOMAIN irq'[t], irq'[t][i][1] = "put"
          PROVE  lock["cb"] \in C
        <3>1. irq'[t] = irq[t]
            BY <2>8, <1>c, Names
        <3>2. CASE t = current /\ i = 1
            <4>1. StageLock(irq[current][1]) = "cb"
                BY <2>8, <3>1, <3>2 DEF StageLock
            <4> QED BY <2>3, <2>5, <4>1
        <3>3. CASE lock["cb"] \in B
            BY <3>3, <2>4
        <3> QED BY <2>8, <3>1, <3>2, <3>3 DEF Room
    <2>9. Room(C)'
        BY <1>b, <2>5, <2>7, <2>8 DEF Room
    <2> QED BY <2>9 DEF RoomInv
<1> QED BY <1>1, <1>2

\* A key: whatever waited is now below the new handler and its iret.
LEMMA RoomKey ==
    ASSUME WaitInv, NEW B \in SUBSET Reader, Room(B), NEW key \in Key, keyboard_handler(key)
    PROVE  Room(B)'
<1> DEFINE s == irq[current]
           p == pty_write_to_input(key)
           r == p \o <<<<"iret", key>>>> \o s
<1>a. TypeOK /\ current \in Thread /\ s \in Seq(StageType)
    BY DEF WaitInv, WaitersOK, TypeOK
<1>b. /\ int_on /\ irq' = [irq EXCEPT ![current] = r] /\ ~int_on'
      /\ UNCHANGED <<lock, current, head, tail>>
    BY DEF keyboard_handler, ringVars
<1>1. /\ p \in Seq(StageType) /\ Len(p) \in 1..3
      /\ \A i \in 1..Len(p) : p[i][1] = "put" => i = 1 /\ Ring!ring_buffer_writeable >= 1
    BY <1>a, NewStages
<1>2. PICK n \in 2..4 : /\ n = Len(p) + 1
                        /\ r \in Seq(StageType) /\ Len(r) = n + Len(s)
                        /\ \A i \in 1..(n - 1) : r[i] = p[i]
                        /\ r[n][1] = "iret"
                        /\ \A i \in 1..Len(s) : r[n + i] = s[i]
    BY <1>a, Pushed
<1>3. Len(s) \in Nat /\ DOMAIN s = 1..Len(s) /\ DOMAIN r = 1..(n + Len(s))
    BY <1>a, <1>2
<1> HIDE DEF r, p, s
<1>4. ASSUME current \in B PROVE Waits(r, B)
    <2>1. PICK i \in DOMAIN s :
              /\ i = 1 \/ s[i - 1][1] = "iret"
              /\ StageLock(s[i]) \in Lock /\ lock[StageLock(s[i])] \in B
        BY <1>4 DEF Room, Waits, s
    <2>2. n + i \in DOMAIN r /\ r[n + i] = s[i]
        BY <1>2, <1>3, <2>1
    <2>3. r[(n + i) - 1][1] = "iret"
        <3>1. CASE i = 1
            <4>1. (n + i) - 1 = n
                BY <3>1
            <4> QED BY <4>1, <1>2
        <3>2. CASE i # 1
            <4>1. i - 1 \in 1..Len(s) /\ (n + i) - 1 = n + (i - 1)
                BY <3>2, <1>3, <2>1
            <4> QED BY <4>1, <3>2, <1>2, <2>1
        <3> QED BY <3>1, <3>2
    <2> QED BY <2>1, <2>2, <2>3 DEF Waits
<1>5. Ring!ring_buffer_writeable' = Ring!ring_buffer_writeable
    BY <1>b DEF Ring!ring_buffer_writeable
<1>6. ASSUME NEW i \in 1..Len(r), r[i][1] = "put"
      PROVE  \/ lock["cb"] \in B
             \/ i = 1 /\ ~int_on' /\ Ring!ring_buffer_writeable' >= 1
    <2>1. CASE i < n
        <3>1. i \in 1..(n - 1) /\ i \in 1..Len(p)
            BY <2>1, <1>2, <1>3, <1>6
        <3> QED BY <3>1, <1>1, <1>2, <1>5, <1>6, <1>b
    <2>2. CASE i = n
        BY <2>2, <1>2, <1>6
    <2>3. CASE i > n
        <3>1. i - n \in 1..Len(s) /\ n + (i - n) = i
            BY <2>3, <1>2, <1>3, <1>6
        <3>2. s[i - n][1] = "put" /\ i - n \in DOMAIN irq[current]
            BY <3>1, <1>2, <1>3, <1>6 DEF s
        <3> QED BY <3>2, <1>a, <1>b DEF Room, s
    <2> QED BY <2>1, <2>2, <2>3, <1>2, <1>3, <1>6
<1> QED BY <1>a, <1>b, <1>2, <1>4, <1>6, RoomHandler

\* A handler goes on: its stage took a free lock, so nobody was waiting there for a lock
\* of B.
LEMMA RoomIrq ==
    ASSUME WaitInv, NEW B \in SUBSET Reader, Room(B), IrqStep
    PROVE  Room(B)'
<1> DEFINE s == irq[current]
<1>a. TypeOK /\ current \in Thread /\ s \in Seq(StageType) /\ HandlersEnd /\ Free \notin B
      /\ icanon \in BOOLEAN /\ irq \in [Thread -> Seq(StageType)]
    BY Names DEF WaitInv, WaitersOK, TypeOK
<1>b. s # <<>> /\ UNCHANGED <<lock, current>>
    BY DEF IrqStep, IrqPut, IrqPop, InputReady, IrqNotify, Iret, Stage, cpuVars
<1>c. /\ Len(s) \in Nat \ {0} /\ DOMAIN s = 1..Len(s) /\ Head(s) = s[1] /\ s[1] \in StageType
      /\ Tail(s) \in Seq(StageType) /\ Len(Tail(s)) = Len(s) - 1
      /\ \A i \in 1..(Len(s) - 1) : Tail(s)[i] = s[i + 1]
      /\ s[Len(s)][1] = "iret"
    BY <1>a, <1>b, TailIs DEF HandlersEnd
<1>d. StageLock(s[1]) \in Lock => lock[StageLock(s[1])] \notin B
    <2>1. StageLock(s[1]) = IF s[1][1] \in {"put", "pop"} THEN "cb"
                            ELSE IF s[1][1] = "notify" THEN s[1][2] ELSE Free
        BY <1>c, StageFacts
    <2>2. s[1] = Head(irq[current])
        BY <1>c
    <2> HIDE DEF s
    <2> QED BY <1>a, <2>1, <2>2, Names
            DEF IrqStep, IrqPut, IrqPop, InputReady, IrqNotify, Notify, Iret, Stage, Arg
<1>e. \A i \in 2..Len(s) : s[i][1] = "put" => lock["cb"] \in B
    BY <1>a, <1>c DEF Room
<1>f. /\ current \in B => Waits(s, B)
      /\ current \in B => Waits(Tail(s), B)
      /\ current \in B /\ s[1][1] # "iret" =>
             \E i \in 3..Len(s) : /\ s[i - 1][1] = "iret"
                                  /\ StageLock(s[i]) \in Lock /\ lock[StageLock(s[i])] \in B
    BY <1>a, <1>b, <1>d, WaitsBelow DEF Room
<1>g. \A i \in 1..Len(Tail(s)) : Tail(s)[i][1] = "put" => lock["cb"] \in B
    <2> SUFFICES ASSUME NEW i \in 1..(Len(s) - 1), s[i + 1][1] = "put" PROVE lock["cb"] \in B
        BY <1>c
    <2>1. i + 1 \in 2..Len(s)
        BY <1>c
    <2> QED BY <2>1, <1>e
<1>1. CASE EndStage
    <2>1. irq' = [irq EXCEPT ![current] = Tail(s)]
        BY <1>1 DEF EndStage
    <2> HIDE DEF s
    <2> QED BY <1>a, <1>b, <1>c, <1>f, <1>g, <2>1, RoomHandler
<1>2. CASE IrqPop /\ irq' = [irq EXCEPT ![current] = Tail(Tail(s))]
    <2> DEFINE w == Tail(s)
    <2>1. s[1][1] = "pop"
        BY <1>2, <1>c DEF IrqPop, Stage
    <2>2. w \in Seq(StageType) /\ w # <<>>
        BY <1>a, <1>b, <1>c, <2>1, StageEnds
    <2>3. /\ Tail(w) \in Seq(StageType) /\ Len(w) \in Nat \ {0} /\ Len(Tail(w)) = Len(w) - 1
          /\ \A i \in 1..(Len(w) - 1) : Tail(w)[i] = w[i + 1]
        BY <2>2, TailIs
    <2>4. irq' = [irq EXCEPT ![current] = Tail(w)]
        BY <1>2
    <2>5. ASSUME NEW i \in 1..Len(Tail(w)), Tail(w)[i][1] = "put" PROVE lock["cb"] \in B
        <3>1. i + 1 \in 1..Len(w) /\ Tail(w)[i] = w[i + 1]
            BY <2>3, <2>5
        <3> HIDE DEF w
        <3> QED BY <3>1, <2>5, <1>g DEF w
    <2>6. ASSUME current \in B PROVE Waits(Tail(w), B)
        <3>1. PICK i \in 3..Len(s) : /\ s[i - 1][1] = "iret"
                                     /\ StageLock(s[i]) \in Lock /\ lock[StageLock(s[i])] \in B
            BY <1>f, <2>1, <2>6
        <3>2. i - 2 \in 1..(Len(w) - 1) /\ (i - 2) + 1 = i - 1 /\ i - 1 \in 1..(Len(s) - 1)
              /\ (i - 1) + 1 = i
            BY <1>c, <3>1
        <3>3. Tail(w)[i - 2] = s[i]
            BY <1>c, <2>3, <3>2
        <3>4. i - 2 = 1 \/ Tail(w)[(i - 2) - 1] = s[i - 1]
            <4>1. CASE i = 3
                BY <4>1
            <4>2. CASE i # 3
                <5>1. (i - 2) - 1 \in 1..(Len(w) - 1) /\ ((i - 2) - 1) + 1 = i - 2
                      /\ i - 2 \in 1..(Len(s) - 1) /\ (i - 2) + 1 = i - 1
                    BY <1>c, <3>2, <4>2
                <5> QED BY <1>c, <2>3, <5>1
            <4> QED BY <4>1, <4>2
        <3>5. DOMAIN Tail(w) = 1..(Len(w) - 1)
            BY <2>2, TailIs
        <3> HIDE DEF w
        <3> QED BY <3>1, <3>2, <3>3, <3>4, <3>5 DEF Waits
    <2> HIDE DEF w
    <2> QED BY <1>a, <1>b, <2>3, <2>4, <2>5, <2>6, RoomHandler
<1>3. CASE InputReady /\ irq' = [irq EXCEPT ![current] = <<<<"notify", "pair_read">>>> \o Tail(s)]
    <2> DEFINE w == Tail(s)
               e == <<<<"notify", "pair_read">>>>
               r == e \o w
    <2>1. s[1][1] = "ready"
        BY <1>3, <1>c DEF InputReady, Stage
    <2>2. e \in Seq(StageType) /\ Len(e) = 1 /\ e[1][1] = "notify"
        <3>1. <<"notify", "pair_read">> \in StageType
            BY DEF StageType, Queue
        <3> QED BY <3>1
    <2>3. irq' = [irq EXCEPT ![current] = r]
        BY <1>3
    <2>w. w \in Seq(StageType) /\ Len(w) = Len(s) - 1
        BY <1>c
    <2>p. \A i \in 1..Len(w) : w[i][1] = "put" => lock["cb"] \in B
        BY <1>g
    <2>s. \A i \in 1..Len(w) : w[i] = s[i + 1]
        BY <1>c
    <2> HIDE DEF e, w
    <2>4. r \in Seq(StageType) /\ Len(r) = Len(e) + Len(w)
        BY <2>w, <2>2, ConcatProperties
    <2>5. \A i \in 1..(Len(e) + Len(w)) : r[i] = IF i <= Len(e) THEN e[i] ELSE w[i - Len(e)]
        BY <2>w, <2>2, ConcatProperties
    <2> HIDE DEF r, s
    <2>6. /\ Len(r) = Len(s) /\ DOMAIN r = 1..Len(s) /\ r[1][1] = "notify"
          /\ \A i \in 2..Len(s) : r[i] = s[i] /\ r[i] = w[i - 1] /\ i - 1 \in 1..Len(w)
        <3>1. Len(r) = Len(s) /\ DOMAIN r = 1..Len(s)
            BY <1>c, <2>w, <2>2, <2>4
        <3>2. r[1] = e[1]
            BY <1>c, <2>w, <2>2, <2>5
        <3>3. ASSUME NEW i \in 2..Len(s) PROVE r[i] = s[i] /\ r[i] = w[i - 1] /\ i - 1 \in 1..Len(w)
            <4>1. i - 1 \in 1..Len(w) /\ i \in 1..(Len(e) + Len(w)) /\ ~(i <= Len(e)) /\ (i - 1) + 1 = i
                BY <1>c, <2>w, <2>2
            <4>2. r[i] = w[i - 1]
                BY <2>5, <4>1, <2>2
            <4> QED BY <4>1, <4>2, <2>s
        <3> QED BY <3>1, <3>2, <3>3, <2>2
    <2>7. ASSUME NEW i \in 1..Len(r), r[i][1] = "put" PROVE lock["cb"] \in B
        <3>1. i \in 2..Len(s)
            BY <1>c, <2>6, <2>7
        <3> QED BY <3>1, <2>6, <2>7, <2>p
    <2>8. ASSUME current \in B PROVE Waits(r, B)
        <3>1. PICK i \in 3..Len(s) : /\ s[i - 1][1] = "iret"
                                     /\ StageLock(s[i]) \in Lock /\ lock[StageLock(s[i])] \in B
            BY <1>f, <2>1, <2>8
        <3>2. i \in 2..Len(s) /\ i - 1 \in 2..Len(s) /\ i \in DOMAIN r
            BY <1>c, <2>6, <3>1
        <3>3. r[i] = s[i] /\ r[i - 1] = s[i - 1]
            BY <2>6, <3>2
        <3> QED BY <3>1, <3>2, <3>3 DEF Waits
    <2> QED BY <1>a, <1>b, <2>3, <2>4, <2>7, <2>8, RoomHandler
<1>4. \/ EndStage
      \/ IrqPop /\ irq' = [irq EXCEPT ![current] = Tail(Tail(s))]
      \/ InputReady /\ irq' = [irq EXCEPT ![current] = <<<<"notify", "pair_read">>>> \o Tail(s)]
    <2>1. CASE InputReady
        BY <2>1, <1>a DEF InputReady, EndStage
    <2>2. CASE IrqPop
        BY <2>2, <1>a DEF IrqPop
    <2> QED BY <2>1, <2>2 DEF IrqStep, IrqPut, IrqNotify, Iret
<1> QED BY <1>1, <1>2, <1>3, <1>4

\* At the start nobody waits and the ring is empty.
LEMMA RoomStart == Init => RoomInv
<1> SUFFICES ASSUME Init PROVE Room({})
    BY DEF RoomInv
<1> QED BY Names DEF Init, Room, Waits

\* Every step keeps room for the byte that was accepted.
LEMMA RoomStep == WaitInv /\ RoomInv /\ [Next]_vars => RoomInv'
<1> SUFFICES ASSUME WaitInv, RoomInv, [Next]_vars PROVE RoomInv'
    OBVIOUS
<1>1. PICK B \in SUBSET Reader : Room(B)
    BY DEF RoomInv
<1>2. CASE UNCHANGED vars
    <2>1. Room(B)'
        BY <1>1, <1>2 DEF vars, ringVars, cpuVars, Room, Waits, StageLock, Ring!ring_buffer_writeable
    <2> QED BY <2>1 DEF RoomInv
<1>3. ASSUME NEW t \in Reader, ReaderStep(t) PROVE RoomInv'
    <2>1. Room(B)'
        BY <1>1, <1>3, RoomReader
    <2> QED BY <2>1 DEF RoomInv
<1>4. ASSUME NEW key \in Key, keyboard_handler(key) PROVE RoomInv'
    <2>1. Room(B)'
        BY <1>1, <1>4, RoomKey
    <2> QED BY <2>1 DEF RoomInv
<1>5. CASE IrqStep
    <2>1. Room(B)'
        BY <1>1, <1>5, RoomIrq
    <2> QED BY <2>1 DEF RoomInv
<1> QED BY <1>1, <1>2, <1>3, <1>4, <1>5, RoomSwitch DEF Next
-----------------------------------------------------------------------------
(***************************************************************************)
(* The ring buffer between the keyboard handler and the readers is a       *)
(* queue: what RingBuffer_proof shows of each critical section, with the   *)
(* handler's pending byte as what is still to be written.                  *)
(***************************************************************************)
R == INSTANCE RingBuffer_proof WITH max <- PTY_BUFFER_SIZE, todo <- Accepted, ret <- 0

\* The ring inside the terminal has the types under which the ring's own lemmas hold.
LEMMA RingTypes ==
    ASSUME TypeOK
    PROVE  /\ R!TypeOK /\ Accepted \in Seq(Byte)
           /\ PTY_BUFFER_SIZE \in Nat \ {0}
           /\ R!Avail(head, tail) \in 0..(PTY_BUFFER_SIZE - 1)
           /\ Ring!ring_buffer_available = R!Avail(head, tail)
           /\ Ring!ring_buffer_writeable = PTY_BUFFER_SIZE - 1 - R!Avail(head, tail)
           /\ Ring!Contents = R!ContentsOf(buffer, head, tail)
           /\ Ring!Contents' = R!ContentsOf(buffer', head', tail')
           /\ Ring!Contents \in Seq(Byte) /\ Len(Ring!Contents) = R!Avail(head, tail)
<1>1. PTY_BUFFER_SIZE \in Nat \ {0}
    BY SizeAssumption
<1>2. buffer \in [R!Index -> Byte] /\ head \in R!Index /\ tail \in R!Index
    BY DEF TypeOK, R!Index
<1>3. Accepted \in Seq(Byte)
    <2>1. CASE irq[current] # <<>> /\ Head(irq[current])[1] = "put"
        <3>1. irq[current] \in Seq(StageType)
            BY DEF TypeOK
        <3>2. Head(irq[current]) \in StageType
            BY <2>1, <3>1, TailIs
        <3>3. Head(irq[current])[2] \in Byte
            BY <2>1, <3>2, StageFacts
        <3>4. <<Head(irq[current])[2]>> \in Seq(Byte)
            BY <3>3
        <3> QED BY <2>1, <3>4 DEF Accepted
    <2>2. CASE ~(irq[current] # <<>> /\ Head(irq[current])[1] = "put")
        <3>1. Accepted = <<>>
            BY <2>2 DEF Accepted
        <3> QED BY <3>1
    <2> QED BY <2>1, <2>2
<1>4. R!TypeOK
    BY <1>1, <1>2, <1>3 DEF R!TypeOK
<1>5. R!Avail(head, tail) \in 0..(PTY_BUFFER_SIZE - 1)
    BY <1>1, <1>2, R!RoomFacts
<1>6. Ring!ring_buffer_available = R!Avail(head, tail)
    BY DEF Ring!ring_buffer_available, R!Avail
<1>7. Ring!ring_buffer_writeable = PTY_BUFFER_SIZE - 1 - R!Avail(head, tail)
    BY <1>1, <1>2 DEF Ring!ring_buffer_writeable, R!Avail, R!Index
<1>8. /\ Ring!Contents = R!ContentsOf(buffer, head, tail)
      /\ Ring!Contents' = R!ContentsOf(buffer', head', tail')
    BY DEF Ring!Contents, R!ContentsOf, Ring!ring_buffer_peek, Ring!ring_buffer_available, R!Avail
<1>9. /\ R!ContentsOf(buffer, head, tail) \in Seq(Byte)
      /\ Len(R!ContentsOf(buffer, head, tail)) = R!Avail(head, tail)
    BY <1>1, <1>2, R!ContentsFacts
<1> QED BY <1>1, <1>3, <1>4, <1>5, <1>6, <1>7, <1>8, <1>9

\* Nothing is pending besides the byte on top while the lock of the buffer is free.
LEMMA OnePending ==
    ASSUME TypeOK, RoomInv, lock["cb"] = Free
    PROVE  \A t \in Thread : \A i \in DOMAIN irq[t] : irq[t][i][1] = "put" =>
               t = current /\ i = 1 /\ Ring!ring_buffer_writeable >= 1
BY Names DEF RoomInv, Room

\* Behind the stage a handler is at there is no second byte to store.
LEMMA NextPending ==
    ASSUME TypeOK, RoomInv, lock["cb"] = Free, irq[current] # <<>>, Tail(irq[current]) # <<>>
    PROVE  Head(Tail(irq[current]))[1] # "put"
<1> DEFINE s == irq[current]
           w == Tail(s)
<1>1. s \in Seq(StageType) /\ current \in Thread
    BY DEF TypeOK
<1>2. /\ Len(s) \in Nat \ {0} /\ DOMAIN s = 1..Len(s) /\ w \in Seq(StageType)
      /\ Len(w) = Len(s) - 1 /\ \A i \in 1..(Len(s) - 1) : w[i] = s[i + 1]
    BY <1>1, TailIs
<1>3. Head(w) = w[1] /\ Len(w) \in Nat \ {0}
    BY <1>2, TailIs
<1> HIDE DEF w
<1>4. 1 \in 1..(Len(s) - 1) /\ 2 \in 1..Len(s)
    BY <1>2, <1>3
<1>5. w[1] = s[2]
    <2>1. 1 + 1 = 2
        OBVIOUS
    <2> QED BY <1>2, <1>4, <2>1
<1>6. s[2][1] # "put"
    BY <1>1, <1>2, <1>4, OnePending
<1> QED BY <1>3, <1>5, <1>6 DEF w

\* A step of terminal input is a step of the queue or leaves it alone.
LEMMA QueueStep == WaitInv /\ RoomInv /\ [Next]_vars => [Ring!Queue!QueueNext]_(Ring!Contents)
<1> SUFFICES ASSUME WaitInv, RoomInv, [Next]_vars
             PROVE  Ring!Queue!QueueNext \/ Ring!Contents' = Ring!Contents
    OBVIOUS
<1>a. TypeOK /\ HandlersEnd
    BY DEF WaitInv, WaitersOK
<1>b. /\ R!TypeOK /\ Accepted \in Seq(Byte) /\ PTY_BUFFER_SIZE \in Nat \ {0}
      /\ R!Avail(head, tail) \in 0..(PTY_BUFFER_SIZE - 1)
      /\ Ring!ring_buffer_available = R!Avail(head, tail)
      /\ Ring!ring_buffer_writeable = PTY_BUFFER_SIZE - 1 - R!Avail(head, tail)
      /\ Ring!Contents = R!ContentsOf(buffer, head, tail)
      /\ Ring!Contents' = R!ContentsOf(buffer', head', tail')
      /\ Ring!Contents \in Seq(Byte) /\ Len(Ring!Contents) = R!Avail(head, tail)
    BY <1>a, RingTypes
<1>1. ASSUME UNCHANGED ringVars PROVE Ring!Contents' = Ring!Contents
    BY <1>1, <1>b DEF ringVars
<1>2. ASSUME IrqPut PROVE Ring!Queue!QueueNext
    <2> DEFINE s == irq[current]
    <2>1. /\ s # <<>> /\ s[1][1] = "put" /\ s[1] = Head(s) /\ lock["cb"] = Free /\ Ring!PutByte(s[1][2])
          /\ s \in Seq(StageType) /\ current \in Thread /\ s[1] \in StageType
          /\ irq' = [irq EXCEPT ![current] = Tail(s)] /\ current' = current
        <3>1. s # <<>> /\ s \in Seq(StageType) /\ current \in Thread
            BY <1>2, <1>a DEF IrqPut, Stage, TypeOK
        <3>2. s[1] = Head(s) /\ s[1] \in StageType
            BY <3>1, TailIs
        <3> QED BY <1>2, <3>1, <3>2 DEF IrqPut, Stage, Arg, EndStage, cpuVars
    <2>2. s[1][2] \in Byte /\ Accepted = <<s[1][2]>>
        BY <2>1, StageFacts DEF Accepted
    <2>3. 1 \in DOMAIN s
        BY <2>1, TailIs
    <2>4. Ring!ring_buffer_writeable >= 1
        BY <1>a, <2>1, <2>3, OnePending
    <2>5. Accepted' = <<>>
        <3>1. irq'[current'] = Tail(s)
            BY <1>a, <2>1 DEF TypeOK
        <3>2. ASSUME Tail(s) # <<>> PROVE Head(Tail(s))[1] # "put"
            BY <1>a, <2>1, <3>2, NextPending
        <3> QED BY <3>1, <3>2 DEF Accepted
    <2>6. R!PutByte(s[1][2]) /\ R!ring_buffer_writeable >= 1
        BY <2>1, <2>4 DEF R!PutByte, Ring!PutByte, R!ring_buffer_writeable, Ring!ring_buffer_writeable
    <2>7. Ring!Contents' = Append(Ring!Contents, s[1][2])
        BY <1>b, <2>2, <2>6, R!PutFacts
    <2>8. Len(Ring!Contents) < PTY_BUFFER_SIZE - 1
        BY <1>b, <2>4
    <2>9. Accepted # <<>> /\ Head(Accepted) = s[1][2] /\ Tail(Accepted) = <<>>
        BY <2>2
    <2> QED BY <2>2, <2>5, <2>7, <2>8, <2>9 DEF Ring!Queue!QueueNext, Ring!Queue!Put
<1>3. ASSUME IrqPop, Ring!PopByte PROVE Ring!Queue!QueueNext
    <2> DEFINE s == irq[current]
    <2>1. /\ s # <<>> /\ s[1][1] = "pop" /\ lock["cb"] = Free
          /\ s \in Seq(StageType) /\ current \in Thread /\ current' = current
          /\ irq' = [irq EXCEPT ![current] = Tail(s)]
        <3>1. s # <<>> /\ s \in Seq(StageType) /\ current \in Thread
            BY <1>3, <1>a DEF IrqPop, Stage, TypeOK
        <3>2. s[1] = Head(s)
            BY <3>1, TailIs
        <3>3. Ring!ring_buffer_available # 0
            BY <1>3 DEF Ring!PopByte
        <3> QED BY <1>3, <3>1, <3>2, <3>3 DEF IrqPop, Stage, EndStage, cpuVars
    <2>2. Accepted = <<>>
        BY <2>1, TailIs DEF Accepted
    <2>3. Accepted' = <<>>
        <3>1. irq'[current'] = Tail(s)
            BY <1>a, <2>1 DEF TypeOK
        <3>2. ASSUME Tail(s) # <<>> PROVE Head(Tail(s))[1] # "put"
            BY <1>a, <2>1, <3>2, NextPending
        <3> QED BY <3>1, <3>2 DEF Accepted
    <2>4. R!PopByte
        BY <1>3 DEF R!PopByte, Ring!PopByte, R!ring_buffer_available, Ring!ring_buffer_available
    <2>5. /\ R!Avail(head, tail) > 0
          /\ Ring!Contents' = SubSeq(Ring!Contents, 1, Len(Ring!Contents) - 1)
        BY <1>b, <2>4, R!PopFacts
    <2>6. Ring!Contents # <<>>
        BY <1>b, <2>5, EmptySeq
    <2> QED BY <2>2, <2>3, <2>5, <2>6 DEF Ring!Queue!QueueNext, Ring!Queue!Drop
<1>4. ASSUME NEW t \in Reader, ring_buffer_read(t), Ring!TakeBytes(size[t]),
             Ring!ReadCount(size[t]) > 0
      PROVE  Ring!Queue!QueueNext
    <2>1. UNCHANGED Accepted
        BY <1>4 DEF ring_buffer_read, Accepted
    <2>2. size[t] \in Nat
        BY <1>a DEF TypeOK
    <2>3. R!TakeBytes(size[t]) /\ R!ReadCount(size[t]) = Ring!ReadCount(size[t])
        BY <1>4 DEF R!TakeBytes, Ring!TakeBytes, R!ReadCount, Ring!ReadCount,
                    R!ring_buffer_available, Ring!ring_buffer_available
    <2> DEFINE n == Ring!ReadCount(size[t])
    <2>4. /\ n \in 0..R!Avail(head, tail)
          /\ Ring!Contents' = SubSeq(Ring!Contents, n + 1, Len(Ring!Contents))
        BY <1>b, <2>2, <2>3, R!TakeFacts
    <2>5. n \in 1..(PTY_BUFFER_SIZE - 1) /\ n <= Len(Ring!Contents)
        BY <1>4, <1>b, <2>4
    <2> HIDE DEF n
    <2> QED BY <2>1, <2>4, <2>5 DEF Ring!Queue!QueueNext, Ring!Queue!Take
<1>5. ASSUME NEW t \in Reader, Discard(t) PROVE Ring!Queue!QueueNext
    <2>1. UNCHANGED Accepted
        BY <1>5 DEF Discard, Accepted
    <2>2. head' = tail /\ tail' = tail /\ buffer' = buffer
        BY <1>5 DEF Discard, Ring!ring_buffer_discard_readable
    <2>3. R!Avail(head', tail') = 0
        BY <2>2 DEF R!Avail
    <2>4. Ring!Contents' = <<>>
        <3>1. buffer' \in [R!Index -> Byte] /\ head' \in R!Index /\ tail' \in R!Index
            BY <1>b, <2>2 DEF R!TypeOK
        <3>2. Ring!Contents' \in Seq(Byte) /\ Len(Ring!Contents') = 0
            BY <1>b, <2>3, <3>1, R!ContentsFacts
        <3> QED BY <3>2, EmptySeq
    <2> QED BY <2>1, <2>4 DEF Ring!Queue!QueueNext, Ring!Queue!Clear
<1>6. ASSUME NEW t \in Reader, ReaderStep(t)
      PROVE  \/ UNCHANGED ringVars \/ Discard(t)
             \/ ring_buffer_read(t) /\ Ring!TakeBytes(size[t]) /\ Ring!ReadCount(size[t]) > 0
    <2>1. CASE ring_buffer_read(t)
        BY <2>1 DEF ring_buffer_read
    <2> QED BY <1>6, <2>1 DEF ReaderStep, pty_slave_read, spin_lock, find_newline, Peek,
            mutex_acquire_if_free, mutex_wait, wait_for_object, Sleep, Unlock, NotifyWriters,
            mutex_release, pty_ioctl
<1>7. ASSUME IrqStep PROVE UNCHANGED ringVars \/ IrqPut \/ (IrqPop /\ Ring!PopByte)
    BY <1>7 DEF IrqStep, IrqPop, InputReady, IrqNotify, Iret
<1>8. \/ \E t \in Reader : ReaderStep(t)
      \/ IrqStep \/ UNCHANGED ringVars
    BY DEF Next, keyboard_handler, Spin, idle, pit_interrupt, vars
<1> QED BY <1>1, <1>2, <1>3, <1>4, <1>5, <1>6, <1>7, <1>8

\* With the keyboard writing from interrupts and any number of readers taking from it,
\* ring_buffer.c keeps a first-in first-out queue of PTY_BUFFER_SIZE - 1 bytes: no byte
\* is overwritten before it is read, none is lost, duplicated or reordered, although
\* the handler tests for room long before it stores the byte.
THEOREM RingRefinement == Spec => RingIsQueue
<1>1. Init => Ring!Queue!QueueInit
    <2> SUFFICES ASSUME Init PROVE Ring!Contents = <<>>
        BY DEF Ring!Queue!QueueInit
    <2>1. TypeOK
        BY Start DEF WaitInv, WaitersOK
    <2>2. Ring!Contents \in Seq(Byte) /\ Len(Ring!Contents) = R!Avail(head, tail)
        BY <2>1, RingTypes
    <2>3. R!Avail(head, tail) = 0
        BY DEF Init, Ring!Init, R!Avail
    <2> QED BY <2>2, <2>3, EmptySeq
<1>2. Init => WaitInv /\ RoomInv
    BY Start, RoomStart
<1>3. WaitInv /\ RoomInv /\ [Next]_vars => (WaitInv /\ RoomInv)'
    BY WaitStep, RoomStep
<1>4. WaitInv /\ RoomInv /\ [Next]_vars => [Ring!Queue!QueueNext]_(Ring!Contents)
    BY QueueStep
<1> QED BY <1>1, <1>2, <1>3, <1>4, PTL DEF Spec, RingIsQueue, Ring!ImplementsQueue, Ring!Queue!QueueSpec
=============================================================================
