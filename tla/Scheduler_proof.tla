--------------------------- MODULE Scheduler_proof ---------------------------
(***************************************************************************)
(* Proofs about the scheduler, for every number of processes, sleep bound  *)
(* and set of futexes.  IndInv is inductive; its parts are the properties  *)
(* of the scheduler and two facts that they need: ids grow (so the process *)
(* that fork creates is in no queue yet), and a process in the futex table *)
(* is still inside sys_futex (so it cannot exit from there).               *)
(***************************************************************************)
EXTENDS Scheduler, SequenceTheorems, TLAPS

-----------------------------------------------------------------------------
\* What the operators that model list_t do to the set of the elements of a list and to
\* the absence of duplicates.

\* Appending an element: what ready queues, sleeping queue and wait list do on insert.
LEMMA AppendFacts ==
    ASSUME NEW S, NEW s \in Seq(S), NEW x \in S
    PROVE  /\ Append(s, x) \in Seq(S)
           /\ ToSet(Append(s, x)) = ToSet(s) \cup {x}
           /\ IsInjective(s) /\ x \notin ToSet(s) => IsInjective(Append(s, x))
<1>1. Append(s, x) \in Seq(S)
  OBVIOUS
<1>2. ToSet(Append(s, x)) = ToSet(s) \cup {x}
  <2>1. \A i \in DOMAIN s : Append(s, x)[i] = s[i]
    OBVIOUS
  <2>2. DOMAIN Append(s, x) = DOMAIN s \cup {Len(s) + 1} /\ Append(s, x)[Len(s) + 1] = x
    OBVIOUS
  <2> QED BY <2>1, <2>2 DEF ToSet
<1>3. IsInjective(s) /\ x \notin ToSet(s) => IsInjective(Append(s, x))
  BY DEF IsInjective, ToSet
<1> QED BY <1>1, <1>2, <1>3

\* Taking the head off a duplicate-free queue.
LEMMA TailFacts ==
    ASSUME NEW S, NEW s \in Seq(S), s # <<>>
    PROVE  /\ Tail(s) \in Seq(S)
           /\ Head(s) \in S
           /\ ToSet(s) = ToSet(Tail(s)) \cup {Head(s)}
           /\ IsInjective(s) => IsInjective(Tail(s)) /\ Head(s) \notin ToSet(Tail(s))
<1>1. Tail(s) \in Seq(S) /\ Head(s) \in S /\ Len(s) > 0
  OBVIOUS
<1>2. DOMAIN Tail(s) = 1..(Len(s) - 1) /\ DOMAIN s = 1..Len(s) /\ Head(s) = s[1]
  BY <1>1
<1>3. \A i \in DOMAIN Tail(s) : Tail(s)[i] = s[i + 1]
  BY <1>1
<1>4. ToSet(s) = ToSet(Tail(s)) \cup {Head(s)}
  <2>1. \A i \in DOMAIN s : s[i] \in ToSet(Tail(s)) \cup {Head(s)}
    <3> TAKE i \in DOMAIN s
    <3>1. CASE i = 1 BY <1>2, <3>1
    <3>2. CASE i # 1
      <4>1. i - 1 \in DOMAIN Tail(s) /\ Tail(s)[i - 1] = s[i]
        BY <1>1, <1>2, <1>3, <3>2
      <4> QED BY <4>1 DEF ToSet
    <3> QED BY <3>1, <3>2
  <2>2. \A i \in DOMAIN Tail(s) : Tail(s)[i] \in ToSet(s)
    BY <1>1, <1>2, <1>3 DEF ToSet
  <2>3. Head(s) \in ToSet(s)
    BY <1>1, <1>2 DEF ToSet
  <2> QED BY <2>1, <2>2, <2>3 DEF ToSet
<1>5. IsInjective(s) => IsInjective(Tail(s)) /\ Head(s) \notin ToSet(Tail(s))
  BY <1>1, <1>2, <1>3 DEF IsInjective, ToSet
<1> QED BY <1>1, <1>4, <1>5

\* Joining two disjoint duplicate-free queues: what waking all waiters does.
LEMMA ConcatFacts ==
    ASSUME NEW S, NEW s \in Seq(S), NEW t \in Seq(S)
    PROVE  /\ s \o t \in Seq(S)
           /\ ToSet(s \o t) = ToSet(s) \cup ToSet(t)
           /\ IsInjective(s) /\ IsInjective(t) /\ ToSet(s) \cap ToSet(t) = {} =>
                  IsInjective(s \o t)
<1>1. s \o t \in Seq(S) /\ Len(s \o t) = Len(s) + Len(t)
  OBVIOUS
<1>2. \A i \in 1..(Len(s) + Len(t)) :
          (s \o t)[i] = IF i <= Len(s) THEN s[i] ELSE t[i - Len(s)]
  OBVIOUS
<1>3. Len(s) \in Nat /\ Len(t) \in Nat /\ DOMAIN s = 1..Len(s) /\ DOMAIN t = 1..Len(t)
      /\ DOMAIN (s \o t) = 1..(Len(s) + Len(t))
  BY <1>1
<1> HIDE <1>1
<1>4. ToSet(s \o t) = ToSet(s) \cup ToSet(t)
  <2>1. \A i \in DOMAIN (s \o t) : (s \o t)[i] \in ToSet(s) \cup ToSet(t)
    BY <1>2, <1>3 DEF ToSet
  <2>2. \A i \in DOMAIN s : s[i] = (s \o t)[i] /\ i \in DOMAIN (s \o t)
    BY <1>2, <1>3
  <2>3. \A i \in DOMAIN t : t[i] = (s \o t)[i + Len(s)] /\ i + Len(s) \in DOMAIN (s \o t)
    BY <1>2, <1>3
  <2>4. ToSet(s \o t) \subseteq ToSet(s) \cup ToSet(t)
    BY <2>1 DEF ToSet
  <2>5. ToSet(s) \subseteq ToSet(s \o t)
    BY <2>2 DEF ToSet
  <2>6. ToSet(t) \subseteq ToSet(s \o t)
    BY <2>3 DEF ToSet
  <2> QED BY <2>4, <2>5, <2>6
<1>5. IsInjective(s) /\ IsInjective(t) /\ ToSet(s) \cap ToSet(t) = {} => IsInjective(s \o t)
  <2> SUFFICES ASSUME IsInjective(s), IsInjective(t), ToSet(s) \cap ToSet(t) = {},
                      NEW i \in DOMAIN (s \o t), NEW j \in DOMAIN (s \o t),
                      (s \o t)[i] = (s \o t)[j]
               PROVE  i = j
    BY DEF IsInjective
  <2>1. \A k \in DOMAIN s, l \in DOMAIN t : s[k] # t[l]
    BY DEF ToSet
  <2> QED BY <1>2, <1>3, <2>1 DEF IsInjective
<1> QED BY <1>1, <1>4, <1>5

\* Deleting one entry of a duplicate-free queue: waking one sleeper, reaping one process.
LEMMA RemoveAtFacts ==
    ASSUME NEW S, NEW s \in Seq(S), NEW n \in DOMAIN s
    PROVE  /\ RemoveAt(s, n) \in Seq(S)
           /\ s[n] \in S
           /\ ToSet(s) = ToSet(RemoveAt(s, n)) \cup {s[n]}
           /\ IsInjective(s) => IsInjective(RemoveAt(s, n)) /\ s[n] \notin ToSet(RemoveAt(s, n))
<1> DEFINE r == RemoveAt(s, n)
<1>1. Len(s) \in Nat /\ n \in 1..Len(s) /\ DOMAIN s = 1..Len(s)
  OBVIOUS
<1> DEFINE a == SubSeq(s, 1, n - 1)
           b == SubSeq(s, n + 1, Len(s))
<1>a. a \in Seq(S) /\ Len(a) = n - 1 /\ \A i \in 1..(n - 1) : a[i] = s[i]
  BY <1>1
<1>b. b \in Seq(S) /\ Len(b) = Len(s) - n /\ \A i \in 1..(Len(s) - n) : b[i] = s[n + i]
  BY <1>1
<1>c. r = a \o b
  BY DEF RemoveAt
<1> HIDE DEF a, b, r
<1>2. r \in Seq(S) /\ Len(r) = Len(s) - 1 /\ DOMAIN r = 1..(Len(s) - 1)
  <2>1. a \o b \in Seq(S) /\ Len(a \o b) = Len(a) + Len(b)
    BY <1>a, <1>b, ConcatProperties
  <2>2. Len(a) + Len(b) = Len(s) - 1
    BY <1>1, <1>a, <1>b
  <2>3. r \in Seq(S) /\ Len(r) = Len(s) - 1
    BY <1>c, <2>1, <2>2
  <2> QED BY <2>3
<1>3. \A i \in 1..(Len(s) - 1) : r[i] = IF i < n THEN s[i] ELSE s[i + 1]
  <2> TAKE i \in 1..(Len(s) - 1)
  <2>1. r[i] = IF i <= Len(a) THEN a[i] ELSE b[i - Len(a)]
    BY <1>1, <1>a, <1>b, <1>c
  <2>2. CASE i < n
    BY <1>1, <1>a, <2>1, <2>2
  <2>3. CASE ~(i < n)
    <3>1. i - Len(a) \in 1..(Len(s) - n) /\ n + (i - Len(a)) = i + 1
      BY <1>1, <1>a, <2>3
    <3> QED BY <1>1, <1>a, <1>b, <2>1, <2>3, <3>1
  <2> QED BY <2>2, <2>3
<1>4. ToSet(s) = ToSet(r) \cup {s[n]}
  <2>1. \A i \in DOMAIN s : s[i] \in ToSet(r) \cup {s[n]}
    <3> TAKE i \in DOMAIN s
    <3>1. CASE i < n
      <4>1. i \in DOMAIN r /\ r[i] = s[i] BY <1>1, <1>2, <1>3, <3>1
      <4> QED BY <4>1 DEF ToSet
    <3>2. CASE i > n
      <4>1. i - 1 \in DOMAIN r /\ r[i - 1] = s[i] BY <1>1, <1>2, <1>3, <3>2
      <4> QED BY <4>1 DEF ToSet
    <3> QED BY <1>1, <3>1, <3>2
  <2>2. \A i \in DOMAIN r : r[i] \in ToSet(s)
    BY SMTT(30), <1>1, <1>2, <1>3 DEF ToSet
  <2> QED BY <2>1, <2>2 DEF ToSet
<1>5. IsInjective(s) => IsInjective(r) /\ s[n] \notin ToSet(r)
  <2> SUFFICES ASSUME IsInjective(s)
               PROVE  IsInjective(r) /\ \A i \in DOMAIN r : r[i] # s[n]
    BY DEF ToSet
  <2> DEFINE k(i) == IF i < n THEN i ELSE i + 1
  <2>1. \A i \in DOMAIN r : k(i) \in DOMAIN s /\ r[i] = s[k(i)] /\ k(i) # n
    BY <1>1, <1>2, <1>3
  <2>2. \A i, j \in DOMAIN r : k(i) = k(j) => i = j
    BY <1>1, <1>2
  <2> HIDE DEF k
  <2> QED BY <2>1, <2>2 DEF IsInjective
<1> QED BY <1>1, <1>2, <1>4, <1>5 DEF r

-----------------------------------------------------------------------------
\* The processes that schedule(sl) distributes over the CPU and the ready queue.
Taken(sl, tq) == ToSet(tq) \cup (IF sl THEN {} ELSE OnCpu)

\* schedule() moves processes only between the CPU and the ready queue.
LEMMA ScheduleFacts ==
    ASSUME NEW sl \in BOOLEAN, NEW tq \in Seq(Pid), NEW fl \in [Pid -> SUBSET Flag],
           current \in Pid \cup {Idle}, IsInjective(tq),
           current \notin ToSet(tq),
           schedule(sl, tq, fl)
    PROVE  /\ thread_queue' \in Seq(Pid)
           /\ current' \in Pid \cup {Idle}
           /\ flags' \in [Pid -> SUBSET Flag]
           /\ IsInjective(thread_queue')
           /\ current' \notin ToSet(thread_queue')
           /\ ToSet(thread_queue') \cup OnCpu' = Taken(sl, tq)
           /\ \A p \in Pid : FINISHED \in flags'[p] <=> FINISHED \in fl[p]
<1> DEFINE off == [p \in Pid |-> IF p = current THEN fl[p] \ {ON_CPU} ELSE fl[p]]
           again == ~(current = Idle \/ sl)
           q == IF again THEN Append(tq, current) ELSE tq
           fq == IF again THEN [off EXCEPT ![current] = @ \ {SLEEP}] ELSE off
<1>0. Idle \notin Pid
  BY DEF Idle, Pid
<1>1. q \in Seq(Pid) /\ IsInjective(q) /\ fq \in [Pid -> SUBSET Flag]
      /\ ToSet(q) = Taken(sl, tq)
      /\ \A p \in Pid : FINISHED \in fq[p] <=> FINISHED \in fl[p]
  <2>0. FINISHED # ON_CPU /\ FINISHED # SLEEP
    BY DEF FINISHED, ON_CPU, SLEEP
  <2>1. off \in [Pid -> SUBSET Flag]
    OBVIOUS
  <2>2. CASE again
    BY <2>0, <2>1, <2>2, AppendFacts DEF OnCpu, Taken
  <2>3. CASE ~again
    BY <2>0, <2>1, <2>3 DEF OnCpu, Taken
  <2> QED BY <2>2, <2>3
<1>2. IF q = <<>>
      THEN current' = Idle /\ thread_queue' = <<>> /\ flags' = fq
      ELSE /\ current' = Head(q)
           /\ thread_queue' = Tail(q)
           /\ flags' = [fq EXCEPT ![Head(q)] = @ \cup {ON_CPU}]
  BY DEF schedule, schedule_process
<1> HIDE DEF q, fq
<1>3. CASE q = <<>>
  <2>1. ToSet(q) = {} /\ IsInjective(q) /\ q \in Seq(Pid)
    BY <1>3 DEF ToSet, IsInjective
  <2> QED BY <1>0, <1>1, <1>2, <1>3, <2>1 DEF OnCpu
<1>4. CASE q # <<>>
  <2>1. ON_CPU \in Flag /\ FINISHED # ON_CPU
    BY DEF Flag, FINISHED, ON_CPU
  <2>2. /\ Tail(q) \in Seq(Pid) /\ Head(q) \in Pid
        /\ ToSet(q) = ToSet(Tail(q)) \cup {Head(q)}
        /\ IsInjective(Tail(q)) /\ Head(q) \notin ToSet(Tail(q))
    BY <1>1, <1>4, TailFacts
  <2>3. current' = Head(q) /\ thread_queue' = Tail(q)
        /\ flags' = [fq EXCEPT ![Head(q)] = @ \cup {ON_CPU}]
    BY <1>2, <1>4
  <2>4. /\ flags' \in [Pid -> SUBSET Flag]
        /\ \A p \in Pid : FINISHED \in flags'[p] <=> FINISHED \in fl[p]
    BY <1>1, <2>1, <2>2, <2>3
  <2>5. OnCpu' = {Head(q)}
    BY <1>0, <2>2, <2>3 DEF OnCpu
  <2> QED BY <1>1, <2>2, <2>3, <2>4, <2>5
<1> QED BY <1>3, <1>4

\* list_remove_by_index deletes the i-th entry for every i of the list, the last one
\* included, for which it deletes the tail before it starts to search.
LEMMA RemoveByIndexFacts ==
    ASSUME NEW s \in Seq(Pid), NEW i \in DOMAIN s
    PROVE  list_remove_by_index(s, i) = RemoveAt(s, i)
<1>1. Len(s) \in Nat /\ i \in 1..Len(s) /\ s # <<>>
  OBVIOUS
<1>2. CASE i = Len(s)
  <2>1. SubSeq(s, i + 1, Len(s)) = <<>>
    BY <1>1, <1>2, SubSeqEmpty
  <2>2. Front(s) \in Seq(Pid) /\ Len(Front(s)) = Len(s) - 1
    <3>1. SubSeq(s, 1, i - 1) \in Seq(Pid) /\ Len(SubSeq(s, 1, i - 1)) = i - 1
      BY <1>1
    <3> QED BY <1>2, <3>1 DEF Front
  <2>3. list_remove_by_index(s, i) = Front(s)
    BY <1>1, <1>2, <2>2 DEF list_remove_by_index
  <2>4. RemoveAt(s, i) = Front(s) \o <<>>
    BY <1>2, <2>1 DEF RemoveAt, Front
  <2> QED BY <2>2, <2>3, <2>4, ConcatEmptySeq
<1>3. CASE i # Len(s)
  BY <1>1, <1>3 DEF list_remove_by_index
<1> QED BY <1>2, <1>3

\* The state process_create_task hands over to init satisfies the invariant.
LEMMA InitInv == Init => IndInv
<1> SUFFICES ASSUME Init PROVE IndInv
  OBVIOUS
<1>1. InitProc \in Pid /\ Idle \notin Pid /\ NoProc \notin Pid /\ InitProc # Idle
  BY MaxPidAssumption DEF Pid, InitProc, Idle, NoProc
<1>2. TypeOK
  <2>1. <<>> \in Seq(Pid) /\ <<InitProc>> \in Seq(Pid)
    BY <1>1
  <2>2. 0 \in 0..MaxSleep /\ id_generator \in Pid
    BY MaxSleepAssumption, <1>1 DEF Init, InitProc
  <2> QED BY <1>1, <2>1, <2>2 DEF Init, TypeOK, Where
<1>3. /\ ToSet(thread_queue) = {} /\ ToSet(sleeping_queue) = {} /\ ToSet(waiting) = {}
      /\ IsInjective(thread_queue) /\ IsInjective(sleeping_queue) /\ IsInjective(waiting)
  BY DEF Init, ToSet, IsInjective
<1>4. Blocked = {} /\ OnCpu = {InitProc}
  BY <1>1 DEF Init, Blocked, OnCpu
<1>5. Listed = {InitProc} /\ Live = {InitProc}
  BY <1>1 DEF Init, Listed, ToSet, Live
<1>6. Placed = {InitProc}
  BY <1>3, <1>4 DEF Placed
<1>7. OnePlace
  BY <1>3, <1>4 DEF OnePlace
<1>8. NeverLost /\ NoDangling /\ Born /\ FutexOwner
  BY <1>1, <1>5, <1>6 DEF NeverLost, NoDangling, Born, FutexOwner, Init, InitProc
<1> QED BY <1>2, <1>7, <1>8 DEF IndInv

\* Facts every action uses: what InUser and the invariant say of the caller.
LEMMA CallerFacts ==
    ASSUME IndInv, InUser
    PROVE  /\ current \in Pid /\ current # Idle /\ OnCpu = {current}
           /\ current \in Live /\ FINISHED \notin flags[current]
           /\ current \notin ToSet(thread_queue) /\ current \notin ToSet(sleeping_queue)
           /\ current \notin ToSet(waiting) /\ current \notin Blocked
           /\ \A f \in Futex : futex_queue[f] # current
<1>1. current \in Pid /\ machine = "running" /\ pc[current] = "user"
  BY DEF InUser
<1>2. current # Idle /\ OnCpu = {current}
  BY <1>1 DEF OnCpu, Pid, Idle
<1>3. current \in Live
  BY <1>1, <1>2 DEF IndInv, NoDangling, Placed
<1>4. \A f \in Futex : futex_queue[f] # current
  BY <1>1 DEF IndInv, FutexOwner
<1>5. /\ current \notin ToSet(thread_queue) /\ current \notin ToSet(sleeping_queue)
      /\ current \notin ToSet(waiting) /\ current \notin Blocked
  BY <1>2 DEF IndInv, OnePlace
<1> QED BY <1>1, <1>2, <1>3, <1>4, <1>5 DEF Live

\* A step that ends in schedule(sl): if the ready queue tq it enters with, the process
\* it takes along, and the new sleeping queue, wait list and blocked set do not
\* overlap, then every process is in one place afterwards.
LEMMA SwitchFacts ==
    ASSUME NEW sl \in BOOLEAN, NEW tq \in Seq(Pid), NEW fl \in [Pid -> SUBSET Flag],
           current \in Pid \cup {Idle}, IsInjective(tq), OnCpu \cap ToSet(tq) = {},
           schedule(sl, tq, fl),
           IsInjective(sleeping_queue)', IsInjective(waiting)',
           Taken(sl, tq) \cap ToSet(sleeping_queue') = {}, Taken(sl, tq) \cap ToSet(waiting') = {},
           Taken(sl, tq) \cap Blocked' = {}, ToSet(sleeping_queue') \cap ToSet(waiting') = {},
           ToSet(sleeping_queue') \cap Blocked' = {}, ToSet(waiting') \cap Blocked' = {}
    PROVE  /\ thread_queue' \in Seq(Pid)
           /\ current' \in Pid \cup {Idle}
           /\ flags' \in [Pid -> SUBSET Flag]
           /\ OnePlace'
           /\ Placed' = Taken(sl, tq) \cup ToSet(sleeping_queue') \cup ToSet(waiting') \cup Blocked'
           /\ \A p \in Pid : FINISHED \in flags'[p] <=> FINISHED \in fl[p]
<1>1. current \notin ToSet(tq)
  <2>1. ToSet(tq) \subseteq Pid
    BY DEF ToSet
  <2>2. Idle \notin Pid
    BY DEF Idle, Pid
  <2> QED BY <2>1, <2>2 DEF OnCpu
<1>2. /\ thread_queue' \in Seq(Pid) /\ current' \in Pid \cup {Idle}
      /\ flags' \in [Pid -> SUBSET Flag] /\ IsInjective(thread_queue')
      /\ current' \notin ToSet(thread_queue')
      /\ ToSet(thread_queue') \cup OnCpu' = Taken(sl, tq)
      /\ \A p \in Pid : FINISHED \in flags'[p] <=> FINISHED \in fl[p]
  BY <1>1, ScheduleFacts
<1>3. OnCpu' \cap ToSet(thread_queue') = {}
  BY <1>2 DEF OnCpu
<1>4. OnePlace'
  BY <1>2, <1>3 DEF OnePlace
<1>5. Placed' = Taken(sl, tq) \cup ToSet(sleeping_queue') \cup ToSet(waiting') \cup Blocked'
  BY <1>2 DEF Placed
<1> QED BY <1>2, <1>4, <1>5

\* A step that creates and deletes no process and finishes none.
LEMMA SameLives ==
    ASSUME IndInv, UNCHANGED lifeVars,
           \A p \in Pid : FINISHED \in flags'[p] <=> FINISHED \in flags[p]
    PROVE  /\ Listed' = Listed /\ Live' = Live
           /\ Placed' = Placed => NeverLost' /\ Born'
           /\ Placed' = Placed /\ machine' = machine /\ futex_queue' = futex_queue => NoDangling'
<1>1. Listed' = Listed
  BY DEF Listed, lifeVars
<1>2. Listed \subseteq Pid
  BY DEF IndInv, TypeOK, Listed, ToSet
<1>3. Live' = Live
  BY <1>1, <1>2 DEF Live
<1> QED BY <1>1, <1>3 DEF IndInv, NeverLost, NoDangling, Born, lifeVars

\* A step that only lets schedule(false) choose the next process.
LEMMA RescheduleInv ==
    ASSUME IndInv, machine = "running",
           schedule(FALSE, thread_queue, flags),
           pc' \in [Pid -> Where], Blocked' = Blocked,
           \A p \in Pid : pc[p] = "futex" \/ pc[p] = "spin" => pc'[p] \in {"futex", "spin"},
           ticksLeft' \in [Pid -> 0..MaxSleep], sleep_lock' \in BOOLEAN,
           UNCHANGED <<sleeping_queue, waiting, lifeVars, futex_queue, machine>>
    PROVE  IndInv'
<1>1. /\ thread_queue' \in Seq(Pid) /\ current' \in Pid \cup {Idle}
      /\ flags' \in [Pid -> SUBSET Flag] /\ OnePlace'
      /\ Placed' = Taken(FALSE, thread_queue) \cup ToSet(sleeping_queue') \cup ToSet(waiting') \cup Blocked'
      /\ \A p \in Pid : FINISHED \in flags'[p] <=> FINISHED \in flags[p]
  <2>2. /\ thread_queue \in Seq(Pid) /\ flags \in [Pid -> SUBSET Flag]
        /\ current \in Pid \cup {Idle}
    BY DEF IndInv, TypeOK
  <2>3. /\ IsInjective(thread_queue) /\ IsInjective(sleeping_queue)' /\ IsInjective(waiting)'
        /\ OnCpu \cap ToSet(thread_queue) = {}
    BY DEF IndInv, OnePlace
  <2>4. /\ Taken(FALSE, thread_queue) \cap ToSet(sleeping_queue') = {} /\ Taken(FALSE, thread_queue) \cap ToSet(waiting') = {}
        /\ Taken(FALSE, thread_queue) \cap Blocked' = {} /\ ToSet(sleeping_queue') \cap ToSet(waiting') = {}
        /\ ToSet(sleeping_queue') \cap Blocked' = {} /\ ToSet(waiting') \cap Blocked' = {}
    BY DEF IndInv, OnePlace, Taken
  <2> QED BY <2>2, <2>3, <2>4, SwitchFacts
<1>2. TypeOK'
  BY <1>1 DEF IndInv, TypeOK, lifeVars
<1>3. Placed' = Placed
  BY <1>1 DEF Placed, Taken
<1>4. NeverLost' /\ NoDangling' /\ Born'
  BY <1>1, <1>3, SameLives
<1>5. FutexOwner'
  BY DEF IndInv, FutexOwner
<1> QED BY <1>1, <1>2, <1>4, <1>5 DEF IndInv

\* A tick keeps every sleep time within its bound.
LEMMA ElapsedType == TypeOK => Elapsed \in [Pid -> 0..MaxSleep]
<1> SUFFICES ASSUME TypeOK, NEW p \in Pid
             PROVE  (IF ticksLeft[p] = 0 THEN 0 ELSE ticksLeft[p] - 1) \in 0..MaxSleep
  BY DEF Elapsed
<1>1. ticksLeft[p] \in 0..MaxSleep
  BY DEF TypeOK
<1> QED BY <1>1, MaxSleepAssumption

\* The caller of spin_lock joins the spinning processes.
LEMMA SpinInv ==
    ASSUME IndInv, machine = "running", current \in Pid, pc[current] \in {"user", "spin"},
           spin_lock(flags), ticksLeft' \in [Pid -> 0..MaxSleep],
           UNCHANGED <<sleeping_queue, waiting, sleep_lock, lifeVars, futex_queue, machine>>
    PROVE  IndInv'
<1>1. pc \in [Pid -> Where] /\ pc' = [pc EXCEPT ![current] = "spin"]
      /\ schedule(FALSE, thread_queue, flags)
  BY DEF spin_lock, IndInv, TypeOK
<1>2. pc' \in [Pid -> Where] /\ Blocked' = Blocked
  BY <1>1 DEF Where, Blocked
<1>3. sleep_lock' \in BOOLEAN
  BY DEF IndInv, TypeOK
<1>4. \A p \in Pid : pc[p] = "futex" \/ pc[p] = "spin" => pc'[p] \in {"futex", "spin"}
  BY <1>1
<1> QED BY <1>1, <1>2, <1>3, <1>4, RescheduleInv

\* Spinning, yielding and the idle loop only call schedule(false).
LEMMA YieldInv == ASSUME IndInv, Spin \/ sys_yield \/ idle PROVE IndInv'
<1>0. ticksLeft \in [Pid -> 0..MaxSleep] /\ pc \in [Pid -> Where] /\ sleep_lock \in BOOLEAN
  BY DEF IndInv, TypeOK
<1>1. CASE Spin
  BY <1>0, <1>1, SpinInv DEF Spin
<1>2. CASE sys_yield \/ idle
  <2>1. /\ machine = "running" /\ schedule(FALSE, thread_queue, flags)
        /\ UNCHANGED <<sleeping_queue, waiting, lifeVars, futex_queue, machine>>
        /\ UNCHANGED <<ticksLeft, sleep_lock, pc>>
    BY <1>2 DEF sys_yield, idle, InUser
  <2>2. Blocked' = Blocked
    BY <2>1 DEF Blocked
  <2> QED BY <1>0, <2>1, <2>2, RescheduleInv
<1> QED BY <1>1, <1>2

\* The invariant says nothing of ticksLeft and machine but their types, and asks
\* less of a machine that has stopped.
LEMMA FrameInv ==
    ASSUME IndInv, ticksLeft' \in [Pid -> 0..MaxSleep],
           machine' = machine \/ machine' \in {"panicked", "faulted"},
           UNCHANGED <<current, thread_queue, sleeping_queue, waiting, sleep_lock, flags,
                       pc, lifeVars, futex_queue>>
    PROVE  IndInv'
<1>1. TypeOK'
  BY DEF IndInv, TypeOK, lifeVars
<1>2. OnCpu' = OnCpu /\ Blocked' = Blocked /\ Listed' = Listed /\ Live' = Live
  BY DEF OnCpu, Blocked, Listed, Live, lifeVars
<1>3. OnePlace' /\ Placed' = Placed
  BY <1>2 DEF IndInv, OnePlace, Placed
<1>4. NeverLost' /\ NoDangling' /\ Born' /\ FutexOwner'
  BY <1>2, <1>3 DEF IndInv, NeverLost, NoDangling, Born, FutexOwner, lifeVars
<1> QED BY <1>1, <1>3, <1>4 DEF IndInv

\* wakeup_sleeping moves the first expired sleeper to the ready queue.
LEMMA TickInv == ASSUME IndInv, TickInUser PROVE IndInv'
<1>0. /\ InUser /\ machine = "running" /\ current \in Pid /\ pc[current] = "user"
      /\ ticksLeft' \in [Pid -> 0..MaxSleep] /\ pc \in [Pid -> Where]
      /\ sleep_lock \in BOOLEAN
      /\ UNCHANGED <<waiting, sleep_lock, lifeVars, futex_queue, machine>>
  BY ElapsedType DEF TickInUser, InUser, IndInv, TypeOK
<1>1. CASE spin_lock(flags) /\ UNCHANGED sleeping_queue
  BY <1>0, <1>1, SpinInv
<1>2. CASE /\ schedule(FALSE, thread_queue, flags)
           /\ UNCHANGED <<sleeping_queue, pc>>
  <2>1. Blocked' = Blocked
    BY <1>2 DEF Blocked
  <2> QED BY <1>0, <1>2, <2>1, RescheduleInv
<1>3. ASSUME NEW i \in DOMAIN sleeping_queue,
             sleeping_queue' = RemoveAt(sleeping_queue, i),
             LET woken == schedule_process(thread_queue, flags, sleeping_queue[i])
             IN  schedule(FALSE, woken[1], woken[2]),
             UNCHANGED pc
      PROVE  IndInv'
  <2> DEFINE x == sleeping_queue[i]
             tq == Append(thread_queue, x)
             fl == [flags EXCEPT ![x] = @ \ {SLEEP}]
  <2>1. /\ x \in Pid /\ sleeping_queue' \in Seq(Pid) /\ IsInjective(sleeping_queue')
        /\ ToSet(sleeping_queue) = ToSet(sleeping_queue') \cup {x}
        /\ x \notin ToSet(sleeping_queue')
    BY SMTT(30), <1>3, RemoveAtFacts DEF IndInv, TypeOK, OnePlace
  <2>2. schedule(FALSE, tq, fl)
    BY <1>3 DEF schedule_process
  <2>3. /\ tq \in Seq(Pid) /\ ToSet(tq) = ToSet(thread_queue) \cup {x} /\ IsInjective(tq)
    BY <2>1, AppendFacts DEF IndInv, TypeOK, OnePlace
  <2>4. fl \in [Pid -> SUBSET Flag] /\ \A p \in Pid : FINISHED \in fl[p] <=> FINISHED \in flags[p]
    <3>1. FINISHED # SLEEP
      BY DEF FINISHED, SLEEP
    <3> QED BY <2>1, <3>1 DEF IndInv, TypeOK
  <2> HIDE DEF x, tq, fl
  <2>5. Blocked' = Blocked /\ waiting' = waiting
    BY <1>0, <1>3 DEF Blocked
  <2>6. /\ thread_queue' \in Seq(Pid) /\ current' \in Pid \cup {Idle}
        /\ flags' \in [Pid -> SUBSET Flag] /\ OnePlace'
        /\ Placed' = Taken(FALSE, tq) \cup ToSet(sleeping_queue') \cup ToSet(waiting')
                        \cup Blocked'
        /\ \A p \in Pid : FINISHED \in flags'[p] <=> FINISHED \in fl[p]
    <3>1. /\ IsInjective(waiting)' /\ IsInjective(sleeping_queue)'
          /\ OnCpu \cap ToSet(tq) = {} /\ current \in Pid \cup {Idle}
      BY <1>0, <2>1, <2>3, <2>5 DEF IndInv, OnePlace
    <3>2. /\ Taken(FALSE, tq) \cap ToSet(sleeping_queue') = {}
          /\ Taken(FALSE, tq) \cap ToSet(waiting') = {}
          /\ Taken(FALSE, tq) \cap Blocked' = {}
          /\ ToSet(sleeping_queue') \cap ToSet(waiting') = {}
          /\ ToSet(sleeping_queue') \cap Blocked' = {} /\ ToSet(waiting') \cap Blocked' = {}
      BY <2>1, <2>3, <2>5 DEF IndInv, OnePlace, Taken
    <3> QED BY <2>2, <2>3, <2>4, <3>1, <3>2, SwitchFacts
  <2>7. TypeOK'
    BY <1>0, <1>3, <2>1, <2>6 DEF IndInv, TypeOK, lifeVars
  <2>8. Placed' = Placed
    BY <2>1, <2>3, <2>5, <2>6 DEF Placed, Taken
  <2>9. NeverLost' /\ NoDangling' /\ Born'
    BY <1>0, <2>4, <2>6, <2>8, SameLives
  <2>10. FutexOwner'
    BY <1>0, <1>3 DEF IndInv, FutexOwner
  <2> QED BY <2>6, <2>7, <2>9, <2>10 DEF IndInv
<1> QED BY <1>0, <1>1, <1>2, <1>3 DEF TickInUser, wakeup_sleeping

\* The caller leaves the CPU with schedule(true), for the sleeping queue, the wait list
\* or sys_wait4.
LEMMA BlockInv ==
    ASSUME IndInv, InUser, NEW fl \in [Pid -> SUBSET Flag],
           \A p \in Pid : FINISHED \in fl[p] <=> FINISHED \in flags[p],
           schedule(TRUE, thread_queue, fl),
           NEW cont \in Where, pc' = [pc EXCEPT ![current] = cont],
           \/ /\ cont # "wait4" /\ waiting' = waiting
              /\ sleeping_queue' = Append(sleeping_queue, current)
           \/ /\ cont # "wait4" /\ sleeping_queue' = sleeping_queue
              /\ waiting' = Append(waiting, current)
           \/ cont = "wait4" /\ UNCHANGED <<sleeping_queue, waiting>>,
           ticksLeft' \in [Pid -> 0..MaxSleep],
           futex_queue' \in [Futex -> Pid \cup {NoProc}],
           \A f \in Futex : futex_queue'[f] # futex_queue[f] =>
               futex_queue'[f] = current /\ cont = "futex",
           UNCHANGED <<sleep_lock, lifeVars, machine>>
    PROVE  IndInv'
<1>1. /\ current \in Pid /\ OnCpu = {current} /\ current \in Live
      /\ current \notin ToSet(thread_queue) /\ current \notin ToSet(sleeping_queue)
      /\ current \notin ToSet(waiting) /\ current \notin Blocked
      /\ \A f \in Futex : futex_queue[f] # current
  BY CallerFacts
<1>2. pc' \in [Pid -> Where] /\ Blocked' = IF cont = "wait4" THEN Blocked \cup {current} ELSE Blocked
  BY <1>1 DEF IndInv, TypeOK, Blocked
<1>3. /\ sleeping_queue' \in Seq(Pid) /\ waiting' \in Seq(Pid)
      /\ IsInjective(sleeping_queue)' /\ IsInjective(waiting)'
      /\ \/ /\ ToSet(sleeping_queue') = ToSet(sleeping_queue) \cup {current}
            /\ ToSet(waiting') = ToSet(waiting) /\ Blocked' = Blocked
         \/ /\ ToSet(waiting') = ToSet(waiting) \cup {current}
            /\ ToSet(sleeping_queue') = ToSet(sleeping_queue) /\ Blocked' = Blocked
         \/ /\ ToSet(sleeping_queue') = ToSet(sleeping_queue)
            /\ ToSet(waiting') = ToSet(waiting) /\ Blocked' = Blocked \cup {current}
  <2>1. /\ sleeping_queue \in Seq(Pid) /\ waiting \in Seq(Pid)
        /\ IsInjective(sleeping_queue) /\ IsInjective(waiting)
    BY DEF IndInv, TypeOK, OnePlace
  <2>2. CASE /\ cont # "wait4" /\ waiting' = waiting
             /\ sleeping_queue' = Append(sleeping_queue, current)
    BY <1>1, <1>2, <2>1, <2>2, AppendFacts
  <2>3. CASE /\ cont # "wait4" /\ sleeping_queue' = sleeping_queue
             /\ waiting' = Append(waiting, current)
    BY <1>1, <1>2, <2>1, <2>3, AppendFacts
  <2>4. CASE cont = "wait4" /\ UNCHANGED <<sleeping_queue, waiting>>
    BY <1>2, <2>1, <2>4
  <2> QED BY <2>2, <2>3, <2>4
<1>4. /\ thread_queue' \in Seq(Pid) /\ current' \in Pid \cup {Idle}
      /\ flags' \in [Pid -> SUBSET Flag] /\ OnePlace'
      /\ Placed' = Taken(TRUE, thread_queue) \cup ToSet(sleeping_queue') \cup ToSet(waiting')
                      \cup Blocked'
      /\ \A p \in Pid : FINISHED \in flags'[p] <=> FINISHED \in fl[p]
  <2>1. /\ thread_queue \in Seq(Pid) /\ IsInjective(thread_queue)
        /\ OnCpu \cap ToSet(thread_queue) = {} /\ current \in Pid \cup {Idle}
    BY <1>1 DEF IndInv, TypeOK, OnePlace
  <2>2. /\ Taken(TRUE, thread_queue) \cap ToSet(sleeping_queue') = {}
        /\ Taken(TRUE, thread_queue) \cap ToSet(waiting') = {}
        /\ Taken(TRUE, thread_queue) \cap Blocked' = {}
        /\ ToSet(sleeping_queue') \cap ToSet(waiting') = {}
        /\ ToSet(sleeping_queue') \cap Blocked' = {} /\ ToSet(waiting') \cap Blocked' = {}
    BY <1>1, <1>3 DEF IndInv, OnePlace, Taken
  <2> QED BY <1>3, <2>1, <2>2, SwitchFacts
<1>5. TypeOK'
  BY <1>2, <1>3, <1>4 DEF IndInv, TypeOK, lifeVars
<1>6. Placed' = Placed
  BY <1>1, <1>3, <1>4 DEF Placed, Taken
<1>7. NeverLost' /\ Born' /\ Live' = Live
  BY <1>4, <1>6, SameLives
<1>8. NoDangling'
  BY <1>1, <1>6, <1>7 DEF IndInv, NoDangling
<1>9. FutexOwner'
  BY <1>1, <1>2 DEF IndInv, FutexOwner, TypeOK
<1> QED BY <1>4, <1>5, <1>7, <1>8, <1>9 DEF IndInv

\* sleep(): either the lock is free and the caller joins the sleeping queue, or it spins.
LEMMA SleepInv ==
    ASSUME IndInv, InUser, NEW t \in 1..MaxSleep, NEW cont \in {"user", "futex"},
           sleep(t, cont),
           futex_queue' \in [Futex -> Pid \cup {NoProc}],
           \A f \in Futex : futex_queue'[f] # futex_queue[f] =>
               futex_queue'[f] = current /\ cont = "futex",
           UNCHANGED <<waiting, sleep_lock, lifeVars, machine>>
    PROVE  IndInv'
<1> DEFINE fl == [flags EXCEPT ![current] = (@ \cup {SLEEP}) \ {ON_CPU}]
<1>1. current \in Pid /\ current \in Live /\ pc[current] = "user"
  BY CallerFacts DEF InUser
<1>2. fl \in [Pid -> SUBSET Flag] /\ \A p \in Pid : FINISHED \in fl[p] <=> FINISHED \in flags[p]
  <2>1. FINISHED # SLEEP /\ FINISHED # ON_CPU /\ SLEEP \in Flag
    BY DEF FINISHED, SLEEP, ON_CPU, Flag
  <2> QED BY <1>1, <2>1 DEF IndInv, TypeOK
<1>3. ticksLeft' \in [Pid -> 0..MaxSleep]
  <2>1. t \in 0..MaxSleep
    BY MaxSleepAssumption
  <2> QED BY <1>1, <2>1 DEF sleep, IndInv, TypeOK
<1>4. CASE /\ sleeping_queue' = Append(sleeping_queue, current)
           /\ pc' = [pc EXCEPT ![current] = cont]
           /\ schedule(TRUE, thread_queue, fl)
  <2>1. cont \in Where /\ cont # "wait4"
    BY DEF Where
  <2> HIDE DEF fl
  <2> QED BY <1>2, <1>3, <1>4, <2>1, BlockInv
<1>5. CASE spin_lock(fl) /\ UNCHANGED sleeping_queue
  <2> HIDE DEF fl
  <2>1. pc' = [pc EXCEPT ![current] = "spin"] /\ schedule(FALSE, thread_queue, fl)
    BY <1>5 DEF spin_lock
  <2>2. pc' \in [Pid -> Where] /\ Blocked' = Blocked
    BY <1>1, <2>1 DEF IndInv, TypeOK, Where, Blocked
  <2>3. /\ thread_queue \in Seq(Pid) /\ IsInjective(thread_queue)
        /\ OnCpu \cap ToSet(thread_queue) = {} /\ current \in Pid \cup {Idle}
        /\ IsInjective(sleeping_queue)' /\ IsInjective(waiting)'
    BY <1>1, <1>5 DEF IndInv, TypeOK, OnePlace
  <2>4. /\ Taken(FALSE, thread_queue) \cap ToSet(sleeping_queue') = {}
        /\ Taken(FALSE, thread_queue) \cap ToSet(waiting') = {}
        /\ Taken(FALSE, thread_queue) \cap Blocked' = {}
        /\ ToSet(sleeping_queue') \cap ToSet(waiting') = {}
        /\ ToSet(sleeping_queue') \cap Blocked' = {} /\ ToSet(waiting') \cap Blocked' = {}
    BY <1>5, <2>2 DEF IndInv, OnePlace, Taken
  <2>5. /\ thread_queue' \in Seq(Pid) /\ current' \in Pid \cup {Idle}
        /\ flags' \in [Pid -> SUBSET Flag] /\ OnePlace'
        /\ Placed' = Taken(FALSE, thread_queue) \cup ToSet(sleeping_queue')
                        \cup ToSet(waiting') \cup Blocked'
        /\ \A p \in Pid : FINISHED \in flags'[p] <=> FINISHED \in fl[p]
    BY <1>2, <2>1, <2>3, <2>4, SwitchFacts
  <2>6. TypeOK'
    BY <1>3, <1>5, <2>2, <2>5 DEF IndInv, TypeOK, lifeVars
  <2>7. Placed' = Placed
    BY <1>5, <2>2, <2>5 DEF Placed, Taken
  <2>8. NeverLost' /\ Born' /\ Live' = Live
    BY <1>2, <2>5, <2>7, SameLives
  <2>9. NoDangling'
    BY <1>1, <2>7, <2>8 DEF IndInv, NoDangling
  <2>10. FutexOwner'
    BY <1>1, <2>1 DEF IndInv, FutexOwner, TypeOK
  <2> QED BY <2>5, <2>6, <2>8, <2>9, <2>10 DEF IndInv
<1> QED BY <1>4, <1>5 DEF sleep

\* sys_nanosleep is a sleep() that returns to user mode.
LEMMA NanosleepInv == ASSUME IndInv, sys_nanosleep PROVE IndInv'
<1>1. PICK t \in 1..MaxSleep : sleep(t, "user")
  BY DEF sys_nanosleep
<1>2. InUser /\ futex_queue' = futex_queue /\ futex_queue \in [Futex -> Pid \cup {NoProc}]
  BY DEF sys_nanosleep, IndInv, TypeOK
<1>3. UNCHANGED <<waiting, sleep_lock, lifeVars, machine>>
  BY DEF sys_nanosleep
<1>4. /\ futex_queue' \in [Futex -> Pid \cup {NoProc}]
      /\ \A f \in Futex : futex_queue'[f] # futex_queue[f] =>
               futex_queue'[f] = current /\ "user" = "futex"
  BY <1>2
<1>5. InUser /\ "user" \in {"user", "futex"}
  BY <1>2
<1> QED BY <1>1, <1>3, <1>4, <1>5, SleepInv

\* FUTEX_WAIT stores its caller in the table and sleeps; FUTEX_WAKE only takes the lock.
LEMMA FutexInv ==
    ASSUME IndInv, NEW f \in Futex, FutexWait(f) \/ FutexWake(f)
    PROVE  IndInv'
<1>0. /\ futex_queue \in [Futex -> Pid \cup {NoProc}] /\ ticksLeft \in [Pid -> 0..MaxSleep]
      /\ pc \in [Pid -> Where]
  BY DEF IndInv, TypeOK
<1>1. CASE FutexWait(f)
  <2>1. PICK t \in 1..MaxSleep : sleep(t, "futex")
    BY <1>1 DEF FutexWait
  <2>2. InUser /\ futex_queue' = [futex_queue EXCEPT ![f] = current]
        /\ UNCHANGED <<waiting, sleep_lock, lifeVars, machine>>
    BY <1>1 DEF FutexWait
  <2>3. /\ futex_queue' \in [Futex -> Pid \cup {NoProc}]
        /\ \A g \in Futex : futex_queue'[g] = futex_queue[g] \/ futex_queue'[g] = current
    BY <1>0, <2>2 DEF InUser
  <2> QED BY <2>1, <2>2, <2>3, SleepInv
<1>2. CASE FutexWake(f)
  <2>1. /\ InUser /\ machine = "running" /\ current \in Pid /\ pc[current] = "user"
        /\ UNCHANGED <<sleeping_queue, waiting, ticksLeft, lifeVars, futex_queue, machine>>
    BY <1>2 DEF FutexWake, InUser
  <2>2. CASE spin_lock(flags) /\ UNCHANGED sleep_lock
    BY <1>0, <2>1, <2>2, SpinInv
  <2>3. CASE sleep_lock' = TRUE /\ UNCHANGED <<current, thread_queue, flags, pc>>
    <3>1. TypeOK'
      BY <2>1, <2>3 DEF IndInv, TypeOK, lifeVars
    <3>2. OnCpu' = OnCpu /\ Blocked' = Blocked /\ Listed' = Listed /\ Live' = Live
      BY <2>1, <2>3 DEF OnCpu, Blocked, Listed, Live, lifeVars
    <3>3. OnePlace' /\ Placed' = Placed
      BY <2>1, <2>3, <3>2 DEF IndInv, OnePlace, Placed
    <3>4. NeverLost' /\ NoDangling' /\ Born' /\ FutexOwner'
      BY <2>1, <2>3, <3>2, <3>3
         DEF IndInv, NeverLost, NoDangling, Born, FutexOwner, lifeVars
    <3> QED BY <3>1, <3>3, <3>4 DEF IndInv
  <2> QED BY <1>2, <2>2, <2>3 DEF FutexWake, wakeup_now
<1> QED BY <1>1, <1>2

\* After its sleep FUTEX_WAIT takes itself out of the table again.
LEMMA FutexReturnInv == ASSUME IndInv, FutexWaitReturn PROVE IndInv'
<1>0. futex_queue \in [Futex -> Pid \cup {NoProc}] /\ pc \in [Pid -> Where]
  BY DEF IndInv, TypeOK
<1>1. /\ current \in Pid /\ pc[current] = "futex"
      /\ pc' = [pc EXCEPT ![current] = "user"]
      /\ futex_queue' = [g \in Futex |-> IF futex_queue[g] = current THEN NoProc
                                         ELSE futex_queue[g]]
      /\ UNCHANGED <<current, thread_queue, sleeping_queue, waiting, ticksLeft,
                     sleep_lock, flags, lifeVars, machine>>
  BY DEF FutexWaitReturn
<1>2. pc' \in [Pid -> Where] /\ Blocked' = Blocked
  BY <1>0, <1>1 DEF Where, Blocked
<1>3. futex_queue' \in [Futex -> Pid \cup {NoProc}]
  BY <1>0, <1>1
<1>4. TypeOK'
  BY <1>1, <1>2, <1>3 DEF IndInv, TypeOK, lifeVars
<1>5. OnCpu' = OnCpu /\ Listed' = Listed /\ Live' = Live
  BY <1>1 DEF OnCpu, Listed, Live, lifeVars
<1>6. OnePlace' /\ Placed' = Placed
  BY <1>1, <1>2, <1>5 DEF IndInv, OnePlace, Placed
<1>7. NeverLost' /\ NoDangling' /\ Born'
  BY <1>1, <1>5, <1>6 DEF IndInv, NeverLost, NoDangling, Born, lifeVars
<1>8. FutexOwner'
  <2>1. NoProc \notin Pid
    BY DEF NoProc, Pid
  <2> QED BY <1>0, <1>1, <2>1 DEF IndInv, FutexOwner
<1> QED BY <1>4, <1>6, <1>7, <1>8 DEF IndInv

\* A terminal reader moves to the wait list, and the keyboard moves all of them back.
LEMMA WaitInv == ASSUME IndInv, wait_for_object \/ wakeup_waiting PROVE IndInv'
<1>1. CASE wait_for_object
  <2> DEFINE fl == [flags EXCEPT ![current] = @ \cup {SLEEP}]
  <2>1. InUser /\ current \in Pid /\ pc[current] = "user"
    BY <1>1 DEF wait_for_object, InUser
  <2>2. fl \in [Pid -> SUBSET Flag] /\ \A p \in Pid : FINISHED \in fl[p] <=> FINISHED \in flags[p]
    <3>1. FINISHED # SLEEP /\ SLEEP \in Flag
      BY DEF FINISHED, SLEEP, Flag
    <3> QED BY <2>1, <3>1 DEF IndInv, TypeOK
  <2>3. schedule(TRUE, thread_queue, fl) /\ waiting' = Append(waiting, current)
        /\ UNCHANGED <<sleeping_queue, ticksLeft, sleep_lock, pc, lifeVars, futex_queue, machine>>
    BY <1>1 DEF wait_for_object
  <2>4. pc' = [pc EXCEPT ![current] = "user"] /\ "user" \in Where
        /\ ticksLeft' \in [Pid -> 0..MaxSleep] /\ futex_queue' \in [Futex -> Pid \cup {NoProc}]
    BY <2>1, <2>3 DEF IndInv, TypeOK, Where
  <2> HIDE DEF fl
  <2>5. /\ "user" # "wait4" /\ sleeping_queue' = sleeping_queue
        /\ waiting' = Append(waiting, current)
        /\ UNCHANGED <<sleep_lock, lifeVars, machine>>
        /\ \A f \in Futex : futex_queue'[f] # futex_queue[f] =>
               futex_queue'[f] = current /\ "user" = "futex"
    BY <2>3
  <2>6. schedule(TRUE, thread_queue, fl)
    BY <2>3
  <2> QED BY <2>1, <2>2, <2>4, <2>5, <2>6, BlockInv
<1>2. CASE wakeup_waiting
  <2>1. /\ thread_queue' = thread_queue \o waiting /\ waiting' = <<>>
        /\ flags' = [p \in Pid |-> IF p \in ToSet(waiting) THEN flags[p] \ {SLEEP} ELSE flags[p]]
        /\ UNCHANGED <<current, sleeping_queue, ticksLeft, sleep_lock, pc, lifeVars,
                       futex_queue, machine>>
    BY <1>2 DEF wakeup_waiting
  <2>2. /\ thread_queue' \in Seq(Pid) /\ IsInjective(thread_queue')
        /\ ToSet(thread_queue') = ToSet(thread_queue) \cup ToSet(waiting)
    BY <2>1, ConcatFacts DEF IndInv, TypeOK, OnePlace
  <2>3. waiting' \in Seq(Pid) /\ IsInjective(waiting') /\ ToSet(waiting') = {}
    BY <2>1 DEF IsInjective, ToSet
  <2>4. /\ flags' \in [Pid -> SUBSET Flag]
        /\ \A p \in Pid : FINISHED \in flags'[p] <=> FINISHED \in flags[p]
    <3>1. FINISHED # SLEEP
      BY DEF FINISHED, SLEEP
    <3> QED BY <2>1, <3>1 DEF IndInv, TypeOK
  <2>5. TypeOK'
    BY <2>1, <2>2, <2>3, <2>4 DEF IndInv, TypeOK, lifeVars
  <2>6. OnCpu' = OnCpu /\ Blocked' = Blocked
    BY <2>1 DEF OnCpu, Blocked
  <2>7. OnePlace' /\ Placed' = Placed
    BY <2>1, <2>2, <2>3, <2>6 DEF IndInv, OnePlace, Placed
  <2>8. NeverLost' /\ NoDangling' /\ Born'
    BY <2>1, <2>4, <2>7, SameLives
  <2>9. FutexOwner'
    BY <2>1 DEF IndInv, FutexOwner
  <2> QED BY <2>5, <2>7, <2>8, <2>9 DEF IndInv
<1> QED BY <1>1, <1>2

\* The new process has an id above all others, so it was nowhere before.
LEMMA ForkInv == ASSUME IndInv, process_fork PROVE IndInv'
<1> DEFINE child == id_generator + 1
           node == IF InTree(current) THEN current ELSE InitProc
<1>1. /\ InUser /\ id_generator < MaxPid /\ id_generator' = child
      /\ flags' = [flags EXCEPT ![child] = flags[current] \ {ON_CPU}]
      /\ process_list' = Append(process_list, child)
      /\ thread_queue' = Append(thread_queue, child)
      /\ children' = [children EXCEPT ![node] = Append(@, child)]
      /\ UNCHANGED <<current, sleeping_queue, waiting, ticksLeft, sleep_lock, pc,
                     futex_queue, machine>>
  BY DEF process_fork
<1>2. child \in Pid /\ child \notin 1..id_generator /\ InitProc \in Pid
      /\ 1..id_generator \cup {child} = 1..child
  <2>1. id_generator \in 1..MaxPid
    BY DEF IndInv, TypeOK, Pid
  <2>2. child \in Pid /\ InitProc \in Pid
    BY <1>1, <2>1, MaxPidAssumption DEF Pid, InitProc
  <2>3. child \notin 1..id_generator /\ 1..id_generator \cup {child} = 1..child
    BY <2>1, MaxPidAssumption
  <2> QED BY <2>2, <2>3
<1>3. child \notin Placed /\ child \notin Listed
  BY <1>2 DEF IndInv, Born
<1>4. current \in Pid /\ current \in Live /\ FINISHED \notin flags[current]
  BY <1>1, CallerFacts
<1>5. node \in Pid
  BY <1>2, <1>4
<1> HIDE DEF child, node
<1>6. /\ thread_queue' \in Seq(Pid) /\ IsInjective(thread_queue')
      /\ ToSet(thread_queue') = ToSet(thread_queue) \cup {child}
  BY <1>1, <1>2, <1>3, AppendFacts DEF IndInv, TypeOK, OnePlace, Placed
<1>7. process_list' \in Seq(Pid) /\ Listed' = Listed \cup {child}
  BY <1>1, <1>2, AppendFacts DEF IndInv, TypeOK, Listed
<1>8. flags' \in [Pid -> SUBSET Flag] /\ FINISHED \notin flags'[child]
      /\ \A p \in Pid \ {child} : flags'[p] = flags[p]
  BY <1>1, <1>2, <1>4 DEF IndInv, TypeOK
<1>9. children' \in [Pid -> Seq(Pid)]
  <2>1. children \in [Pid -> Seq(Pid)]
    BY DEF IndInv, TypeOK
  <2>2. Append(children[node], child) \in Seq(Pid)
    BY <1>2, <1>5, <2>1, AppendFacts
  <2> QED BY <1>1, <2>1, <2>2
<1>10. TypeOK'
  BY <1>1, <1>2, <1>6, <1>7, <1>8, <1>9 DEF IndInv, TypeOK
<1>11. OnCpu' = OnCpu /\ Blocked' = Blocked
  BY <1>1 DEF OnCpu, Blocked
<1>12. OnePlace' /\ Placed' = Placed \cup {child}
  BY <1>1, <1>3, <1>6, <1>11 DEF IndInv, OnePlace, Placed
<1>13. Live' = Live \cup {child}
  <2>1. Listed \subseteq Pid
    BY DEF IndInv, TypeOK, Listed, ToSet
  <2> QED BY <1>3, <1>7, <1>8, <2>1 DEF Live
<1>14. NeverLost' /\ NoDangling' /\ Born'
  BY <1>1, <1>2, <1>7, <1>12, <1>13 DEF IndInv, NeverLost, NoDangling, Born
<1>15. FutexOwner'
  BY <1>1 DEF IndInv, FutexOwner
<1> QED BY <1>10, <1>12, <1>14, <1>15 DEF IndInv

\* An exiting process leaves the CPU for good, or the machine stops in the exit path.
LEMMA ExitInv == ASSUME IndInv, process_thread_exit \/ process_exit \/ InitExit PROVE IndInv'
<1> DEFINE fl == [flags EXCEPT ![current] = {FINISHED}]
<1>0. /\ InUser
      /\ UNCHANGED <<sleeping_queue, waiting, ticksLeft, sleep_lock, pc, lifeVars, futex_queue>>
  BY DEF process_thread_exit, process_exit, InitExit
<1>1. /\ current \in Pid /\ OnCpu = {current}
      /\ current \notin ToSet(thread_queue) /\ current \notin ToSet(sleeping_queue)
      /\ current \notin ToSet(waiting) /\ current \notin Blocked
      /\ \A f \in Futex : futex_queue[f] # current
  BY <1>0, CallerFacts
<1>2. /\ fl \in [Pid -> SUBSET Flag] /\ FINISHED \in fl[current]
      /\ \A p \in Pid \ {current} : fl[p] = flags[p]
  BY <1>1 DEF IndInv, TypeOK, Flag
<1>3. Listed' = Listed /\ Listed \subseteq Pid /\ Blocked' = Blocked
  <2>1. Listed \subseteq Pid
    BY DEF IndInv, TypeOK, Listed, ToSet
  <2> QED BY <1>0, <2>1 DEF Listed, Blocked, lifeVars
<1>4. FutexOwner'
  BY <1>0 DEF IndInv, FutexOwner
<1>5. CASE Finish /\ UNCHANGED machine
  <2>1. schedule(TRUE, thread_queue, fl)
    BY <1>5 DEF Finish
  <2> HIDE DEF fl
  <2>2. /\ thread_queue \in Seq(Pid) /\ IsInjective(thread_queue)
        /\ OnCpu \cap ToSet(thread_queue) = {} /\ current \in Pid \cup {Idle}
        /\ IsInjective(sleeping_queue)' /\ IsInjective(waiting)'
    BY <1>0, <1>1 DEF IndInv, TypeOK, OnePlace
  <2>3. /\ Taken(TRUE, thread_queue) \cap ToSet(sleeping_queue') = {}
        /\ Taken(TRUE, thread_queue) \cap ToSet(waiting') = {}
        /\ Taken(TRUE, thread_queue) \cap Blocked' = {}
        /\ ToSet(sleeping_queue') \cap ToSet(waiting') = {}
        /\ ToSet(sleeping_queue') \cap Blocked' = {} /\ ToSet(waiting') \cap Blocked' = {}
    BY <1>0, <1>3 DEF IndInv, OnePlace, Taken
  <2>4. /\ thread_queue' \in Seq(Pid) /\ current' \in Pid \cup {Idle}
        /\ flags' \in [Pid -> SUBSET Flag] /\ OnePlace'
        /\ Placed' = Taken(TRUE, thread_queue) \cup ToSet(sleeping_queue') \cup ToSet(waiting')
                        \cup Blocked'
        /\ \A p \in Pid : FINISHED \in flags'[p] <=> FINISHED \in fl[p]
    BY <1>2, <2>1, <2>2, <2>3, SwitchFacts
  <2>5. TypeOK'
    BY <1>0, <1>5, <2>4 DEF IndInv, TypeOK, lifeVars
  <2>6. Placed' = Placed \ {current}
    BY <1>0, <1>1, <1>3, <2>4 DEF Placed, Taken
  <2>7. Live' = Live \ {current}
    BY <1>2, <1>3, <2>4 DEF Live
  <2>8. NeverLost' /\ Born'
    BY <1>0, <1>3, <2>6, <2>7 DEF IndInv, NeverLost, Born, lifeVars
  <2>9. NoDangling'
    BY <1>0, <1>1, <1>5, <2>6, <2>7 DEF IndInv, NoDangling
  <2> QED BY <1>4, <2>4, <2>5, <2>8, <2>9 DEF IndInv
<1>6. CASE machine' = "faulted" /\ flags' = fl /\ UNCHANGED <<current, thread_queue>>
  <2> HIDE DEF fl
  <2>1. TypeOK'
    BY <1>0, <1>2, <1>6 DEF IndInv, TypeOK, lifeVars
  <2>2. OnCpu' = OnCpu
    BY <1>6 DEF OnCpu
  <2>3. OnePlace' /\ Placed' = Placed
    BY <1>0, <1>3, <1>6, <2>2 DEF IndInv, OnePlace, Placed
  <2>4. Live' = Live \ {current}
    BY <1>2, <1>3, <1>6 DEF Live
  <2>5. NeverLost' /\ Born' /\ NoDangling'
    BY <1>0, <1>3, <1>6, <2>3, <2>4 DEF IndInv, NeverLost, Born, NoDangling, lifeVars
  <2> QED BY <1>4, <2>1, <2>3, <2>5 DEF IndInv
<1>7. CASE InitExit
  <2>1. ticksLeft' \in [Pid -> 0..MaxSleep] /\ machine' = "panicked"
        /\ UNCHANGED <<current, thread_queue, flags>>
    BY <1>0, <1>7 DEF InitExit, IndInv, TypeOK
  <2> QED BY <1>0, <2>1, FrameInv
<1> QED BY <1>5, <1>6, <1>7 DEF process_thread_exit, process_exit

\* process_reap deletes a finished process, which no queue holds.
LEMMA ReapInv == ASSUME IndInv, NEW pid \in -MaxPid..MaxPid, Wait4Reap(pid) PROVE IndInv'
<1>1. PICK q \in Pid : process_reap(q)
  BY DEF Wait4Reap
<1>2. UNCHANGED <<current, thread_queue, sleeping_queue, waiting, ticksLeft, sleep_lock,
                  flags, pc, id_generator, futex_queue, machine>>
  BY DEF Wait4Reap
<1>3. FINISHED \in flags[q]
  BY <1>1 DEF process_reap
<1>4. ASSUME NEW s \in Seq(Pid), q \in ToSet(s)
      PROVE  Position(s, q) \in DOMAIN s /\ s[Position(s, q)] = q
  <2>1. \E i \in DOMAIN s : s[i] = q
    BY <1>4 DEF ToSet
  <2> QED BY <2>1 DEF Position
<1>5. children' \in [Pid -> Seq(Pid)]
  <2>1. children \in [Pid -> Seq(Pid)]
    BY DEF IndInv, TypeOK
  <2>2. ASSUME NEW r \in Pid
        PROVE  (IF q \in ToSet(children[r])
                THEN RemoveAt(children[r], Position(children[r], q))
                ELSE children[r]) \in Seq(Pid)
    <3>1. children[r] \in Seq(Pid)
      BY <2>1
    <3>2. CASE q \in ToSet(children[r])
      BY <1>4, <3>1, <3>2, RemoveAtFacts
    <3> QED BY <3>1, <3>2
  <2> QED BY <1>1, <2>2 DEF process_reap, tree_remove
<1>6. /\ process_list' \in Seq(Pid)
      /\ Listed' \subseteq Listed /\ Listed \subseteq Listed' \cup {q}
  <2>1. process_list \in Seq(Pid)
    BY DEF IndInv, TypeOK
  <2>2. CASE q \in ToSet(process_list)
    <3> DEFINE i == Position(process_list, q)
    <3>1. i \in DOMAIN process_list /\ process_list[i] = q
      BY <1>4, <2>1, <2>2
    <3>2. process_list' = list_remove_by_index(process_list, i)
      BY <1>1, <2>2 DEF process_reap
    <3> HIDE DEF i
    <3>3. process_list' = RemoveAt(process_list, i)
      BY <2>1, <3>1, <3>2, RemoveByIndexFacts
    <3> QED BY <2>1, <3>1, <3>3, RemoveAtFacts DEF Listed
  <2>3. CASE q \notin ToSet(process_list)
    BY <1>1, <2>1, <2>3 DEF process_reap, Listed
  <2> QED BY <2>2, <2>3
<1>7. Live' = Live
  BY <1>2, <1>3, <1>6 DEF Live
<1>8. TypeOK'
  BY <1>2, <1>5, <1>6 DEF IndInv, TypeOK
<1>9. OnCpu' = OnCpu /\ Blocked' = Blocked
  BY <1>2 DEF OnCpu, Blocked
<1>10. OnePlace' /\ Placed' = Placed
  BY <1>2, <1>9 DEF IndInv, OnePlace, Placed
<1>11. NeverLost' /\ NoDangling' /\ Born' /\ FutexOwner'
  BY <1>2, <1>6, <1>7, <1>10 DEF IndInv, NeverLost, NoDangling, Born, FutexOwner
<1> QED BY <1>8, <1>10, <1>11 DEF IndInv

\* sys_wait4 reaps, blocks its caller, or faults.
LEMMA Wait4Inv == ASSUME IndInv, sys_wait4 PROVE IndInv'
<1>1. ASSUME NEW pid \in -MaxPid..MaxPid, Wait4Block(pid) PROVE IndInv'
  <2>1. /\ InUser /\ pc' = [pc EXCEPT ![current] = "wait4"]
        /\ schedule(TRUE, thread_queue, flags)
        /\ UNCHANGED <<sleeping_queue, waiting>>
        /\ UNCHANGED <<sleep_lock, lifeVars, machine>>
        /\ UNCHANGED <<ticksLeft, futex_queue>>
    BY <1>1 DEF Wait4Block
  <2>2. /\ flags \in [Pid -> SUBSET Flag] /\ "wait4" \in Where
        /\ ticksLeft' \in [Pid -> 0..MaxSleep] /\ futex_queue' \in [Futex -> Pid \cup {NoProc}]
    BY <2>1 DEF IndInv, TypeOK, Where
  <2> QED BY <2>1, <2>2, BlockInv
<1>2. CASE Wait4Orphan
  <2>1. ticksLeft' \in [Pid -> 0..MaxSleep] /\ machine' = "faulted"
        /\ UNCHANGED <<current, thread_queue, sleeping_queue, waiting, sleep_lock, flags,
                       pc, lifeVars, futex_queue>>
    BY <1>2 DEF Wait4Orphan, IndInv, TypeOK
  <2> QED BY <2>1, FrameInv
<1> QED BY <1>1, <1>2, ReapInv DEF sys_wait4

\* Every system call, interrupt and idle step preserves the invariant.
LEMMA NextInv == IndInv /\ [Next]_vars => IndInv'
<1> SUFFICES ASSUME IndInv, [Next]_vars PROVE IndInv'
  OBVIOUS
<1>0. ticksLeft \in [Pid -> 0..MaxSleep]
  BY DEF IndInv, TypeOK
<1>1. CASE Spin \/ sys_yield \/ idle
  BY <1>1, YieldInv
<1>2. CASE TickInKernel
  <2>1. ticksLeft' \in [Pid -> 0..MaxSleep] /\ machine' = machine
    BY <1>2, ElapsedType DEF TickInKernel, IndInv
  <2> QED BY <1>2, <2>1, FrameInv DEF TickInKernel
<1>3. CASE TickInUser
  BY <1>3, TickInv
<1>4. CASE sys_nanosleep
  BY <1>4, NanosleepInv
<1>5. CASE \E f \in Futex : FutexWait(f) \/ FutexWake(f)
  BY <1>5, FutexInv
<1>6. CASE FutexWaitReturn
  BY <1>6, FutexReturnInv
<1>7. CASE wait_for_object \/ wakeup_waiting
  BY <1>7, WaitInv
<1>8. CASE process_fork
  BY <1>8, ForkInv
<1>9. CASE process_thread_exit \/ process_exit \/ InitExit
  BY <1>9, ExitInv
<1>10. CASE sys_wait4
  BY <1>10, Wait4Inv
<1>11. CASE UNCHANGED vars
  BY <1>0, <1>11, FrameInv DEF vars, lifeVars
<1> QED BY <1>1, <1>2, <1>3, <1>4, <1>5, <1>6, <1>7, <1>8, <1>9, <1>10, <1>11 DEF Next

\* The conjunction of the scheduler's invariants is inductive, for every number of
\* processes, sleep times and futexes.
THEOREM InductiveInvariant == Spec => []IndInv
  BY InitInv, NextInv, PTL DEF Spec

\* Every variable keeps its type: no queue ever holds the idle process, for instance.
THEOREM TypeCorrect == Spec => []TypeOK
  BY InductiveInvariant, PTL DEF IndInv

\* For any number of processes: no process is in two places.
THEOREM OnePlaceHolds == Spec => []OnePlace
  BY InductiveInvariant, PTL DEF IndInv

\* For any number of processes: no process that has not finished drops out of every
\* queue, whatever order of sleeps, waits, wakeups, forks and exits it goes through.
THEOREM NeverLostHolds == Spec => []NeverLost
  BY InductiveInvariant, PTL DEF IndInv

\* For any number of processes: no queue keeps a pointer to a process_t that exited or
\* that process_reap freed.
THEOREM NoDanglingHolds == Spec => []NoDangling
  BY InductiveInvariant, PTL DEF IndInv
-----------------------------------------------------------------------------
(***************************************************************************)
(* The books: status flags against queues, process_list against the tree.  *)
(* BookInv adds to the invariant above that init stays and that every tree *)
(* node is a listed process.                                               *)
(***************************************************************************)
\* What schedule() does to the status flags: the outgoing process loses ON_CPU, and
\* SLEEP_INTERRUPTIBLE when it is queued again; the dispatched one gets ON_CPU.
LEMMA ScheduleFlags ==
    ASSUME NEW sl \in BOOLEAN, NEW tq \in Seq(Pid), NEW fl \in [Pid -> SUBSET Flag],
           current \in Pid \cup {Idle}, schedule(sl, tq, fl),
           \A p \in Pid : ON_CPU \in fl[p] => p = current
    PROVE  \A p \in Pid :
               /\ ON_CPU \in flags'[p] => p = current'
               /\ SLEEP \in flags'[p] <=> SLEEP \in fl[p] /\ (p = current => sl)
<1> DEFINE off == [p \in Pid |-> IF p = current THEN fl[p] \ {ON_CPU} ELSE fl[p]]
           again == ~(current = Idle \/ sl)
           q == IF again THEN Append(tq, current) ELSE tq
           fq == IF again THEN [off EXCEPT ![current] = @ \ {SLEEP}] ELSE off
<1>1. ON_CPU # SLEEP /\ Idle \notin Pid
  BY DEF ON_CPU, SLEEP, Idle, Pid
<1>2. off \in [Pid -> SUBSET Flag]
  OBVIOUS
<1>3. /\ fq \in [Pid -> SUBSET Flag]
      /\ \A p \in Pid : /\ ON_CPU \notin fq[p]
                        /\ SLEEP \in fq[p] <=> SLEEP \in fl[p] /\ (p = current => sl)
  <2>1. CASE again
    BY <1>1, <1>2, <2>1
  <2>2. CASE ~again
    BY <1>1, <1>2, <2>2
  <2> QED BY <2>1, <2>2
<1>4. \/ flags' = fq
      \/ current' = Head(q) /\ flags' = [fq EXCEPT ![Head(q)] = @ \cup {ON_CPU}]
  BY DEF schedule, schedule_process
<1> HIDE DEF q, fq
<1> QED BY <1>1, <1>3, <1>4

\* A step that ends in schedule(): the flags fl it enters with must already fit the new
\* sleeping queue and wait list, the process that is queued again excepted.
LEMMA SwitchFlags ==
    ASSUME NEW sl \in BOOLEAN, NEW tq \in Seq(Pid), NEW fl \in [Pid -> SUBSET Flag],
           current \in Pid \cup {Idle}, schedule(sl, tq, fl),
           \A p \in Pid : ON_CPU \in fl[p] => p = current,
           \A p \in Pid : SLEEP \in fl[p] /\ (p = current => sl)
                              <=> p \in ToSet(sleeping_queue') \cup ToSet(waiting')
    PROVE  FlagsAgree'
  BY ScheduleFlags DEF FlagsAgree

\* The tree reaches only processes that process_list holds: the listed processes are a
\* set that holds init and is closed under children.
LEMMA TreeReaches ==
    ASSUME TypeOK', TreeListed'
    PROVE  \A p \in Pid : InTree(p)' => p \in Listed'
<1>1. Listed' \in SUBSET Pid
  BY DEF TypeOK, Listed, ToSet
<1>2. InitProc \in Listed' /\ \A q \in Listed' : ToSet(children'[q]) \subseteq Listed'
  BY <1>1 DEF TreeListed, Live
<1> QED BY <1>1, <1>2 DEF InTree

\* A step that creates and deletes no process and finishes none keeps list and tree.
LEMMA SameBooks ==
    ASSUME BookInv, TypeOK', UNCHANGED lifeVars,
           \A p \in Pid : FINISHED \in flags'[p] <=> FINISHED \in flags[p]
    PROVE  ListAgreesWithTree' /\ TreeListed'
<1>1. Listed' = Listed /\ Live' = Live
  BY SameLives DEF BookInv
<1>2. TreeListed'
  BY <1>1 DEF BookInv, TreeListed, lifeVars
<1>3. \A p \in Pid : InTree(p)' => p \in Listed'
  BY <1>2, TreeReaches
<1>4. 1..id_generator \subseteq Pid
  BY MaxPidAssumption DEF BookInv, IndInv, TypeOK, Pid
<1> QED BY <1>1, <1>2, <1>3, <1>4 DEF BookInv, BooksAgree, ListAgreesWithTree, lifeVars

\* The books agree when init starts.
LEMMA InitBooks == Init => BookInv
<1> SUFFICES ASSUME Init PROVE BookInv
  OBVIOUS
<1>1. InitProc \in Pid /\ InitProc = 1
  BY MaxPidAssumption DEF Pid, InitProc
<1>2. IndInv
  BY InitInv
<1>3. ToSet(sleeping_queue) = {} /\ ToSet(waiting) = {} /\ Listed = {InitProc}
      /\ Live = {InitProc} /\ IsInjective(process_list)
  BY <1>1 DEF Init, ToSet, Listed, Live, IsInjective
<1>4. \A r \in Pid : ToSet(children[r]) = {} /\ IsInjective(children[r])
  BY DEF Init, ToSet, IsInjective
<1>5. FlagsAgree
  BY <1>3 DEF Init, FlagsAgree
<1>6. TreeListed
  BY <1>3, <1>4 DEF TreeListed
<1>7. ListAgreesWithTree
  <2>1. \A p \in 1..id_generator : p \in Listed
    BY <1>1, <1>3 DEF Init
  <2>2. \A p \in Pid : InTree(p) => p \in Listed
    BY <1>1, <1>3, <1>4 DEF InTree
  <2> QED BY <1>3, <2>1, <2>2 DEF ListAgreesWithTree
<1> QED BY <1>2, <1>5, <1>6, <1>7 DEF BookInv, BooksAgree

\* Steps that move processes between CPU and queues: flags follow the queues, and list
\* and tree stay as they are.
LEMMA MoveBooks ==
    ASSUME BookInv, IndInv', UNCHANGED lifeVars, FlagsAgree',
           \A p \in Pid : FINISHED \in flags'[p] <=> FINISHED \in flags[p]
    PROVE  BookInv'
<1>1. TypeOK'
  BY DEF IndInv
<1> QED BY <1>1, SameBooks DEF BookInv, BooksAgree

\* schedule() called with flags that fit the new queues, by a step that finishes nobody.
LEMMA ScheduleBooks ==
    ASSUME BookInv, IndInv', UNCHANGED lifeVars,
           NEW sl \in BOOLEAN, NEW tq \in Seq(Pid), NEW fl \in [Pid -> SUBSET Flag],
           IsInjective(tq), current \notin ToSet(tq), schedule(sl, tq, fl),
           \A p \in Pid : ON_CPU \in fl[p] => p = current,
           \A p \in Pid : SLEEP \in fl[p] /\ (p = current => sl)
                              <=> p \in ToSet(sleeping_queue') \cup ToSet(waiting'),
           \A p \in Pid : FINISHED \in fl[p] <=> FINISHED \in flags[p]
    PROVE  BookInv'
<1>1. current \in Pid \cup {Idle}
  BY DEF BookInv, IndInv, TypeOK
<1>2. FlagsAgree'
  BY <1>1, SwitchFlags
<1>3. \A p \in Pid : FINISHED \in flags'[p] <=> FINISHED \in fl[p]
  BY <1>1, ScheduleFacts
<1> QED BY <1>2, <1>3, MoveBooks

\* What the invariant says of the flags and the CPU before a step.
LEMMA BookFacts ==
    ASSUME BookInv
    PROVE  /\ flags \in [Pid -> SUBSET Flag] /\ thread_queue \in Seq(Pid)
           /\ sleeping_queue \in Seq(Pid) /\ waiting \in Seq(Pid)
           /\ IsInjective(thread_queue) /\ current \notin ToSet(thread_queue)
           /\ current \notin ToSet(sleeping_queue) /\ current \notin ToSet(waiting)
           /\ \A p \in Pid :
                  /\ ON_CPU \in flags[p] => p = current
                  /\ SLEEP \in flags[p] <=> p \in ToSet(sleeping_queue) \cup ToSet(waiting)
           /\ ON_CPU # SLEEP /\ SLEEP # FINISHED /\ ON_CPU # FINISHED
           /\ SLEEP \in Flag /\ FINISHED \in Flag
<1>1. /\ flags \in [Pid -> SUBSET Flag] /\ thread_queue \in Seq(Pid)
      /\ sleeping_queue \in Seq(Pid) /\ waiting \in Seq(Pid)
      /\ current \in Pid \cup {Idle}
  BY DEF BookInv, IndInv, TypeOK
<1>2. IsInjective(thread_queue)
  BY DEF BookInv, IndInv, OnePlace
<1>3. /\ current \notin ToSet(thread_queue)
      /\ current \notin ToSet(sleeping_queue) /\ current \notin ToSet(waiting)
  <2>1. Idle \notin Pid
    BY DEF Idle, Pid
  <2>2. ToSet(thread_queue) \subseteq Pid /\ ToSet(sleeping_queue) \subseteq Pid
        /\ ToSet(waiting) \subseteq Pid
    BY <1>1 DEF ToSet
  <2>3. CASE current = Idle
    BY <2>1, <2>2, <2>3
  <2>4. CASE current # Idle
    BY <2>4 DEF BookInv, IndInv, OnePlace, OnCpu
  <2> QED BY <2>3, <2>4
<1>4. ON_CPU # SLEEP /\ SLEEP # FINISHED /\ ON_CPU # FINISHED
      /\ SLEEP \in Flag /\ FINISHED \in Flag
  BY DEF ON_CPU, SLEEP, FINISHED, Flag
<1> QED BY <1>1, <1>2, <1>3, <1>4 DEF BookInv, BooksAgree, FlagsAgree

\* Steps that call schedule(false) with nothing changed: yield, idle, spin, a tick
\* that finds no expired sleeper.
LEMMA YieldBooks ==
    ASSUME BookInv, IndInv', schedule(FALSE, thread_queue, flags),
           UNCHANGED <<sleeping_queue, waiting, lifeVars>>
    PROVE  BookInv'
<1>1. \A p \in Pid : SLEEP \in flags[p] /\ (p = current => FALSE)
                         <=> p \in ToSet(sleeping_queue') \cup ToSet(waiting')
  BY BookFacts
<1> QED BY <1>1, BookFacts, ScheduleBooks

\* sleep(): the caller enters the sleeping queue with SLEEP set, or spins without it.
LEMMA SleepBooks ==
    ASSUME BookInv, IndInv', InUser, NEW t, NEW cont, sleep(t, cont),
           UNCHANGED <<waiting, lifeVars>>
    PROVE  BookInv'
<1> DEFINE fl == [flags EXCEPT ![current] = (@ \cup {SLEEP}) \ {ON_CPU}]
<1>1. current \in Pid
  BY DEF InUser
<1>2. /\ fl \in [Pid -> SUBSET Flag]
      /\ \A p \in Pid : /\ FINISHED \in fl[p] <=> FINISHED \in flags[p]
                        /\ ON_CPU \notin fl[p]
                        /\ SLEEP \in fl[p] <=> SLEEP \in flags[p] \/ p = current
  BY <1>1, BookFacts
<1>3. CASE spin_lock(fl) /\ UNCHANGED sleeping_queue
  <2> HIDE DEF fl
  <2>1. schedule(FALSE, thread_queue, fl)
    BY <1>3 DEF spin_lock
  <2>2. \A p \in Pid : SLEEP \in fl[p] /\ (p = current => FALSE)
                           <=> p \in ToSet(sleeping_queue') \cup ToSet(waiting')
    BY <1>2, <1>3, BookFacts
  <2> QED BY <1>2, <2>1, <2>2, BookFacts, ScheduleBooks
<1>4. CASE sleeping_queue' = Append(sleeping_queue, current) /\ schedule(TRUE, thread_queue, fl)
  <2> HIDE DEF fl
  <2>1. ToSet(sleeping_queue') = ToSet(sleeping_queue) \cup {current}
    BY <1>1, <1>4, BookFacts, AppendFacts
  <2>2. \A p \in Pid : SLEEP \in fl[p] /\ (p = current => TRUE)
                           <=> p \in ToSet(sleeping_queue') \cup ToSet(waiting')
    BY <1>2, <2>1, BookFacts
  <2> QED BY <1>2, <1>4, <2>2, BookFacts, ScheduleBooks
<1> QED BY <1>3, <1>4 DEF sleep

\* A tick: the woken sleeper loses SLEEP as it leaves the sleeping queue.
LEMMA TickBooks == ASSUME BookInv, IndInv', TickInUser PROVE BookInv'
<1>0. InUser /\ current \in Pid /\ UNCHANGED <<waiting, lifeVars>>
  BY DEF TickInUser, InUser
<1>1. CASE schedule(FALSE, thread_queue, flags) /\ UNCHANGED sleeping_queue
  BY <1>0, <1>1, YieldBooks
<1>2. ASSUME NEW i \in DOMAIN sleeping_queue,
             sleeping_queue' = RemoveAt(sleeping_queue, i),
             LET woken == schedule_process(thread_queue, flags, sleeping_queue[i])
             IN  schedule(FALSE, woken[1], woken[2])
      PROVE  BookInv'
  <2> DEFINE x == sleeping_queue[i]
             tq == Append(thread_queue, x)
             fl == [flags EXCEPT ![x] = @ \ {SLEEP}]
  <2>1. /\ x \in Pid /\ ToSet(sleeping_queue) = ToSet(sleeping_queue') \cup {x}
        /\ x \notin ToSet(sleeping_queue') /\ x \in ToSet(sleeping_queue)
        /\ x \notin ToSet(waiting) /\ x \notin ToSet(thread_queue) /\ x # current
    <3>1. /\ x \in Pid /\ ToSet(sleeping_queue) = ToSet(sleeping_queue') \cup {x}
          /\ x \notin ToSet(sleeping_queue')
      BY <1>2, BookFacts, RemoveAtFacts DEF BookInv, IndInv, OnePlace
    <3> QED BY <3>1, BookFacts DEF BookInv, IndInv, OnePlace
  <2>2. schedule(FALSE, tq, fl)
    BY <1>2 DEF schedule_process
  <2>3. tq \in Seq(Pid) /\ IsInjective(tq) /\ current \notin ToSet(tq)
    BY <2>1, BookFacts, AppendFacts
  <2>4. /\ fl \in [Pid -> SUBSET Flag]
        /\ \A p \in Pid : /\ FINISHED \in fl[p] <=> FINISHED \in flags[p]
                          /\ ON_CPU \in fl[p] <=> ON_CPU \in flags[p]
                          /\ SLEEP \in fl[p] <=> SLEEP \in flags[p] /\ p # x
    BY <2>1, BookFacts
  <2> HIDE DEF x, tq, fl
  <2>5. \A p \in Pid : SLEEP \in fl[p] /\ (p = current => FALSE)
                           <=> p \in ToSet(sleeping_queue') \cup ToSet(waiting')
    BY <1>0, <2>1, <2>4, BookFacts
  <2> QED BY <1>0, <2>2, <2>3, <2>4, <2>5, BookFacts, ScheduleBooks
<1> QED BY <1>1, <1>2 DEF TickInUser, wakeup_sleeping, spin_lock

\* Waiting for the terminal sets SLEEP, waking all waiters clears it for each of them.
LEMMA WaitBooks == ASSUME BookInv, IndInv', wait_for_object \/ wakeup_waiting PROVE BookInv'
<1>1. CASE wait_for_object
  <2> DEFINE fl == [flags EXCEPT ![current] = @ \cup {SLEEP}]
  <2>1. current \in Pid /\ schedule(TRUE, thread_queue, fl)
        /\ waiting' = Append(waiting, current) /\ UNCHANGED <<sleeping_queue, lifeVars>>
    BY <1>1 DEF wait_for_object, InUser
  <2>2. /\ fl \in [Pid -> SUBSET Flag]
        /\ \A p \in Pid : /\ FINISHED \in fl[p] <=> FINISHED \in flags[p]
                          /\ ON_CPU \in fl[p] <=> ON_CPU \in flags[p]
                          /\ SLEEP \in fl[p] <=> SLEEP \in flags[p] \/ p = current
    BY <2>1, BookFacts
  <2> HIDE DEF fl
  <2>3. ToSet(waiting') = ToSet(waiting) \cup {current}
    BY <2>1, BookFacts, AppendFacts
  <2>4. \A p \in Pid : SLEEP \in fl[p] /\ (p = current => TRUE)
                           <=> p \in ToSet(sleeping_queue') \cup ToSet(waiting')
    BY <2>1, <2>2, <2>3, BookFacts
  <2> QED BY <2>1, <2>2, <2>4, BookFacts, ScheduleBooks
<1>2. CASE wakeup_waiting
  <2>1. /\ waiting' = <<>> /\ UNCHANGED <<current, sleeping_queue, lifeVars>>
        /\ flags' = [p \in Pid |-> IF p \in ToSet(waiting) THEN flags[p] \ {SLEEP} ELSE flags[p]]
    BY <1>2 DEF wakeup_waiting
  <2>2. ToSet(waiting') = {} /\ ToSet(sleeping_queue) \cap ToSet(waiting) = {}
    BY <2>1 DEF ToSet, BookInv, IndInv, OnePlace
  <2>3. FlagsAgree'
    BY <2>1, <2>2, BookFacts DEF FlagsAgree
  <2>4. \A p \in Pid : FINISHED \in flags'[p] <=> FINISHED \in flags[p]
    BY <2>1, BookFacts
  <2> QED BY <2>1, <2>3, <2>4, MoveBooks
<1> QED BY <1>1, <1>2

\* A step that keeps flags and queues.
LEMMA FrameBooks ==
    ASSUME BookInv, IndInv', UNCHANGED <<current, sleeping_queue, waiting, flags, lifeVars>>
    PROVE  BookInv'
<1>1. FlagsAgree'
  BY BookFacts DEF FlagsAgree
<1> QED BY <1>1, MoveBooks

\* The child that fork creates inherits flags without ON_CPU and SLEEP, and is new to
\* process_list and to every list of children.
LEMMA ForkBooks == ASSUME BookInv, IndInv', process_fork PROVE BookInv'
<1> DEFINE child == id_generator + 1
           node == IF InTree(current) THEN current ELSE InitProc
<1>1. /\ InUser /\ id_generator < MaxPid /\ id_generator' = child
      /\ flags' = [flags EXCEPT ![child] = flags[current] \ {ON_CPU}]
      /\ process_list' = Append(process_list, child)
      /\ children' = [children EXCEPT ![node] = Append(@, child)]
      /\ UNCHANGED <<current, sleeping_queue, waiting>>
  BY DEF process_fork
<1>2. /\ child \in Pid /\ child \notin 1..id_generator /\ InitProc \in Pid
      /\ \A p \in 1..child : p = child \/ p \in 1..id_generator
      /\ 1..id_generator \subseteq Pid
  <2>1. id_generator \in 1..MaxPid
    BY DEF BookInv, IndInv, TypeOK, Pid
  <2> QED BY <1>1, <2>1, MaxPidAssumption DEF Pid, InitProc
<1>3. child \notin Placed /\ child \notin Listed
  BY <1>2 DEF BookInv, IndInv, Born
<1>4. current \in Pid /\ current \in Live /\ FINISHED \notin flags[current]
  BY <1>1, CallerFacts DEF BookInv
<1>5. node \in Pid
  BY <1>2, <1>4
<1> HIDE DEF child, node
<1>6. /\ Listed' = Listed \cup {child} /\ IsInjective(process_list')
  <2>1. process_list \in Seq(Pid) /\ IsInjective(process_list)
    BY DEF BookInv, IndInv, TypeOK, BooksAgree, ListAgreesWithTree
  <2> QED BY <1>1, <1>2, <1>3, <2>1, AppendFacts DEF Listed
<1>7. FlagsAgree'
  <2>1. /\ child \notin ToSet(sleeping_queue) /\ child \notin ToSet(waiting)
        /\ SLEEP \notin flags[current]
    BY <1>3, <1>4, BookFacts DEF Placed
  <2> QED BY <1>1, <1>2, <2>1, BookFacts DEF FlagsAgree
<1>8. \A r \in Pid : IsInjective(children'[r]) /\ ToSet(children'[r]) \subseteq Listed'
  <2> TAKE r \in Pid
  <2>1. /\ children[r] \in Seq(Pid) /\ IsInjective(children[r])
        /\ ToSet(children[r]) \subseteq Listed
    BY DEF BookInv, IndInv, TypeOK, TreeListed
  <2>2. children'[r] = IF r = node THEN Append(children[r], child) ELSE children[r]
    BY <1>1, <1>5 DEF BookInv, IndInv, TypeOK
  <2> QED BY <1>2, <1>3, <1>6, <2>1, <2>2, AppendFacts
<1>9. TreeListed'
  <2>1. InitProc \in Live /\ InitProc # child
    BY <1>3 DEF BookInv, TreeListed, Live
  <2>2. InitProc \in Live'
    BY <1>1, <1>2, <1>6, <2>1, BookFacts DEF Live
  <2> QED BY <1>8, <2>2 DEF TreeListed
<1>10. ListAgreesWithTree'
  <2>1. \A p \in 1..id_generator' : p \notin Listed' => FINISHED \in flags'[p]
    BY <1>1, <1>2, <1>6, BookFacts DEF BookInv, BooksAgree, ListAgreesWithTree
  <2>2. \A p \in Pid : InTree(p)' => p \in Listed'
    BY <1>9, TreeReaches DEF IndInv
  <2> QED BY <1>6, <2>1, <2>2 DEF ListAgreesWithTree
<1> QED BY <1>7, <1>9, <1>10 DEF BookInv, BooksAgree

\* An exiting process keeps FINISHED only, and leaves list and tree to process_reap.
LEMMA ExitBooks ==
    ASSUME BookInv, IndInv', process_thread_exit \/ process_exit
    PROVE  BookInv'
<1> DEFINE fl == [flags EXCEPT ![current] = {FINISHED}]
<1>1. /\ InUser /\ current # InitProc /\ UNCHANGED <<sleeping_queue, waiting, lifeVars>>
      /\ \/ schedule(TRUE, thread_queue, fl)
         \/ flags' = fl /\ UNCHANGED current
  BY DEF process_thread_exit, process_exit, Finish
<1>2. current \in Pid
  BY <1>1 DEF InUser
<1>3. /\ fl \in [Pid -> SUBSET Flag]
      /\ \A p \in Pid : /\ FINISHED \in fl[p] <=> FINISHED \in flags[p] \/ p = current
                        /\ ON_CPU \in fl[p] => ON_CPU \in flags[p]
                        /\ SLEEP \in fl[p] <=> SLEEP \in flags[p]
  BY <1>2, BookFacts
<1> HIDE DEF fl
<1>4. /\ FlagsAgree'
      /\ \A p \in Pid : FINISHED \in flags'[p] <=> FINISHED \in flags[p] \/ p = current
  <2>1. CASE schedule(TRUE, thread_queue, fl)
    <3>1. \A p \in Pid : SLEEP \in fl[p] /\ (p = current => TRUE)
                             <=> p \in ToSet(sleeping_queue') \cup ToSet(waiting')
      BY <1>1, <1>3, BookFacts
    <3>2. FlagsAgree'
      BY <1>2, <1>3, <2>1, <3>1, BookFacts, SwitchFlags
    <3>3. \A p \in Pid : FINISHED \in flags'[p] <=> FINISHED \in fl[p]
      BY <1>2, <1>3, <2>1, BookFacts, ScheduleFacts
    <3> QED BY <1>3, <3>2, <3>3
  <2>2. CASE flags' = fl /\ UNCHANGED current
    BY <1>1, <1>3, <2>2, BookFacts DEF FlagsAgree
  <2> QED BY <1>1, <2>1, <2>2
<1>5. Listed' = Listed /\ Listed \subseteq Pid
  BY <1>1 DEF Listed, lifeVars, BookInv, IndInv, TypeOK, ToSet
<1>6. TreeListed'
  <2>1. InitProc \in Live'
    BY <1>1, <1>4, <1>5 DEF BookInv, TreeListed, Live
  <2> QED BY <1>1, <1>5, <2>1 DEF BookInv, TreeListed, lifeVars
<1>7. ListAgreesWithTree'
  <2>1. 1..id_generator \subseteq Pid
    BY MaxPidAssumption DEF BookInv, IndInv, TypeOK, Pid
  <2>2. \A p \in 1..id_generator' : p \notin Listed' => FINISHED \in flags'[p]
    BY <1>1, <1>4, <1>5, <2>1 DEF BookInv, BooksAgree, ListAgreesWithTree, lifeVars
  <2>3. \A p \in Pid : InTree(p)' => p \in Listed'
    BY <1>6, TreeReaches DEF IndInv
  <2> QED BY <1>1, <2>2, <2>3 DEF BookInv, BooksAgree, ListAgreesWithTree, lifeVars
<1> QED BY <1>4, <1>6, <1>7 DEF BookInv, BooksAgree

\* What deleting a process from a duplicate-free list leaves.
LEMMA DeleteFacts ==
    ASSUME NEW s \in Seq(Pid), IsInjective(s), NEW q \in ToSet(s)
    PROVE  /\ Position(s, q) \in DOMAIN s
           /\ IsInjective(RemoveAt(s, Position(s, q)))
           /\ ToSet(RemoveAt(s, Position(s, q))) = ToSet(s) \ {q}
<1>1. \E i \in DOMAIN s : s[i] = q
  BY DEF ToSet
<1>2. Position(s, q) \in DOMAIN s /\ s[Position(s, q)] = q
  BY <1>1 DEF Position
<1> QED BY <1>2, RemoveAtFacts

\* process_reap deletes the same process from process_list and from the tree.
LEMMA ReapBooks ==
    ASSUME BookInv, IndInv', NEW pid \in -MaxPid..MaxPid, Wait4Reap(pid)
    PROVE  BookInv'
<1>1. PICK q \in Pid : process_reap(q)
  BY DEF Wait4Reap
<1>2. UNCHANGED <<current, sleeping_queue, waiting, flags, id_generator>>
  BY DEF Wait4Reap
<1>3. FINISHED \in flags[q] /\ tree_remove(q)
  BY <1>1 DEF process_reap
<1>4. process_list \in Seq(Pid) /\ IsInjective(process_list)
  BY DEF BookInv, IndInv, TypeOK, BooksAgree, ListAgreesWithTree
<1>5. Listed' = Listed \ {q} /\ IsInjective(process_list')
  <2>1. CASE q \in ToSet(process_list)
    <3>1. process_list' = list_remove_by_index(process_list, Position(process_list, q))
      BY <1>1, <2>1 DEF process_reap
    <3>2. process_list' = RemoveAt(process_list, Position(process_list, q))
      BY <1>4, <2>1, <3>1, DeleteFacts, RemoveByIndexFacts
    <3> QED BY <1>4, <2>1, <3>2, DeleteFacts DEF Listed
  <2>2. CASE q \notin ToSet(process_list)
    BY <1>1, <1>4, <2>2 DEF process_reap, Listed
  <2> QED BY <2>1, <2>2
<1>6. \A r \in Pid : IsInjective(children'[r]) /\ ToSet(children'[r]) = ToSet(children[r]) \ {q}
  <2> TAKE r \in Pid
  <2>1. children[r] \in Seq(Pid) /\ IsInjective(children[r])
    BY DEF BookInv, IndInv, TypeOK, TreeListed
  <2>2. children'[r] = IF q \in ToSet(children[r])
                       THEN RemoveAt(children[r], Position(children[r], q))
                       ELSE children[r]
    BY <1>3 DEF tree_remove
  <2>3. CASE q \in ToSet(children[r])
    BY <2>1, <2>2, <2>3, DeleteFacts
  <2>4. CASE q \notin ToSet(children[r])
    BY <2>1, <2>2, <2>4
  <2> QED BY <2>3, <2>4
<1>7. TreeListed'
  <2>1. InitProc \in Live'
    BY <1>2, <1>3, <1>5 DEF BookInv, TreeListed, Live
  <2>2. \A r \in Pid : ToSet(children'[r]) \subseteq Listed'
    BY <1>5, <1>6 DEF BookInv, TreeListed
  <2> QED BY <1>6, <2>1, <2>2 DEF TreeListed
<1>8. ListAgreesWithTree'
  <2>1. \A p \in 1..id_generator' : p \notin Listed' => FINISHED \in flags'[p]
    BY <1>2, <1>3, <1>5 DEF BookInv, BooksAgree, ListAgreesWithTree
  <2>2. \A p \in Pid : InTree(p)' => p \in Listed'
    BY <1>7, TreeReaches DEF IndInv
  <2> QED BY <1>5, <2>1, <2>2 DEF ListAgreesWithTree
<1>9. FlagsAgree'
  BY <1>2, BookFacts DEF FlagsAgree
<1> QED BY <1>7, <1>8, <1>9 DEF BookInv, BooksAgree

\* Every step keeps the books in agreement.
LEMMA NextBooks == BookInv /\ [Next]_vars => BookInv'
<1> SUFFICES ASSUME BookInv, [Next]_vars PROVE BookInv'
  OBVIOUS
<1>0. IndInv'
  BY NextInv DEF BookInv
<1>1. CASE Spin \/ sys_yield \/ idle
  BY <1>0, <1>1, YieldBooks DEF Spin, sys_yield, idle, spin_lock
<1>2. CASE TickInKernel \/ FutexWaitReturn \/ InitExit \/ UNCHANGED vars
  <2>1. UNCHANGED <<current, sleeping_queue, waiting, flags, lifeVars>>
    BY <1>2 DEF TickInKernel, FutexWaitReturn, InitExit, vars, lifeVars
  <2> QED BY <1>0, <2>1, FrameBooks
<1>3. CASE TickInUser
  BY <1>0, <1>3, TickBooks
<1>4. CASE sys_nanosleep
  <2>1. PICK t \in 1..MaxSleep : sleep(t, "user")
    BY <1>4 DEF sys_nanosleep
  <2>2. InUser /\ UNCHANGED <<waiting, lifeVars>>
    BY <1>4 DEF sys_nanosleep
  <2> QED BY <1>0, <2>1, <2>2, SleepBooks
<1>5. ASSUME NEW f \in Futex, FutexWait(f) PROVE BookInv'
  <2>1. PICK t \in 1..MaxSleep : sleep(t, "futex")
    BY <1>5 DEF FutexWait
  <2>2. InUser /\ UNCHANGED <<waiting, lifeVars>>
    BY <1>5 DEF FutexWait
  <2> QED BY <1>0, <2>1, <2>2, SleepBooks
<1>6. ASSUME NEW f \in Futex, FutexWake(f) PROVE BookInv'
  <2>1. CASE spin_lock(flags)
    BY <1>0, <1>6, <2>1, YieldBooks DEF FutexWake, spin_lock
  <2>2. CASE UNCHANGED <<current, flags>>
    BY <1>0, <1>6, <2>2, FrameBooks DEF FutexWake
  <2> QED BY <1>6, <2>1, <2>2 DEF FutexWake, wakeup_now
<1>7. CASE wait_for_object \/ wakeup_waiting
  BY <1>0, <1>7, WaitBooks
<1>8. CASE process_fork
  BY <1>0, <1>8, ForkBooks
<1>9. CASE process_thread_exit \/ process_exit
  BY <1>0, <1>9, ExitBooks
<1>10. CASE sys_wait4
  <2>1. ASSUME NEW pid \in -MaxPid..MaxPid, Wait4Block(pid) PROVE BookInv'
    <3>1. /\ InUser /\ schedule(TRUE, thread_queue, flags)
          /\ UNCHANGED <<sleeping_queue, waiting, lifeVars>>
      BY <2>1 DEF Wait4Block
    <3>2. \A p \in Pid : SLEEP \in flags[p] /\ (p = current => TRUE)
                             <=> p \in ToSet(sleeping_queue') \cup ToSet(waiting')
      BY <3>1, BookFacts
    <3> QED BY <1>0, <3>1, <3>2, BookFacts, ScheduleBooks
  <2>2. CASE Wait4Orphan
    BY <1>0, <2>2, FrameBooks DEF Wait4Orphan
  <2> QED BY <1>0, <1>10, <2>1, <2>2, ReapBooks DEF sys_wait4
<1> QED BY <1>1, <1>2, <1>3, <1>4, <1>5, <1>6, <1>7, <1>8, <1>9, <1>10 DEF Next

\* For any number of processes: the flags say where a process is, process_list holds
\* every process once until it is reaped, and the tree reaches only listed processes.
THEOREM BooksAgreeHolds == Spec => []BooksAgree
<1>1. Spec => []BookInv
  BY InitBooks, NextBooks, PTL DEF Spec
<1> QED BY <1>1, PTL DEF BookInv
-----------------------------------------------------------------------------
(***************************************************************************)
(* The scheduler implements ProcessLife.  StageOf reads the stage of a     *)
(* process off the sets of the scheduler; Edge says what a step may do to  *)
(* these sets, and each action is shown to do no more.                     *)
(***************************************************************************)
\* What the refinement mapping needs of a state, also of a machine that has stopped: the
\* CPU runs a listed process and all others that have a place are live.
StageInv ==
    /\ TypeOK /\ OnePlace /\ NeverLost /\ Born
    /\ Placed \subseteq Listed /\ Placed \ OnCpu \subseteq Live

\* The stage of a process, read off the sets of the scheduler.
StageFacts ==
    \A p \in Pid :
        /\ StageOf(p) = "unborn" <=> p > id_generator
        /\ StageOf(p) = "running" <=> p = current
        /\ StageOf(p) = "ready" <=> p \in ToSet(thread_queue)
        /\ StageOf(p) = "asleep" <=> p \in Placed \ (OnCpu \cup ToSet(thread_queue))
        /\ StageOf(p) = "zombie" <=> p \in Listed \ (Live \cup OnCpu)
        /\ StageOf(p) = "gone" <=> p \in 1..id_generator \ Listed
        /\ StageOf(p) \in Life!Stage

\* The guards of StageOf exclude each other.
LEMMA StageMeaning == StageInv => StageFacts
<1> SUFFICES ASSUME StageInv, NEW p \in Pid
             PROVE  /\ StageOf(p) = "unborn" <=> p > id_generator
                    /\ StageOf(p) = "running" <=> p = current
                    /\ StageOf(p) = "ready" <=> p \in ToSet(thread_queue)
                    /\ StageOf(p) = "asleep" <=> p \in Placed \ (OnCpu \cup ToSet(thread_queue))
                    /\ StageOf(p) = "zombie" <=> p \in Listed \ (Live \cup OnCpu)
                    /\ StageOf(p) = "gone" <=> p \in 1..id_generator \ Listed
                    /\ StageOf(p) \in Life!Stage
  BY DEF StageFacts
<1>1. p > id_generator <=> p \notin 1..id_generator
  <2>1. id_generator \in 1..MaxPid /\ p \in 1..MaxPid
    BY DEF StageInv, TypeOK, Pid
  <2> QED BY <2>1, MaxPidAssumption
<1>2. p = current <=> p \in OnCpu
  BY DEF OnCpu, Idle, Pid
<1>3. /\ Placed \subseteq Listed /\ Listed \subseteq 1..id_generator
      /\ Live \subseteq Placed /\ Placed \ OnCpu \subseteq Live /\ Live \subseteq Listed
      /\ OnCpu \cap ToSet(thread_queue) = {} /\ OnCpu \subseteq Placed
      /\ ToSet(thread_queue) \subseteq Placed
  BY DEF StageInv, NeverLost, Born, OnePlace, Placed, Live
<1> QED BY <1>1, <1>2, <1>3 DEF StageOf, Life!Stage

\* What one step may do to the sets behind the stages of one process.
Edge(p) ==
    /\ p > id_generator => p > id_generator' \/ p \in ToSet(thread_queue')
    /\ p \in ToSet(thread_queue) => p \in ToSet(thread_queue') \cup OnCpu'
    /\ p \in OnCpu => p \in Listed'
    /\ p \in Placed \ OnCpu => p \in Placed'
    /\ p \in Listed \ (Live \cup OnCpu) => p \in 1..id_generator' \ (Live' \cup OnCpu')
    /\ p \in 1..id_generator \ Listed => p \in 1..id_generator' \ Listed'

\* What an edge between two stages is.
LEMMA LegalPair ==
    ASSUME NEW a \in Life!Stage, NEW b,
           a = "unborn" => b \in {"unborn", "ready"},
           a = "ready" => b \in {"ready", "running"},
           a = "running" => b \in {"running", "ready", "asleep", "zombie"},
           a = "asleep" => b \in {"asleep", "ready", "running"},
           a = "zombie" => b \in {"zombie", "gone"},
           a = "gone" => b = "gone"
    PROVE  <<a, b>> \in Life!Legal
  BY DEF Life!Stage, Life!Legal

\* A step along such edges, with births in order and a CPU that idles only when the
\* ready queue is empty, is a step of the abstract life.
LEMMA EdgesAreSteps ==
    ASSUME StageInv, StageInv', \A p \in Pid : Edge(p),
           \A p \in Pid : p > id_generator /\ ~(p > id_generator') =>
               p = id_generator + 1 /\ \A q \in Pid \ {p} : StageOf(q) = StageOf(q)',
           current' = Idle /\ current # Idle => ToSet(thread_queue') = {}
    PROVE  Life!LifeStep
<1>1. StageFacts /\ StageFacts'
  <2>1. StageInv' => StageFacts'
    BY StageMeaning, PTL
  <2> QED BY <2>1, StageMeaning
<1>2. /\ OnCpu = {current} \ {Idle} /\ OnCpu' = {current'} \ {Idle} /\ Idle \notin Pid
  BY DEF OnCpu, Idle, Pid
<1>3. /\ Placed' \ OnCpu' \subseteq Live' /\ Live' \subseteq Listed'
      /\ Listed' \subseteq 1..id_generator' /\ Live' \subseteq Placed'
      /\ OnCpu' \subseteq Placed' /\ ToSet(thread_queue)' \subseteq Placed'
  BY DEF StageInv, Live, Born, NeverLost, Placed
<1>4. ASSUME NEW p \in Pid PROVE <<StageOf(p), StageOf(p)'>> \in Life!Legal
  <2>1. StageOf(p) \in Life!Stage /\ StageOf(p)' \in Life!Stage
    BY <1>1 DEF StageFacts
  <2>2. Edge(p)
    OBVIOUS
  <2>3. ~(p > id_generator') <=> p \in 1..id_generator'
    BY MaxPidAssumption DEF StageInv, TypeOK, Pid
  <2>4. StageOf(p) = "unborn" => StageOf(p)' \in {"unborn", "ready"}
    BY <1>1, <2>2 DEF StageFacts, Edge
  <2>5. StageOf(p) = "ready" => StageOf(p)' \in {"ready", "running"}
    BY <1>1, <1>2, <2>2 DEF StageFacts, Edge
  <2>6. StageOf(p) = "running" => StageOf(p)' \in {"running", "ready", "asleep", "zombie"}
    <3>1. StageOf(p) = "running" => p \in Listed' /\ p \in 1..id_generator'
      BY <1>1, <1>2, <1>3, <2>2 DEF StageFacts, Edge
    <3> QED BY <1>1, <2>1, <2>3, <3>1 DEF StageFacts, Life!Stage
  <2>7. StageOf(p) = "asleep" => StageOf(p)' \in {"asleep", "ready", "running"}
    <3>1. StageOf(p) = "asleep" => p \in Placed'
      BY <1>1, <2>2 DEF StageFacts, Edge
    <3> QED BY <1>1, <1>2, <1>3, <3>1 DEF StageFacts
  <2>8. StageOf(p) = "zombie" => StageOf(p)' \in {"zombie", "gone"}
    BY <1>1, <2>2 DEF StageFacts, Edge
  <2>9. StageOf(p) = "gone" => StageOf(p)' = "gone"
    BY <1>1, <2>2 DEF StageFacts, Edge
  <2> QED BY <2>1, <2>4, <2>5, <2>6, <2>7, <2>8, <2>9, LegalPair
<1> DEFINE st == [p \in Pid |-> StageOf(p)]
           st1 == [p \in Pid |-> StageOf(p)']
<1>5. st1 \in [Pid -> Life!Stage]
  BY <1>1 DEF StageFacts
<1>6. \A p \in Pid : <<st[p], st1[p]>> \in Life!Legal
  BY <1>4
<1>7. \A p \in Pid : st[p] = "unborn" /\ st1[p] # "unborn" =>
          \A q \in Pid \ {p} : st[q] = st1[q] /\ (q < p <=> st[q] # "unborn")
  <2> SUFFICES ASSUME NEW p \in Pid, StageOf(p) = "unborn", StageOf(p)' # "unborn",
                      NEW q \in Pid \ {p}
               PROVE  StageOf(q) = StageOf(q)' /\ (q < p <=> StageOf(q) # "unborn")
    OBVIOUS
  <2>1. p = id_generator + 1 /\ StageOf(q) = StageOf(q)'
    BY <1>1 DEF StageFacts
  <2>2. StageOf(q) = "unborn" <=> q > id_generator
    BY <1>1 DEF StageFacts
  <2>3. id_generator \in 1..MaxPid /\ p \in 1..MaxPid /\ q \in 1..MaxPid /\ p # q
    BY DEF StageInv, TypeOK, Pid
  <2>4. q < p <=> ~(q > id_generator)
    BY <2>1, <2>3, MaxPidAssumption
  <2> QED BY <2>1, <2>2, <2>4
<1>8. \A p, q \in Life!Running(st1) : p = q
  BY <1>1 DEF StageFacts, Life!Running
<1>9. Life!Running(st) # {} /\ Life!Running(st1) = {} => \A p \in Pid : st1[p] # "ready"
  <2> SUFFICES ASSUME NEW r \in Pid, StageOf(r) = "running",
                      \A p \in Pid : StageOf(p)' # "running", NEW p \in Pid
               PROVE  StageOf(p)' # "ready"
    BY DEF Life!Running
  <2>1. current # Idle
    BY <1>1, <1>2 DEF StageFacts
  <2>2. current' \in Pid \cup {Idle}
    BY DEF StageInv, TypeOK
  <2>3. current' = Idle
    BY <1>1, <2>2 DEF StageFacts
  <2> QED BY <1>1, <2>1, <2>3 DEF StageFacts
<1> QED BY <1>5, <1>6, <1>7, <1>8, <1>9 DEF Life!LifeStep

\* In a running machine the invariant gives all that the mapping needs.
LEMMA RunningStage ==
    /\ IndInv /\ machine = "running" => StageInv
    /\ (IndInv /\ machine = "running")' => StageInv'
<1>1. IndInv /\ machine = "running" => StageInv
  BY DEF IndInv, StageInv, NoDangling, Live
<1> QED BY <1>1, PTL

\* A step that creates, finishes and deletes nobody, and takes a process from the ready
\* queue only to run it.
LEMMA MoveLife ==
    ASSUME IndInv, machine = "running", IndInv', machine' = "running", UNCHANGED lifeVars,
           \A p \in Pid : FINISHED \in flags'[p] <=> FINISHED \in flags[p],
           ToSet(thread_queue) \subseteq ToSet(thread_queue') \cup OnCpu',
           current' = Idle /\ current # Idle => ToSet(thread_queue') = {}
    PROVE  Life!LifeStep
<1>1. StageInv /\ StageInv'
  BY RunningStage
<1>2. Listed' = Listed /\ Live' = Live /\ id_generator' = id_generator
  BY SameLives DEF lifeVars
<1>3. Placed = Live /\ Placed' = Live' /\ Live \subseteq Listed /\ OnCpu \subseteq Placed
      /\ OnCpu' \subseteq Placed' /\ Listed \subseteq 1..id_generator
  BY DEF IndInv, NoDangling, NeverLost, Live, Placed, Born
<1>4. \A p \in Pid : Edge(p)
  BY <1>2, <1>3 DEF Edge
<1> QED BY <1>1, <1>2, <1>4, EdgesAreSteps

\* A step that ends in schedule() and finishes nobody.
LEMMA ScheduleLife ==
    ASSUME IndInv, machine = "running", IndInv', machine' = "running", UNCHANGED lifeVars,
           NEW sl \in BOOLEAN, NEW tq \in Seq(Pid), NEW fl \in [Pid -> SUBSET Flag],
           IsInjective(tq), current \notin ToSet(tq), schedule(sl, tq, fl),
           ToSet(thread_queue) \subseteq ToSet(tq),
           \A p \in Pid : FINISHED \in fl[p] <=> FINISHED \in flags[p]
    PROVE  Life!LifeStep
<1>1. current \in Pid \cup {Idle}
  BY DEF IndInv, TypeOK
<1>2. /\ ToSet(thread_queue') \cup OnCpu' = Taken(sl, tq)
      /\ \A p \in Pid : FINISHED \in flags'[p] <=> FINISHED \in fl[p]
  BY <1>1, ScheduleFacts
<1>3. current' = Idle => ToSet(thread_queue') = {}
  <2> DEFINE q == IF current = Idle \/ sl THEN tq ELSE Append(tq, current)
  <2>1. q \in Seq(Pid)
    BY <1>1
  <2>2. \/ thread_queue' = <<>>
        \/ q # <<>> /\ current' = Head(q)
    BY DEF schedule, schedule_process
  <2> HIDE DEF q
  <2>3. q # <<>> => Head(q) \in Pid
    BY <2>1
  <2> QED BY <2>2, <2>3 DEF ToSet, Idle, Pid
<1> QED BY <1>2, <1>3, MoveLife DEF Taken

\* A step that leaves CPU, queues and flags as they are does not show.
LEMMA FrameLife ==
    ASSUME UNCHANGED <<current, thread_queue, flags, id_generator, process_list>>
    PROVE  \A p \in Pid : StageOf(p)' = StageOf(p)
  BY DEF StageOf, Listed, Live, OnCpu

\* Which sets of processes include which, in a running machine.
LEMMA SetFacts ==
    ASSUME IndInv, machine = "running"
    PROVE  /\ Listed \subseteq Pid /\ Listed \subseteq 1..id_generator /\ Live \subseteq Listed
           /\ Placed = Live /\ OnCpu \subseteq Live /\ ToSet(thread_queue) \subseteq Live
<1>1. Listed \subseteq Pid
  BY DEF IndInv, TypeOK, Listed, ToSet
<1>2. Listed \subseteq 1..id_generator
  BY DEF IndInv, Born
<1>3. Placed = Live
  BY DEF IndInv, NoDangling, NeverLost
<1> QED BY <1>1, <1>2, <1>3 DEF Live, Placed

\* fork is a birth: the child becomes ready, everyone else stays.
LEMMA ForkLife == ASSUME IndInv, IndInv', process_fork PROVE Life!LifeStep
<1> DEFINE child == id_generator + 1
<1>1. /\ InUser /\ id_generator < MaxPid /\ id_generator' = child
      /\ flags' = [flags EXCEPT ![child] = flags[current] \ {ON_CPU}]
      /\ process_list' = Append(process_list, child)
      /\ thread_queue' = Append(thread_queue, child)
      /\ UNCHANGED <<current, sleeping_queue, waiting, pc, machine>>
  BY DEF process_fork
<1>2. /\ child \in Pid /\ child \notin 1..id_generator
      /\ 1..child = 1..id_generator \cup {child}
      /\ \A p \in Pid \ {child} : p > child <=> p > id_generator
      /\ \A p \in Pid : p > id_generator /\ ~(p > child) => p = child
  <2>1. id_generator \in 1..MaxPid
    BY DEF IndInv, TypeOK, Pid
  <2> QED BY <1>1, <2>1, MaxPidAssumption DEF Pid
<1>3. FINISHED \notin flags[current] /\ current \in Pid /\ machine = "running"
  BY <1>1, CallerFacts DEF InUser
<1>4. /\ child \notin Listed /\ Listed \subseteq Pid /\ Listed \subseteq 1..id_generator
      /\ OnCpu \subseteq Live /\ Live \subseteq Listed
  BY <1>2, <1>3, SetFacts
<1> HIDE DEF child
<1>5. ToSet(thread_queue') = ToSet(thread_queue) \cup {child} /\ Listed' = Listed \cup {child}
  <2>1. thread_queue \in Seq(Pid) /\ process_list \in Seq(Pid)
    BY DEF IndInv, TypeOK
  <2> QED BY <1>1, <1>2, <2>1, AppendFacts DEF Listed
<1>6. Live' = Live \cup {child}
  <2>1. flags'[child] = flags[current] \ {ON_CPU} /\ \A p \in Pid \ {child} : flags'[p] = flags[p]
    BY <1>1, <1>2 DEF IndInv, TypeOK
  <2>2. FINISHED \notin flags'[child] /\ \A p \in Listed : flags'[p] = flags[p]
    BY <1>3, <1>4, <2>1
  <2> QED BY <1>5, <2>2 DEF Live
<1>7. OnCpu' = OnCpu /\ Placed \subseteq Placed'
  BY <1>1, <1>5 DEF OnCpu, Placed, Blocked
<1>8. \A p \in Pid : Edge(p)
  <2> TAKE p \in Pid
  <2>1. p \in Listed => p # child
    BY <1>4
  <2> QED BY <1>1, <1>2, <1>4, <1>5, <1>6, <1>7, <2>1 DEF Edge
<1>9. \A q \in Pid \ {child} : StageOf(q) = StageOf(q)'
  BY <1>1, <1>2, <1>5, <1>6, <1>7 DEF StageOf
<1>10. StageInv /\ StageInv'
  BY <1>1, <1>3, RunningStage
<1>11. current # Idle
  BY <1>3 DEF Idle, Pid
<1>12. \A p \in Pid : p > id_generator /\ ~(p > id_generator') =>
           p = id_generator + 1 /\ \A q \in Pid \ {p} : StageOf(q) = StageOf(q)'
  BY <1>1, <1>2, <1>9 DEF child
<1> QED BY <1>1, <1>8, <1>10, <1>11, <1>12, EdgesAreSteps

\* An exit takes the caller from the CPU to the zombies; when the exit path faults, the
\* machine stops with the caller on the CPU.
LEMMA ExitLife ==
    ASSUME IndInv, IndInv', process_thread_exit \/ process_exit
    PROVE  Life!LifeStep \/ \A p \in Pid : StageOf(p)' = StageOf(p)
<1> DEFINE fl == [flags EXCEPT ![current] = {FINISHED}]
<1>1. /\ InUser /\ UNCHANGED <<sleeping_queue, waiting, pc, lifeVars>>
      /\ \/ schedule(TRUE, thread_queue, fl) /\ machine' = machine
         \/ flags' = fl /\ UNCHANGED <<current, thread_queue>>
  BY DEF process_thread_exit, process_exit, Finish
<1>2. /\ current \in Pid /\ OnCpu = {current} /\ machine = "running"
      /\ current \notin ToSet(thread_queue) /\ current # Idle
  BY <1>1, CallerFacts DEF InUser
<1>3. /\ fl \in [Pid -> SUBSET Flag] /\ FINISHED \in fl[current]
      /\ \A p \in Pid \ {current} : fl[p] = flags[p]
  BY <1>2 DEF IndInv, TypeOK, Flag
<1> HIDE DEF fl
<1>4. /\ Listed' = Listed /\ id_generator' = id_generator /\ Listed \subseteq Pid
      /\ Listed \subseteq 1..id_generator /\ Live \subseteq Listed /\ Placed = Live
      /\ Blocked' = Blocked
  <2>1. Listed' = Listed /\ id_generator' = id_generator /\ Blocked' = Blocked
    BY <1>1 DEF Listed, Blocked, lifeVars
  <2> QED BY <1>2, <2>1, SetFacts
<1>5. CASE schedule(TRUE, thread_queue, fl) /\ machine' = machine
  <2>1. /\ thread_queue \in Seq(Pid) /\ IsInjective(thread_queue)
        /\ current \in Pid \cup {Idle}
    BY <1>2 DEF IndInv, TypeOK, OnePlace
  <2>2. /\ ToSet(thread_queue') \cup OnCpu' = ToSet(thread_queue)
        /\ \A p \in Pid : FINISHED \in flags'[p] <=> FINISHED \in fl[p]
    BY <1>2, <1>3, <1>5, <2>1, ScheduleFacts DEF Taken
  <2>3. current' = Idle => ToSet(thread_queue') = {}
    <3>1. \/ thread_queue' = <<>>
          \/ thread_queue # <<>> /\ current' = Head(thread_queue)
      BY <1>5 DEF schedule
    <3>2. thread_queue # <<>> => Head(thread_queue) \in Pid
      BY <2>1
    <3> QED BY <3>1, <3>2 DEF ToSet, Idle, Pid
  <2>4. Live' = Live \ {current}
    <3>1. \A p \in Pid : FINISHED \in flags'[p] <=> FINISHED \in flags[p] \/ p = current
      BY <1>2, <1>3, <2>2
    <3> QED BY <1>4, <3>1 DEF Live
  <2>5. Placed \ OnCpu \subseteq Placed' /\ OnCpu' \subseteq Live
    BY <1>1, <1>4, <2>2 DEF Placed
  <2>6. \A p \in Pid : Edge(p)
    BY <1>2, <1>4, <2>2, <2>4, <2>5 DEF Edge, Placed
  <2>7. StageInv /\ StageInv'
    BY <1>2, <1>5, RunningStage
  <2> QED BY <1>4, <2>3, <2>6, <2>7, EdgesAreSteps
<1>6. CASE flags' = fl /\ UNCHANGED <<current, thread_queue>>
  <2>1. Live' = Live \ {current} /\ OnCpu' = OnCpu
    <3>1. \A p \in Pid : FINISHED \in flags'[p] <=> FINISHED \in flags[p] \/ p = current
      BY <1>2, <1>3, <1>6
    <3> QED BY <1>4, <1>6, <3>1 DEF Live, OnCpu
  <2>2. \A p \in Pid : StageOf(p)' = StageOf(p)
    BY <1>2, <1>4, <1>6, <2>1 DEF StageOf
  <2> QED BY <2>2
<1> QED BY <1>1, <1>5, <1>6

\* process_reap makes a zombie disappear.
LEMMA ReapLife ==
    ASSUME BookInv, IndInv', NEW pid \in -MaxPid..MaxPid, Wait4Reap(pid)
    PROVE  Life!LifeStep
<1>1. PICK q \in Pid : process_reap(q)
  BY DEF Wait4Reap
<1>2. /\ InUser
      /\ UNCHANGED <<current, thread_queue, sleeping_queue, waiting, flags, pc, id_generator,
                     machine>>
  BY DEF Wait4Reap
<1>3. FINISHED \in flags[q] /\ IndInv /\ machine = "running"
  BY <1>1, <1>2 DEF process_reap, BookInv, InUser
<1>4. Listed' \subseteq Listed /\ Listed \subseteq Listed' \cup {q}
  <2>1. process_list \in Seq(Pid) /\ IsInjective(process_list)
    BY DEF BookInv, IndInv, TypeOK, BooksAgree, ListAgreesWithTree
  <2>2. CASE q \in ToSet(process_list)
    <3>1. process_list' = list_remove_by_index(process_list, Position(process_list, q))
      BY <1>1, <2>2 DEF process_reap
    <3>2. process_list' = RemoveAt(process_list, Position(process_list, q))
      BY <2>1, <2>2, <3>1, DeleteFacts, RemoveByIndexFacts
    <3> QED BY <2>1, <2>2, <3>2, DeleteFacts DEF Listed
  <2>3. CASE q \notin ToSet(process_list)
    BY <1>1, <2>3 DEF process_reap, Listed
  <2> QED BY <2>2, <2>3
<1>5. Live' = Live /\ OnCpu' = OnCpu /\ Placed' = Placed
  BY <1>2, <1>3, <1>4 DEF Live, OnCpu, Placed, Blocked
<1>6. /\ Listed \subseteq 1..id_generator /\ Live \subseteq Listed /\ Placed = Live
      /\ Live \subseteq Listed' /\ OnCpu \subseteq Placed /\ ToSet(thread_queue) \subseteq Placed
  <2>1. Live' \subseteq Listed'
    BY DEF Live
  <2> QED BY <1>3, <1>5, <2>1, SetFacts DEF Placed
<1>7. \A p \in Pid : Edge(p)
  BY <1>2, <1>4, <1>5, <1>6 DEF Edge
<1>8. StageInv /\ StageInv'
  BY <1>2, <1>3, RunningStage
<1> QED BY <1>2, <1>7, <1>8, EdgesAreSteps

\* Every step of the kernel is a step of the abstract life, or does not show in it.
LEMMA StepLife ==
    BookInv /\ [Next]_vars => Life!LifeStep \/ \A p \in Pid : StageOf(p)' = StageOf(p)
<1> SUFFICES ASSUME BookInv, [Next]_vars
             PROVE  Life!LifeStep \/ \A p \in Pid : StageOf(p)' = StageOf(p)
  OBVIOUS
<1>0. IndInv /\ IndInv'
  BY NextInv DEF BookInv
<1>a. ASSUME machine = "running", machine' = machine, UNCHANGED lifeVars,
             schedule(FALSE, thread_queue, flags)
      PROVE  Life!LifeStep
  BY <1>0, <1>a, BookFacts, ScheduleLife
<1>b. ASSUME InUser, machine' = machine, UNCHANGED lifeVars, NEW t, NEW cont, sleep(t, cont)
      PROVE  Life!LifeStep
  <2> DEFINE fl == [flags EXCEPT ![current] = (@ \cup {SLEEP}) \ {ON_CPU}]
  <2>1. \E sl \in BOOLEAN : schedule(sl, thread_queue, fl)
    BY <1>b DEF sleep, spin_lock
  <2>2. machine = "running" /\ current \in Pid
    BY <1>b DEF InUser
  <2>3. /\ fl \in [Pid -> SUBSET Flag]
        /\ \A p \in Pid : FINISHED \in fl[p] <=> FINISHED \in flags[p]
    BY <2>2, BookFacts
  <2> HIDE DEF fl
  <2> QED BY <1>0, <1>b, <2>1, <2>2, <2>3, BookFacts, ScheduleLife
<1>1. CASE Spin \/ sys_yield \/ idle
  BY <1>1, <1>a DEF Spin, sys_yield, idle, spin_lock, InUser
<1>2. CASE TickInKernel \/ FutexWaitReturn \/ InitExit \/ UNCHANGED vars
  <2>1. UNCHANGED <<current, thread_queue, flags, id_generator, process_list>>
    BY <1>2 DEF TickInKernel, FutexWaitReturn, InitExit, vars, lifeVars
  <2> QED BY <2>1, FrameLife
<1>3. CASE TickInUser
  <2>0. machine = "running" /\ machine' = machine /\ UNCHANGED lifeVars
    BY <1>3 DEF TickInUser, InUser
  <2>1. CASE schedule(FALSE, thread_queue, flags)
    BY <1>a, <2>0, <2>1
  <2>2. ASSUME NEW i \in DOMAIN sleeping_queue,
               LET woken == schedule_process(thread_queue, flags, sleeping_queue[i])
               IN  schedule(FALSE, woken[1], woken[2])
        PROVE  Life!LifeStep
    <3> DEFINE x == sleeping_queue[i]
               tq == Append(thread_queue, x)
               fl == [flags EXCEPT ![x] = @ \ {SLEEP}]
    <3>1. x \in Pid /\ x \in ToSet(sleeping_queue) /\ x # current /\ x \notin ToSet(thread_queue)
      <4>1. x \in Pid /\ x \in ToSet(sleeping_queue)
        BY BookFacts DEF ToSet
      <4> QED BY <4>1, BookFacts DEF BookInv, IndInv, OnePlace
    <3>2. schedule(FALSE, tq, fl)
      BY <2>2 DEF schedule_process
    <3>3. /\ tq \in Seq(Pid) /\ IsInjective(tq) /\ current \notin ToSet(tq)
          /\ ToSet(thread_queue) \subseteq ToSet(tq)
      BY <3>1, BookFacts, AppendFacts
    <3>4. /\ fl \in [Pid -> SUBSET Flag]
          /\ \A p \in Pid : FINISHED \in fl[p] <=> FINISHED \in flags[p]
      BY <3>1, BookFacts
    <3> HIDE DEF x, tq, fl
    <3> QED BY <1>0, <2>0, <3>2, <3>3, <3>4, ScheduleLife
  <2> QED BY <1>3, <2>1, <2>2 DEF TickInUser, wakeup_sleeping, spin_lock
<1>4. CASE sys_nanosleep
  <2>1. PICK t \in 1..MaxSleep : sleep(t, "user")
    BY <1>4 DEF sys_nanosleep
  <2> QED BY <1>4, <1>b, <2>1 DEF sys_nanosleep
<1>5. ASSUME NEW f \in Futex, FutexWait(f) PROVE Life!LifeStep
  <2>1. PICK t \in 1..MaxSleep : sleep(t, "futex")
    BY <1>5 DEF FutexWait
  <2> QED BY <1>5, <1>b, <2>1 DEF FutexWait
<1>6. ASSUME NEW f \in Futex, FutexWake(f)
      PROVE  Life!LifeStep \/ \A p \in Pid : StageOf(p)' = StageOf(p)
  <2>1. CASE spin_lock(flags)
    BY <1>6, <1>a, <2>1 DEF FutexWake, spin_lock, InUser
  <2>2. CASE UNCHANGED <<current, thread_queue, flags, pc>>
    BY <1>6, <2>2, FrameLife DEF FutexWake, lifeVars
  <2> QED BY <1>6, <2>1, <2>2 DEF FutexWake, wakeup_now
<1>7. CASE wait_for_object
  <2> DEFINE fl == [flags EXCEPT ![current] = @ \cup {SLEEP}]
  <2>1. /\ machine = "running" /\ current \in Pid /\ schedule(TRUE, thread_queue, fl)
        /\ machine' = machine /\ UNCHANGED lifeVars
    BY <1>7 DEF wait_for_object, InUser
  <2>2. /\ fl \in [Pid -> SUBSET Flag]
        /\ \A p \in Pid : FINISHED \in fl[p] <=> FINISHED \in flags[p]
    BY <2>1, BookFacts
  <2> HIDE DEF fl
  <2> QED BY <1>0, <2>1, <2>2, BookFacts, ScheduleLife
<1>8. CASE wakeup_waiting
  <2>1. /\ machine = "running" /\ machine' = machine /\ UNCHANGED <<lifeVars, current>>
        /\ thread_queue' = thread_queue \o waiting
        /\ flags' = [p \in Pid |-> IF p \in ToSet(waiting) THEN flags[p] \ {SLEEP} ELSE flags[p]]
    BY <1>8 DEF wakeup_waiting
  <2>2. ToSet(thread_queue) \subseteq ToSet(thread_queue')
    BY <2>1, BookFacts, ConcatFacts
  <2>3. \A p \in Pid : FINISHED \in flags'[p] <=> FINISHED \in flags[p]
    BY <2>1, BookFacts
  <2> QED BY <1>0, <2>1, <2>2, <2>3, MoveLife
<1>9. CASE process_fork
  BY <1>0, <1>9, ForkLife
<1>10. CASE process_thread_exit \/ process_exit
  BY <1>0, <1>10, ExitLife
<1>11. CASE sys_wait4
  <2>1. ASSUME NEW pid \in -MaxPid..MaxPid, Wait4Block(pid) PROVE Life!LifeStep
    <3>1. /\ machine = "running" /\ schedule(TRUE, thread_queue, flags)
          /\ machine' = machine /\ UNCHANGED lifeVars
      BY <2>1 DEF Wait4Block, InUser
    <3> QED BY <1>0, <3>1, BookFacts, ScheduleLife
  <2>2. CASE Wait4Orphan
    BY <2>2, FrameLife DEF Wait4Orphan, lifeVars
  <2> QED BY <1>0, <1>11, <2>1, <2>2, ReapLife DEF sys_wait4
<1> QED BY <1>1, <1>2, <1>3, <1>4, <1>5, <1>6, <1>7, <1>8, <1>9, <1>10, <1>11 DEF Next

\* For any number of processes: the scheduler implements the abstract life of a process.
\* Every stretch of kernel code moves each process along a legal edge, ids are born in
\* order, and the CPU is given up only when nobody is ready.
THEOREM LifeRefinement == Spec => ImplementsLife
<1>1. Init => Life!LifeInit
  <2> SUFFICES ASSUME Init, NEW p \in Pid
               PROVE  StageOf(p) = IF p = 1 THEN "running" ELSE "unborn"
    BY DEF Life!LifeInit
  <2>1. p \in 1..MaxPid /\ id_generator = 1 /\ current = 1
    BY DEF Pid, Init, InitProc
  <2>2. StageFacts
    BY InitInv, RunningStage, StageMeaning DEF Init
  <2> QED BY <2>1, <2>2 DEF StageFacts
<1>2. BookInv /\ [Next]_vars => [Life!LifeStep]_([p \in Pid |-> StageOf(p)])
  BY StepLife
<1>3. Spec => []BookInv
  BY InitBooks, NextBooks, PTL DEF Spec
<1> QED BY <1>1, <1>2, <1>3, PTL DEF Spec, ImplementsLife, Life!LifeSpec
=============================================================================
