---------------------------- MODULE Signals_proof ----------------------------
(***************************************************************************)
(* Proofs about signals, for every set of processes and signals, every     *)
(* timeout and every split of the signals into handled, terminating and    *)
(* stopping ones.  QueuesOK is inductive as it stands, and so is           *)
(* LockReleased next to the types: each says of one process what the       *)
(* process alone can change, and process_check_signals only ever acts on   *)
(* the process that is on the CPU.                                         *)
(***************************************************************************)
EXTENDS Signals, SequenceTheorems, FiniteSetTheorems, TLAPS

-----------------------------------------------------------------------------
\* What the operators that model list_t do to the set of the elements of a list and to
\* the absence of duplicates.

\* Appending an element: what ready queues, sleeping queue and wait list do on insert.
LEMMA AppendFacts ==
    ASSUME NEW S, NEW s \in Seq(S), NEW x \in S
    PROVE  /\ Append(s, x) \in Seq(S)
           /\ ToSet(Append(s, x)) = ToSet(s) \cup {x}
           /\ IsInjective(s) /\ x \notin ToSet(s) => IsInjective(Append(s, x))
<1>1. Append(s, x) \in Seq(S)
  OBVIOUS
<1>2. ToSet(Append(s, x)) = ToSet(s) \cup {x}
  <2>1. \A i \in DOMAIN s : Append(s, x)[i] = s[i]
    OBVIOUS
  <2>2. DOMAIN Append(s, x) = DOMAIN s \cup {Len(s) + 1} /\ Append(s, x)[Len(s) + 1] = x
    OBVIOUS
  <2> QED BY <2>1, <2>2 DEF ToSet
<1>3. IsInjective(s) /\ x \notin ToSet(s) => IsInjective(Append(s, x))
  BY DEF IsInjective, ToSet
<1> QED BY <1>1, <1>2, <1>3

\* Taking the head off a duplicate-free queue.
LEMMA TailFacts ==
    ASSUME NEW S, NEW s \in Seq(S), s # <<>>
    PROVE  /\ Tail(s) \in Seq(S)
           /\ Head(s) \in S
           /\ ToSet(s) = ToSet(Tail(s)) \cup {Head(s)}
           /\ IsInjective(s) => IsInjective(Tail(s)) /\ Head(s) \notin ToSet(Tail(s))
<1>1. Tail(s) \in Seq(S) /\ Head(s) \in S /\ Len(s) > 0
  OBVIOUS
<1>2. DOMAIN Tail(s) = 1..(Len(s) - 1) /\ DOMAIN s = 1..Len(s) /\ Head(s) = s[1]
  BY <1>1
<1>3. \A i \in DOMAIN Tail(s) : Tail(s)[i] = s[i + 1]
  BY <1>1
<1>4. ToSet(s) = ToSet(Tail(s)) \cup {Head(s)}
  <2>1. \A i \in DOMAIN s : s[i] \in ToSet(Tail(s)) \cup {Head(s)}
    <3> TAKE i \in DOMAIN s
    <3>1. CASE i = 1 BY <1>2, <3>1
    <3>2. CASE i # 1
      <4>1. i - 1 \in DOMAIN Tail(s) /\ Tail(s)[i - 1] = s[i]
        BY <1>1, <1>2, <1>3, <3>2
      <4> QED BY <4>1 DEF ToSet
    <3> QED BY <3>1, <3>2
  <2>2. \A i \in DOMAIN Tail(s) : Tail(s)[i] \in ToSet(s)
    BY <1>1, <1>2, <1>3 DEF ToSet
  <2>3. Head(s) \in ToSet(s)
    BY <1>1, <1>2 DEF ToSet
  <2> QED BY <2>1, <2>2, <2>3 DEF ToSet
<1>5. IsInjective(s) => IsInjective(Tail(s)) /\ Head(s) \notin ToSet(Tail(s))
  BY <1>1, <1>2, <1>3 DEF IsInjective, ToSet
<1> QED BY <1>1, <1>4, <1>5

-----------------------------------------------------------------------------
Mode == {"user", "tick", "poll", "action", "return", "spin", "stopped", "finished"}
Gone == {"stopped", "finished"}
SigState == [pending : SUBSET Signal, blocked : SUBSET Signal,
             handlers : SUBSET (Handled \ {32})]

\* Where processes are, while the machine runs.
Places ==
    /\ Ready = {p \in Process : mode[p] \notin Gone}
    /\ IsInjective(thread_queue) /\ current \notin ToSet(thread_queue)

\* schedule() queues the outgoing process again, or leaves it out, and nothing else.
LEMMA ScheduleFacts ==
    ASSUME NEW sleep \in BOOLEAN, NEW flag \in BOOLEAN, TypeOK,
           IsInjective(thread_queue), current \notin ToSet(thread_queue),
           schedule(sleep, flag)
    PROVE  /\ current' \in Process \cup {Idle} /\ thread_queue' \in Seq(Process)
           /\ interrupts' \in BOOLEAN
           /\ IsInjective(thread_queue') /\ current' \notin ToSet(thread_queue')
           /\ Ready' = IF sleep THEN Ready \ {current} ELSE Ready
<1> DEFINE q == IF sleep \/ current = Idle THEN thread_queue ELSE Append(thread_queue, current)
<1>0. Idle \notin Process /\ current \in Process \cup {Idle} /\ thread_queue \in Seq(Process)
  BY SignalsAssumption DEF Idle, TypeOK
<1>1. q \in Seq(Process) /\ IsInjective(q)
      /\ ToSet(q) = IF sleep THEN Ready \ {current} ELSE Ready
  <2>1. ToSet(thread_queue) \subseteq Process
    BY <1>0 DEF ToSet
  <2>2. CASE sleep \/ current = Idle
    BY <1>0, <2>1, <2>2 DEF Ready
  <2>3. CASE ~(sleep \/ current = Idle)
    <3>1. /\ q \in Seq(Process) /\ ToSet(q) = ToSet(thread_queue) \cup {current}
          /\ IsInjective(q)
      BY <1>0, <2>3, AppendFacts
    <3> QED BY <1>0, <2>1, <2>3, <3>1 DEF Ready
  <2> QED BY <2>2, <2>3
<1>2. /\ current' = IF q = <<>> THEN Idle ELSE Head(q)
      /\ thread_queue' = IF q = <<>> THEN q ELSE Tail(q)
      /\ interrupts' = (q = <<>> \/ flag)
  BY DEF schedule
<1> HIDE DEF q
<1>3. interrupts' \in BOOLEAN
  BY <1>2
<1>4. CASE q = <<>>
  <2>1. ToSet(q) = {}
    BY <1>4 DEF ToSet
  <2>2. Ready' = {}
    BY <1>0, <1>2, <1>4, <2>1 DEF Ready
  <2> QED BY <1>1, <1>2, <1>3, <1>4, <2>1, <2>2
<1>5. CASE q # <<>>
  <2>1. /\ Tail(q) \in Seq(Process) /\ Head(q) \in Process
        /\ ToSet(q) = ToSet(Tail(q)) \cup {Head(q)}
        /\ IsInjective(Tail(q)) /\ Head(q) \notin ToSet(Tail(q))
    BY <1>1, <1>5, TailFacts
  <2>2. Ready' = ToSet(q)
    <3>1. ToSet(Tail(q)) \subseteq Process
      BY <2>1 DEF ToSet
    <3> QED BY <1>2, <1>5, <2>1, <3>1 DEF Ready
  <2> QED BY <1>1, <1>2, <1>3, <1>5, <2>1, <2>2
<1> QED BY <1>4, <1>5

\* TypeOK and Queued, in the terms of this module.
LEMMA Meaning ==
    /\ TypeOK <=> /\ current \in Process \cup {Idle} /\ thread_queue \in Seq(Process)
                  /\ mode \in [Process -> Mode] /\ left \in [Process -> Nat \cup {-1}]
                  /\ sig \in [Process -> SigState] /\ lock \in [Process -> BOOLEAN]
                  /\ interrupts \in BOOLEAN /\ machine \in {"running", "halted", "corrupt"}
    /\ Queued <=> (machine = "running" => Places)
  BY DEF TypeOK, Mode, SigState, Queued, Places, Gone

\* The process on the CPU is neither stopped nor ended.
LEMMA RunnerFacts ==
    ASSUME QueuesOK, NEW p \in Process, machine = "running", current = p
    PROVE  /\ TypeOK /\ Places /\ p \in Ready /\ mode[p] \notin Gone
           /\ mode \in [Process -> Mode] /\ sig[p] \in SigState
<1>1. TypeOK /\ Places
  BY Meaning DEF QueuesOK
<1> QED BY <1>1, Meaning DEF Places, Ready

\* A step of the process on the CPU that ends in schedule(false) and at which the process
\* neither stops nor ends.
LEMMA SwitchInv ==
    ASSUME QueuesOK, NEW p \in Process, machine = "running", current = p,
           NEW flag \in BOOLEAN, schedule(FALSE, flag),
           NEW m \in Mode \ Gone, mode' = [mode EXCEPT ![p] = m],
           left' \in [Process -> Nat \cup {-1}],
           sig' = sig, lock' = lock, machine' = machine
    PROVE  QueuesOK'
<1>1. TypeOK /\ Places /\ mode[p] \notin Gone /\ mode \in [Process -> Mode]
  BY RunnerFacts
<1>2. /\ current' \in Process \cup {Idle} /\ thread_queue' \in Seq(Process)
      /\ interrupts' \in BOOLEAN
      /\ IsInjective(thread_queue') /\ current' \notin ToSet(thread_queue')
      /\ Ready' = Ready
  BY <1>1, ScheduleFacts DEF Places
<1>3. mode' \in [Process -> Mode]
  BY <1>1
<1>4. {q \in Process : mode'[q] \notin Gone} = {q \in Process : mode[q] \notin Gone}
  BY <1>1
<1>5. Places'
  BY <1>1, <1>2, <1>4 DEF Places
<1>6. TypeOK'
  BY <1>1, <1>2, <1>3 DEF TypeOK, Mode
<1> QED BY <1>5, <1>6 DEF QueuesOK, Queued, Places, Gone

\* A step of the process on the CPU that stays there.
LEMMA StayInv ==
    ASSUME QueuesOK, NEW p \in Process, machine = "running", current = p,
           UNCHANGED <<current, thread_queue>>,
           mode' \in [Process -> Mode], \A q \in Process : mode'[q] \in Gone <=> mode[q] \in Gone,
           left' \in [Process -> Nat \cup {-1}], sig' \in [Process -> SigState],
           lock' \in [Process -> BOOLEAN], interrupts' \in BOOLEAN,
           machine' \in {"running", "halted", "corrupt"}
    PROVE  QueuesOK'
<1>1. TypeOK /\ Places
  BY RunnerFacts
<1>2. Ready' = Ready
  BY DEF Ready
<1>3. TypeOK'
  BY <1>1 DEF TypeOK, Mode, SigState
<1>4. Places'
  BY <1>1, <1>2 DEF Places
<1> QED BY <1>3, <1>4 DEF QueuesOK, Queued, Places, Gone

\* process_check_signals stops or ends the process on the CPU or nobody.
LEMMA CheckInv ==
    ASSUME QueuesOK, NEW p \in Process, machine = "running", current = p,
           NEW to \in Mode \ Gone, NEW flag \in BOOLEAN, NEW s \in SigState,
           process_check_signals(p, to, flag, s), left' \in [Process -> Nat \cup {-1}]
    PROVE  QueuesOK'
<1>1. /\ TypeOK /\ Places /\ p \in Ready /\ mode[p] \notin Gone
      /\ mode \in [Process -> Mode]
  BY RunnerFacts
<1>2. /\ sig \in [Process -> SigState] /\ lock \in [Process -> BOOLEAN]
      /\ interrupts \in BOOLEAN /\ machine \in {"running", "halted", "corrupt"}
  BY <1>1, Meaning
<1>3. \A S : [s EXCEPT !.pending = @ \ S] \in SigState
  BY DEF SigState
<1>4. CASE lock[p]
  <2>1. /\ mode' = [mode EXCEPT ![p] = "spin"] /\ schedule(FALSE, FALSE)
        /\ UNCHANGED <<sig, lock, machine>>
    BY <1>4 DEF process_check_signals
  <2>2. "spin" \in Mode \ Gone
    BY DEF Mode, Gone
  <2> QED BY <2>1, <2>2, SwitchInv
<1>5. CASE ~lock[p] /\ Decisive(s) = {}
  <2>1. /\ sig' = [sig EXCEPT ![p] = [s EXCEPT !.pending = @ \ Deliverable(s)]]
        /\ mode' = [mode EXCEPT ![p] = to] /\ interrupts' = TRUE
        /\ UNCHANGED <<current, thread_queue, lock, machine>>
    BY <1>5 DEF process_check_signals
  <2>2. sig' \in [Process -> SigState]
    BY <1>2, <1>3, <2>1
  <2>3. /\ mode' \in [Process -> Mode]
        /\ \A q \in Process : mode'[q] \in Gone <=> mode[q] \in Gone
    BY <1>1, <2>1
  <2> QED BY <1>2, <2>1, <2>2, <2>3, StayInv
<1>6. CASE ~lock[p] /\ Decisive(s) # {}
  <2> DEFINE n == Min(Decisive(s))
             gone == IF n \in Terminating THEN "finished" ELSE "stopped"
  <2>1. /\ sig' = [sig EXCEPT ![p] = [s EXCEPT !.pending = @ \ Before(s, n)]]
        /\ \/ machine' = "halted" /\ UNCHANGED <<current, thread_queue, mode, lock, interrupts>>
           \/ Leave(p, gone, flag) /\ UNCHANGED machine
    BY <1>6 DEF process_check_signals
  <2>2. gone \in Gone /\ gone \in Mode
    BY DEF Gone, Mode
  <2> HIDE DEF n, gone
  <2>3. sig' \in [Process -> SigState]
    BY <1>2, <1>3, <2>1
  <2>4. CASE machine' = "halted" /\ UNCHANGED <<current, thread_queue, mode, lock, interrupts>>
    BY <1>1, <1>2, <2>3, <2>4, StayInv
  <2>5. CASE Leave(p, gone, flag) /\ UNCHANGED machine
    <3>1. mode' = [mode EXCEPT ![p] = gone] /\ schedule(TRUE, flag) /\ UNCHANGED <<lock, machine>>
      BY <2>5 DEF Leave
    <3>2. /\ current' \in Process \cup {Idle} /\ thread_queue' \in Seq(Process)
          /\ interrupts' \in BOOLEAN
          /\ IsInjective(thread_queue') /\ current' \notin ToSet(thread_queue')
          /\ Ready' = Ready \ {p}
      BY <1>1, <3>1, ScheduleFacts DEF Places
    <3>3. /\ mode' \in [Process -> Mode]
          /\ {q \in Process : mode'[q] \notin Gone}
                 = {q \in Process : mode[q] \notin Gone} \ {p}
      BY <1>1, <2>2, <3>1
    <3>4. Places'
      BY <1>1, <3>2, <3>3 DEF Places
    <3>5. TypeOK'
      BY <1>1, <1>2, <2>3, <3>1, <3>2, <3>3 DEF TypeOK, Mode, SigState
    <3> QED BY <3>4, <3>5 DEF QueuesOK, Queued, Places, Gone
  <2> QED BY <2>1, <2>4, <2>5
<1> QED BY <1>4, <1>5, <1>6

\* The time of poll stays a number of ticks or "none".
LEMMA PassedType == TypeOK => Passed \in [Process -> Nat \cup {-1}]
<1> SUFFICES ASSUME TypeOK, NEW p \in Process
             PROVE  (IF left[p] > 0 THEN left[p] - 1 ELSE left[p]) \in Nat \cup {-1}
  BY DEF Passed
<1>1. left[p] \in Nat \cup {-1}
  BY DEF TypeOK
<1> QED BY <1>1

\* The end of a system call.
LEMMA DoneInv ==
    ASSUME QueuesOK, NEW p \in Process, machine = "running", current = p,
           NEW s \in SigState, Done(p, s)
    PROVE  QueuesOK'
<1>1. left \in [Process -> Nat \cup {-1}] /\ "user" \in Mode \ Gone
  BY DEF QueuesOK, TypeOK, Mode, Gone
<1>2. left' \in [Process -> Nat \cup {-1}] /\ process_check_signals(p, "user", TRUE, s)
  BY <1>1 DEF Done
<1> QED BY <1>1, <1>2, CheckInv

\* What the kernel does in the name of one process.
LEMMA KernelInv == ASSUME QueuesOK, NEW p \in Process, Kernel(p) \/ PollReturns(p) PROVE QueuesOK'
<1>1. machine = "running" /\ current = p
  BY DEF Kernel, AfterTick, PollAgain, Spin, SyscallReturns, PollReturns,
         process_set_signal_handler, Runs
<1>2. /\ TypeOK /\ sig[p] \in SigState /\ mode[p] \notin Gone /\ mode \in [Process -> Mode]
      /\ left \in [Process -> Nat \cup {-1}] /\ sig \in [Process -> SigState]
      /\ lock \in [Process -> BOOLEAN] /\ interrupts \in BOOLEAN
      /\ machine \in {"running", "halted", "corrupt"}
  BY <1>1, RunnerFacts, Meaning
<1>3. {"user", "return", "spin"} \subseteq Mode \ Gone
  BY DEF Mode, Gone
<1>4. CASE AfterTick(p)
  <2>1. process_check_signals(p, "user", FALSE, sig[p]) /\ left' = left
    BY <1>4 DEF AfterTick
  <2> QED BY <1>1, <1>2, <1>3, <2>1, CheckInv
<1>5. CASE PollAgain(p) \/ Spin(p)
  <2>1. (\E flag \in BOOLEAN : schedule(FALSE, flag)) /\ UNCHANGED <<mode, left, sig, lock, machine>>
    BY <1>2, <1>5 DEF PollAgain, Spin
  <2>2. mode' = [mode EXCEPT ![p] = mode[p]] /\ mode[p] \in Mode \ Gone
    BY <1>2, <2>1
  <2> QED BY <1>1, <1>2, <2>1, <2>2, SwitchInv
<1>6. CASE SyscallReturns(p) \/ PollReturns(p)
  BY <1>1, <1>2, <1>6, DoneInv DEF SyscallReturns, PollReturns
<1>7. ASSUME NEW n \in Handled, process_set_signal_handler(p, n) PROVE QueuesOK'
  <2>1. /\ lock' = [lock EXCEPT ![p] = FALSE]
        /\ machine' = IF n = 32 THEN "corrupt" ELSE machine
        /\ sig' = [sig EXCEPT ![p].handlers = IF n = 32 THEN @ ELSE @ \cup {n}]
        /\ mode' = [mode EXCEPT ![p] = "return"]
        /\ UNCHANGED <<current, thread_queue, left, interrupts>>
    BY <1>7 DEF process_set_signal_handler
  <2>2. sig' \in [Process -> SigState]
    BY <1>2, <2>1 DEF SigState
  <2>3. /\ mode' \in [Process -> Mode]
        /\ \A q \in Process : mode'[q] \in Gone <=> mode[q] \in Gone
    BY <1>2, <1>3, <2>1
  <2>4. machine' \in {"running", "halted", "corrupt"} /\ lock' \in [Process -> BOOLEAN]
    BY <1>2, <2>1
  <2> QED BY <1>1, <1>2, <2>1, <2>2, <2>3, <2>4, StayInv
<1> QED BY <1>4, <1>5, <1>6, <1>7 DEF Kernel

\* The timer interrupt, wherever it finds the CPU.
LEMMA TickInv ==
    ASSUME QueuesOK, TickIdle \/ \E p \in Process : TickUser(p) \/ TickKernel(p)
    PROVE  QueuesOK'
<1>0. Passed \in [Process -> Nat \cup {-1}] /\ {"tick"} \subseteq Mode \ Gone
  BY PassedType DEF QueuesOK, Mode, Gone
<1>1. ASSUME NEW p \in Process, TickUser(p) PROVE QueuesOK'
  <2>1. /\ machine = "running" /\ current = p /\ left' = Passed
        /\ mode' = [mode EXCEPT ![p] = "tick"] /\ schedule(FALSE, FALSE)
        /\ sig' = sig /\ lock' = lock /\ machine' = machine
    BY <1>1 DEF TickUser, Runs
  <2> QED BY <1>0, <2>1, SwitchInv
<1>2. ASSUME NEW p \in Process, TickKernel(p) PROVE QueuesOK'
  <2>1. /\ machine = "running" /\ current = p
        /\ process_check_signals(p, mode[p], FALSE, sig[p])
        /\ left' = [q \in Process |-> IF mode'[q] = "poll" THEN Passed[q] ELSE 0]
    BY <1>2 DEF TickKernel, Runs
  <2>2. mode[p] \in Mode \ Gone /\ sig[p] \in SigState
    BY <2>1, RunnerFacts
  <2>3. left' \in [Process -> Nat \cup {-1}]
    BY <1>0, <2>1
  <2> QED BY <2>1, <2>2, <2>3, CheckInv
<1>3. CASE TickIdle
  <2>1. /\ machine = "running" /\ current = Idle /\ left' = Passed /\ schedule(FALSE, FALSE)
        /\ UNCHANGED <<mode, sig, lock, machine>>
    BY <1>3 DEF TickIdle
  <2>2. TypeOK /\ Places
    BY <2>1, Meaning DEF QueuesOK
  <2>3. /\ current' \in Process \cup {Idle} /\ thread_queue' \in Seq(Process)
        /\ interrupts' \in BOOLEAN
        /\ IsInjective(thread_queue') /\ current' \notin ToSet(thread_queue')
        /\ Ready' = Ready
    BY <2>1, <2>2, ScheduleFacts DEF Places
  <2>4. TypeOK'
    BY <1>0, <2>1, <2>2, <2>3 DEF TypeOK
  <2>5. Places'
    BY <2>1, <2>2, <2>3 DEF Places
  <2> QED BY <2>4, <2>5 DEF QueuesOK, Queued, Places, Gone
<1> QED BY <1>1, <1>2, <1>3

\* System calls that programs make.
LEMMA SyscallInv ==
    ASSUME QueuesOK, NEW p \in Process,
           \/ sys_rt_sigaction(p)
           \/ \E ms \in Timeout \cup {-1} : sys_poll(p, ms)
           \/ \E set \in SUBSET (Signal \ {32}) :
                 \/ \E how \in {"block", "unblock", "setmask"} : sys_rt_sigprocmask(p, how, set)
                 \/ sys_rt_sigreturn(p, set)
           \/ \E q \in Process, n \in Signal : process_send_signal(p, q, n)
    PROVE  QueuesOK'
<1>1. machine = "running" /\ current = p
  BY DEF sys_rt_sigaction, sys_poll, sys_rt_sigprocmask, sys_rt_sigreturn,
         process_send_signal, Runs
<1>2. /\ TypeOK /\ sig[p] \in SigState /\ mode[p] \notin Gone /\ mode \in [Process -> Mode]
      /\ left \in [Process -> Nat \cup {-1}] /\ sig \in [Process -> SigState]
      /\ lock \in [Process -> BOOLEAN] /\ interrupts \in BOOLEAN
      /\ machine \in {"running", "halted", "corrupt"}
  BY <1>1, RunnerFacts, Meaning
<1>3. {"poll", "action", "return", "spin"} \subseteq Mode \ Gone
  BY DEF Mode, Gone
<1>4. CASE sys_rt_sigaction(p)
  <2>1. /\ mode' = [mode EXCEPT ![p] = "action"] /\ lock' = [lock EXCEPT ![p] = TRUE]
        /\ UNCHANGED <<current, thread_queue, left, sig, interrupts, machine>>
    BY <1>4 DEF sys_rt_sigaction
  <2>2. /\ mode' \in [Process -> Mode] /\ lock' \in [Process -> BOOLEAN]
        /\ \A q \in Process : mode'[q] \in Gone <=> mode[q] \in Gone
    BY <1>2, <1>3, <2>1
  <2> QED BY <1>1, <1>2, <2>1, <2>2, StayInv
<1>5. ASSUME NEW ms \in Timeout \cup {-1}, sys_poll(p, ms) PROVE QueuesOK'
  <2>1. /\ mode' = [mode EXCEPT ![p] = "poll"]
        /\ left' = [left EXCEPT ![p] = IF ms > 0 THEN (ms \div 10) + 2 ELSE ms]
        /\ UNCHANGED <<current, thread_queue, sig, lock, interrupts, machine>>
    BY <1>5 DEF sys_poll
  <2>2. /\ mode' \in [Process -> Mode]
        /\ \A q \in Process : mode'[q] \in Gone <=> mode[q] \in Gone
    BY <1>2, <1>3, <2>1
  <2>3. (IF ms > 0 THEN (ms \div 10) + 2 ELSE ms) \in Nat \cup {-1}
    BY SignalsAssumption
  <2>4. left' \in [Process -> Nat \cup {-1}]
    BY <1>2, <2>1, <2>3
  <2> QED BY <1>1, <1>2, <2>1, <2>2, <2>4, StayInv
<1>6. ASSUME NEW set \in SUBSET (Signal \ {32}), NEW how \in {"block", "unblock", "setmask"},
             sys_rt_sigprocmask(p, how, set)
      PROVE  QueuesOK'
  <2>1. process_set_signal_mask(sig[p], how, set) \in SigState
    BY <1>2 DEF process_set_signal_mask, SigState
  <2> QED BY <1>1, <1>6, <2>1, DoneInv DEF sys_rt_sigprocmask
<1>7. ASSUME NEW set \in SUBSET (Signal \ {32}), sys_rt_sigreturn(p, set) PROVE QueuesOK'
  <2>1. [sig[p] EXCEPT !.blocked = set] \in SigState
    BY <1>2 DEF SigState
  <2> QED BY <1>1, <1>7, <2>1, DoneInv DEF sys_rt_sigreturn
<1>8. ASSUME NEW q \in Process, NEW n \in Signal, process_send_signal(p, q, n) PROVE QueuesOK'
  <2> DEFINE s == [sig[q] EXCEPT !.pending = IF mode[q] = "finished" THEN @ ELSE @ \cup {n}]
  <2>1. s \in SigState
    <3>1. sig[q] \in SigState
      BY <1>2
    <3> QED BY <3>1 DEF SigState
  <2>2. \/ /\ mode' = [mode EXCEPT ![p] = "spin"] /\ schedule(FALSE, FALSE)
           /\ UNCHANGED <<left, sig, lock, machine>>
        \/ p = q /\ Done(p, s)
        \/ /\ sig' = [sig EXCEPT ![q] = s] /\ mode' = [mode EXCEPT ![p] = "return"]
           /\ UNCHANGED <<current, thread_queue, left, lock, interrupts, machine>>
    BY <1>8 DEF process_send_signal
  <2> HIDE DEF s
  <2>3. CASE /\ mode' = [mode EXCEPT ![p] = "spin"] /\ schedule(FALSE, FALSE)
             /\ UNCHANGED <<left, sig, lock, machine>>
    BY <1>1, <1>2, <1>3, <2>3, SwitchInv
  <2>4. CASE p = q /\ Done(p, s)
    BY <1>1, <2>1, <2>4, DoneInv
  <2>5. CASE /\ sig' = [sig EXCEPT ![q] = s] /\ mode' = [mode EXCEPT ![p] = "return"]
             /\ UNCHANGED <<current, thread_queue, left, lock, interrupts, machine>>
    <3>1. /\ mode' \in [Process -> Mode] /\ sig' \in [Process -> SigState]
          /\ \A r \in Process : mode'[r] \in Gone <=> mode[r] \in Gone
      BY <1>2, <1>3, <2>1, <2>5
    <3> QED BY <1>1, <1>2, <2>5, <3>1, StayInv
  <2> QED BY <2>2, <2>3, <2>4, <2>5
<1> QED BY <1>4, <1>5, <1>6, <1>7, <1>8

\* At the start all processes but init wait in the queue, in the order of their creation.
LEMMA InitQueues == Init => QueuesOK
<1> SUFFICES ASSUME Init PROVE QueuesOK
  OBVIOUS
<1>1. Cardinality(Process) - 1 \in Nat
  <2>1. Cardinality(Process) \in Nat /\ Cardinality(Process) # 0
    BY SignalsAssumption, FS_CardinalityType, FS_EmptySet
  <2> QED BY <2>1
<1>2. thread_queue \in Seq(Process)
  BY <1>1 DEF Init
<1>3. TypeOK
  BY <1>2, SignalsAssumption DEF Init, TypeOK
<1>4. IsInjective(thread_queue)
  <2> SUFFICES ASSUME NEW i \in DOMAIN thread_queue, NEW j \in DOMAIN thread_queue,
                      thread_queue[i] = thread_queue[j]
               PROVE  i = j
    BY DEF IsInjective
  <2>1. i \in Nat /\ j \in Nat
    BY <1>2
  <2>2. thread_queue[i] \in Nat
    <3>1. thread_queue[i] \in Process
      BY <1>2
    <3> QED BY <3>1, SignalsAssumption
  <2>3. ~(i < j) /\ ~(j < i)
    BY <2>2 DEF Init
  <2> QED BY <2>1, <2>3
<1>5. Places
  BY <1>4, SignalsAssumption DEF Init, Places, Ready, Gone
<1> QED BY <1>3, <1>5 DEF QueuesOK, Queued, Places, Gone

\* For any number of processes and any signals: a process is in the ready queue, once, or
\* on the CPU, unless a signal has stopped or ended it.
THEOREM QueuesHold == Spec => []QueuesOK
<1>1. QueuesOK /\ [Next]_vars => QueuesOK'
  <2> SUFFICES ASSUME QueuesOK, [Next]_vars PROVE QueuesOK'
    OBVIOUS
  <2>1. CASE UNCHANGED vars
    <3>1. Ready' = Ready
      BY <2>1 DEF vars, Ready
    <3> QED BY <2>1, <3>1 DEF vars, QueuesOK, TypeOK, Queued
  <2> QED BY <2>1, KernelInv, TickInv, SyscallInv DEF Next
<1> QED BY <1>1, InitQueues, PTL DEF Spec
-----------------------------------------------------------------------------
(***************************************************************************)
(* The lock of a process.  It is taken in "action" and released on the way *)
(* to "return"; an interrupt in between finds it held and sends the        *)
(* process to "spin".                                                      *)
(***************************************************************************)
\* process_check_signals and the system calls that end in it.
LEMMA CheckLock ==
    ASSUME TypeOK, LockReleased, NEW p \in Process, NEW to, NEW flag, NEW s,
           process_check_signals(p, to, flag, s)
    PROVE  LockReleased'
<1>1. /\ mode \in [Process -> Mode] /\ lock' = lock
      /\ \/ lock[p] /\ mode' = [mode EXCEPT ![p] = "spin"]
         \/ ~lock[p] /\ \E m : mode' = [mode EXCEPT ![p] = m]
  <2>1. mode \in [Process -> Mode]
    BY DEF TypeOK, Mode
  <2>2. mode = [mode EXCEPT ![p] = mode[p]]
    BY <2>1
  <2> QED BY <2>1, <2>2 DEF process_check_signals, Leave
<1> QED BY <1>1 DEF LockReleased

\* For any number of processes and any signals: no process that signals have stopped or
\* ended holds its lock, and none returns to its program with it.
THEOREM LockReleasedHolds == Spec => []LockReleased
<1>1. Init => LockReleased
  BY DEF Init, LockReleased
<1>2. TypeOK /\ LockReleased /\ [Next]_vars => LockReleased'
  <2> SUFFICES ASSUME TypeOK, LockReleased, [Next]_vars PROVE LockReleased'
    OBVIOUS
  <2>0. mode \in [Process -> Mode] /\ lock \in [Process -> BOOLEAN]
    BY DEF TypeOK, Mode
  <2>1. CASE UNCHANGED <<mode, lock>>
    BY <2>1 DEF LockReleased
  <2>2. CASE TickIdle \/ UNCHANGED vars
    BY <2>1, <2>2 DEF TickIdle, vars
  <2>3. ASSUME NEW p \in Process, Kernel(p) \/ PollReturns(p) PROVE LockReleased'
    <3>1. CASE AfterTick(p) \/ SyscallReturns(p) \/ PollReturns(p)
      BY <3>1, CheckLock DEF AfterTick, SyscallReturns, PollReturns, Done
    <3>2. CASE PollAgain(p) \/ Spin(p)
      BY <2>1, <3>2 DEF PollAgain, Spin
    <3>3. ASSUME NEW n \in Handled, process_set_signal_handler(p, n) PROVE LockReleased'
      BY <2>0, <3>3 DEF process_set_signal_handler, LockReleased
    <3> QED BY <2>3, <3>1, <3>2, <3>3 DEF Kernel
  <2>4. ASSUME NEW p \in Process, TickUser(p) PROVE LockReleased'
    BY <2>0, <2>4 DEF TickUser, Runs, LockReleased
  <2>5. ASSUME NEW p \in Process, TickKernel(p) PROVE LockReleased'
    BY <2>5, CheckLock DEF TickKernel
  <2>6. ASSUME NEW p \in Process, sys_rt_sigaction(p) PROVE LockReleased'
    BY <2>0, <2>6 DEF sys_rt_sigaction, LockReleased
  <2>7. ASSUME NEW p \in Process, NEW ms, sys_poll(p, ms) PROVE LockReleased'
    BY <2>0, <2>7 DEF sys_poll, Runs, LockReleased
  <2>8. ASSUME NEW p \in Process, NEW set,
               (\E how \in {"block", "unblock", "setmask"} : sys_rt_sigprocmask(p, how, set))
                   \/ sys_rt_sigreturn(p, set)
        PROVE  LockReleased'
    <3>1. \E s : process_check_signals(p, "user", TRUE, s)
      BY <2>8 DEF sys_rt_sigprocmask, sys_rt_sigreturn, Done
    <3> QED BY <3>1, CheckLock
  <2>9. ASSUME NEW p \in Process, NEW q \in Process, NEW n, process_send_signal(p, q, n)
        PROVE  LockReleased'
    <3>1. CASE lock' = lock /\ \E m : mode' = [mode EXCEPT ![p] = m]
      BY <2>0, <2>9, <3>1 DEF process_send_signal, Runs, LockReleased
    <3>2. ASSUME NEW s, Done(p, s) PROVE LockReleased'
      BY <3>2, CheckLock DEF Done
    <3> QED BY <2>9, <3>1, <3>2 DEF process_send_signal
  <2> QED BY <2>2, <2>3, <2>4, <2>5, <2>6, <2>7, <2>8, <2>9 DEF Next
<1>3. QueuesOK => TypeOK
  BY DEF QueuesOK
<1> QED BY <1>1, <1>2, <1>3, QueuesHold, PTL DEF Spec
=============================================================================
