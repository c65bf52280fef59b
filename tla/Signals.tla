------------------------------- MODULE Signals ------------------------------
(***************************************************************************)
(* Signals (proc/ipc.c), and poll, the system call that looks at them.     *)
(* Signals have the numbers they have in the code.  Nothing in the kernel  *)
(* sends a signal so far: the sender is some system call that will use     *)
(* process_send_signal, as its declaration offers it.                      *)
(*                                                                         *)
(* Signals are acted on at the end of every interrupt and system call.  An *)
(* interrupt may find the process in user mode, or within a system call    *)
(* that runs with interrupts enabled: here in poll, or in                  *)
(* process_set_signal_handler while it has the lock of the process.        *)
(*                                                                         *)
(* process_enter_signal returns to a segment of user mode with the         *)
(* privilege of the kernel, which faults, and faults halt the machine.  So *)
(* no handler is ever run, and what would be the frames of handlers is     *)
(* left out; rt_sigreturn takes what it finds on the stack of its caller.  *)
(***************************************************************************)
EXTENDS Integers, Sequences, SequencesExt, FiniteSetsExt

CONSTANTS
    Process,      \* 1 is init
    Signal,       \* signals that are sent and blocked
    Handled,      \* signals that get a handler
    Terminating, Stopping,  \* what a signal does that has no handler
    NWords,       \* SIGSET_NWORDS
    Timeout,      \* of poll in milliseconds; there are calls without one as well
    MaxPending    \* bound on the signals that wait to be acted on

ASSUME SignalsAssumption ==
    /\ 1 \in Process /\ Process \subseteq Nat \ {0} /\ IsFiniteSet(Process)
    /\ Signal \subseteq 1..32 /\ Handled \cup Terminating \cup Stopping \subseteq 1..32
    /\ NWords \in Nat /\ Timeout \subseteq Nat /\ MaxPending \in Nat

VARIABLES
    current, thread_queue,
    mode,        \* where a process is: see TypeOK
    left,        \* ticks until poll gives up, or -1
    sig,         \* pending_signals, blocked_signals and signalHandlers
    lock,        \* the lock of a process is held
    interrupts,  \* are enabled
    machine      \* "running", "halted", or "corrupt": a handler beyond the array was set

vars == <<current, thread_queue, mode, left, sig, lock, interrupts, machine>>

Idle == 0
Ready == {p \in Process : p = current \/ p \in ToSet(thread_queue)}

Init ==
    /\ current = 1
    /\ thread_queue \in [1..(Cardinality(Process) - 1) -> Process \ {1}]
    /\ ToSet(thread_queue) = Process \ {1}
    /\ \A i, j \in DOMAIN thread_queue : i < j => thread_queue[i] < thread_queue[j]
    /\ mode = [p \in Process |-> IF p = 1 THEN "user" ELSE "tick"]
    /\ left = [p \in Process |-> 0]
    /\ sig = [p \in Process |-> [pending |-> {}, blocked |-> {}, handlers |-> {}]]
    /\ lock = [p \in Process |-> FALSE]
    /\ interrupts = TRUE /\ machine = "running"
-----------------------------------------------------------------------------
\* schedule.  The flag for interrupts is not part of what is switched; only idle sets it.
schedule(sleep, flag) ==
    LET queue == IF sleep \/ current = Idle THEN thread_queue ELSE Append(thread_queue, current)
    IN /\ current' = IF queue = <<>> THEN Idle ELSE Head(queue)
       /\ thread_queue' = IF queue = <<>> THEN queue ELSE Tail(queue)
       /\ interrupts' = (queue = <<>> \/ flag)

\* As it would be if a stopped process stayed in the queue.
Leave_Queued(p, to, flag) == mode' = [mode EXCEPT ![p] = to] /\ schedule(FALSE, flag) /\ UNCHANGED lock

\* As it would be if the lock were kept while the signal is acted on.
Leave_Locked(p, to, flag) ==
    mode' = [mode EXCEPT ![p] = to] /\ schedule(TRUE, flag) /\ lock' = [lock EXCEPT ![p] = TRUE]

\* The process stops or ends, in handle_signal.
Leave(p, to, flag) == mode' = [mode EXCEPT ![p] = to] /\ schedule(TRUE, flag) /\ UNCHANGED lock

\* The signals that process_check_signals acts on if none of them ends the loop.
\* sigismember is not asked for the last of the 32.
Deliverable(s) == {n \in s.pending : n < 32 /\ n \notin s.blocked}

\* handle_signal: those that do end it, as a handler, an exit or a stop.  A stop does not
\* if anything is pending then, be it blocked or not.
Before(s, n) == {k \in Deliverable(s) : k <= n}
Decisive(s) ==
    {n \in Deliverable(s) : \/ n \in s.handlers \/ n \in Terminating
                            \/ n \in Stopping /\ s.pending = Before(s, n)}

\* process_check_signals at the end of an interrupt or system call, from which p returns
\* to where it was.  With its lock held the process waits for itself.
process_check_signals(p, to, flag, s) ==
    LET n == Min(Decisive(s))
    IN IF lock[p]
       THEN /\ mode' = [mode EXCEPT ![p] = "spin"]
            /\ schedule(FALSE, FALSE)
            /\ UNCHANGED <<sig, lock, machine>>
       ELSE IF Decisive(s) = {}
       THEN /\ sig' = [sig EXCEPT ![p] = [s EXCEPT !.pending = @ \ Deliverable(s)]]
            /\ mode' = [mode EXCEPT ![p] = to]
            /\ interrupts' = TRUE
            /\ UNCHANGED <<current, thread_queue, lock, machine>>
       ELSE /\ sig' = [sig EXCEPT ![p] = [s EXCEPT !.pending = @ \ Before(s, n)]]
            /\ IF n \in s.handlers \/ (n \in Terminating /\ p = 1)
               THEN machine' = "halted" /\ UNCHANGED <<current, thread_queue, mode, lock, interrupts>>
               ELSE /\ Leave(p, IF n \in Terminating THEN "finished" ELSE "stopped", flag)
                    /\ UNCHANGED machine

Runs(p, m) == machine = "running" /\ current = p /\ mode[p] = m

\* The end of a system call, which has left the signals of p as s.
Done(p, s) ==
    /\ process_check_signals(p, "user", TRUE, s)
    /\ left' = [left EXCEPT ![p] = 0]
-----------------------------------------------------------------------------

Passed == [p \in Process |-> IF left[p] > 0 THEN left[p] - 1 ELSE left[p]]

\* pit_interrupt in user mode: the process goes to the end of the queue, and
\* looks at its signals when it runs again.
TickUser(p) ==
    /\ Runs(p, "user") /\ interrupts
    /\ left' = Passed
    /\ mode' = [mode EXCEPT ![p] = "tick"]
    /\ schedule(FALSE, FALSE)
    /\ UNCHANGED <<sig, lock, machine>>

\* As it would be if signals were looked at after system calls only.
AfterTick_NoCheck(p) ==
    /\ Runs(p, "tick")
    /\ mode' = [mode EXCEPT ![p] = "user"]
    /\ interrupts' = TRUE
    /\ UNCHANGED <<current, thread_queue, left, sig, lock, machine>>

AfterTick(p) ==
    /\ Runs(p, "tick")
    /\ process_check_signals(p, "user", FALSE, sig[p])
    /\ UNCHANGED left

\* In the kernel there is no switch, but signals are looked at as well.
TickKernel(p) ==
    /\ \E m \in {"poll", "action", "return"} : Runs(p, m)
    /\ interrupts
    /\ process_check_signals(p, mode[p], FALSE, sig[p])
    /\ left' = [q \in Process |-> IF mode'[q] = "poll" THEN Passed[q] ELSE 0]

\* idle, which is called anew whenever nobody is ready: it waits for an interrupt.
TickIdle ==
    /\ machine = "running" /\ current = Idle
    /\ left' = Passed
    /\ schedule(FALSE, FALSE)
    /\ UNCHANGED <<mode, sig, lock, machine>>

\* spin_lock: who has the lock waits as well.
Spin(p) ==
    /\ Runs(p, "spin")
    /\ schedule(FALSE, FALSE)
    /\ UNCHANGED <<mode, left, sig, lock, machine>>
-----------------------------------------------------------------------------
\* sys_poll, and sys_ppoll, whose change of the mask has no effect.
sys_poll(p, ms) ==
    /\ Runs(p, "user")
    /\ mode' = [mode EXCEPT ![p] = "poll"]
    /\ left' = [left EXCEPT ![p] = IF ms > 0 THEN (ms \div 10) + 2 ELSE ms]
    /\ UNCHANGED <<current, thread_queue, sig, lock, interrupts, machine>>

\* As it would be if the time were not compared.
PollAgain_NoTime(p) ==
    /\ Runs(p, "poll") /\ sig[p].pending = {}
    /\ schedule(FALSE, interrupts)
    /\ UNCHANGED <<mode, left, sig, lock, machine>>

\* One pass of the loop: a signal ends it, blocked or not; something may be ready to
\* be read or written; or the time may be over.
PollReturns(p) == Runs(p, "poll") /\ Done(p, sig[p])

PollAgain(p) ==
    /\ Runs(p, "poll") /\ sig[p].pending = {} /\ left[p] # 0
    /\ schedule(FALSE, interrupts)
    /\ UNCHANGED <<mode, left, sig, lock, machine>>

\* sys_rt_sigaction: the handler is set with the lock held.  A handler for the last of
\* the 32 signals is written beyond the array.
sys_rt_sigaction(p) ==
    /\ Runs(p, "user")
    /\ mode' = [mode EXCEPT ![p] = "action"]
    /\ lock' = [lock EXCEPT ![p] = TRUE]
    /\ UNCHANGED <<current, thread_queue, left, sig, interrupts, machine>>

process_set_signal_handler(p, n) ==
    /\ Runs(p, "action")
    /\ lock' = [lock EXCEPT ![p] = FALSE]
    /\ machine' = IF n = 32 THEN "corrupt" ELSE machine
    /\ sig' = [sig EXCEPT ![p].handlers = IF n = 32 THEN @ ELSE @ \cup {n}]
    /\ mode' = [mode EXCEPT ![p] = "return"]
    /\ UNCHANGED <<current, thread_queue, left, interrupts>>

SyscallReturns(p) == Runs(p, "return") /\ Done(p, sig[p])

\* process_set_signal_mask.  To unblock, the words of the set are taken for signals, and
\* to set the mask it is assigned to itself.
process_set_signal_mask(s, how, new) ==
    [s EXCEPT !.blocked = CASE how = "block" -> @ \cup new
                            [] how = "unblock" -> @ \ {n \in new : n < NWords}
                            [] how = "setmask" -> @]

sys_rt_sigprocmask(p, how, new) ==
    Runs(p, "user") /\ Done(p, process_set_signal_mask(sig[p], how, new))

\* process_signal_return
sys_rt_sigreturn(p, mask) == Runs(p, "user") /\ Done(p, [sig[p] EXCEPT !.blocked = mask])

\* process_send_signal, by a system call of p.  If the lock is held p waits for it, with
\* interrupts disabled.
process_send_signal(p, q, n) ==
    LET to == [sig[q] EXCEPT !.pending = IF mode[q] = "finished" THEN @ ELSE @ \cup {n}]
    IN /\ Runs(p, "user")
       /\ Cardinality(UNION {{<<r, k>> : k \in sig[r].pending} : r \in Process}) < MaxPending
       /\ IF mode[q] # "finished" /\ lock[q]
          THEN /\ mode' = [mode EXCEPT ![p] = "spin"]
               /\ schedule(FALSE, FALSE)
               /\ UNCHANGED <<left, sig, lock, machine>>
          ELSE IF p = q THEN Done(p, to)
          ELSE /\ sig' = [sig EXCEPT ![q] = to]
               /\ mode' = [mode EXCEPT ![p] = "return"]
               /\ UNCHANGED <<current, thread_queue, left, lock, interrupts, machine>>

Kernel(p) ==
    \/ AfterTick(p) \/ PollAgain(p) \/ Spin(p) \/ SyscallReturns(p)
    \/ (sig[p].pending # {} \/ left[p] = 0) /\ PollReturns(p)
    \/ \E n \in Handled : process_set_signal_handler(p, n)

Next ==
    \/ \E p \in Process :
          \/ Kernel(p) \/ TickUser(p) \/ TickKernel(p) \/ PollReturns(p) \/ sys_rt_sigaction(p)
          \/ \E ms \in Timeout \cup {-1} : sys_poll(p, ms)
          \/ \E set \in SUBSET (Signal \ {32}) :
                \/ \E how \in {"block", "unblock", "setmask"} : sys_rt_sigprocmask(p, how, set)
                \/ sys_rt_sigreturn(p, set)
          \/ \E q \in Process, n \in Signal : process_send_signal(p, q, n)
    \/ TickIdle
    \/ machine # "running" /\ UNCHANGED vars

\* What the kernel does goes on, and the timer ticks.  A program that is in user mode
\* again and again is interrupted there in the end: its calls are not in step with the
\* timer.  Nothing is assumed of programs otherwise.
Fairness ==
    /\ \A p \in Process : WF_vars(Kernel(p)) /\ SF_vars(TickUser(p))
    /\ WF_vars(\E p \in Process : TickKernel(p)) /\ WF_vars(TickIdle)

Spec == Init /\ [][Next]_vars /\ Fairness
-----------------------------------------------------------------------------
TypeOK ==
    /\ current \in Process \cup {Idle} /\ thread_queue \in Seq(Process)
    /\ mode \in [Process -> {"user",    \* or in a system call that is one step
                             "tick",    \* in pit_interrupt, after schedule
                             "poll", "action", "return",  \* in a system call
                             "spin",    \* in spin_lock
                             "stopped", "finished"}]
    /\ left \in [Process -> Nat \cup {-1}]
    /\ sig \in [Process -> [pending : SUBSET Signal, blocked : SUBSET Signal,
                            handlers : SUBSET (Handled \ {32})]]
    /\ lock \in [Process -> BOOLEAN] /\ interrupts \in BOOLEAN
    /\ machine \in {"running", "halted", "corrupt"}

\* Every process is on the CPU or in thread_queue once, unless it has stopped or ended:
\* then it is in neither, whichever interrupt or system call found the signal.
Queued ==
    machine = "running" =>
        /\ Ready = {p \in Process : mode[p] \notin {"stopped", "finished"}}
        /\ IsInjective(thread_queue) /\ current \notin ToSet(thread_queue)

\* process_check_signals, called on the way out of system calls and of the timer
\* interrupt, takes a process off the CPU exactly when it stops or ends it.
QueuesOK == TypeOK /\ Queued

\* The lock of a process is held only while it sets a handler, or was interrupted in that
\* and waits for its own lock.  It is held by none that signals have stopped or ended.
LockReleased == \A p \in Process : lock[p] => mode[p] \in {"action", "spin"}

\* A signal that is not blocked is acted on, even if the process never makes a system call
\* and whatever it does otherwise, unless it has stopped or waits for a lock for ever.
SignalTaken ==
    \A p \in Process, n \in Signal \ {32} :
        n \in sig[p].pending \ sig[p].blocked /\ mode[p] # "stopped"
            ~> \/ n \notin sig[p].pending \ sig[p].blocked
               \/ mode[p] \in {"stopped", "finished", "spin"} \/ machine # "running"

\* Nobody who is ready gets out of the kernel, and interrupts are disabled.
Silent == ~interrupts /\ \A p \in Ready : mode[p] \in {"poll", "spin"}

\* A poll that has a timeout ends, unless all that is left are processes that poll or
\* wait for a lock while a signal, acted on in an interrupt, took away the one that would
\* have enabled interrupts again.
PollEnds ==
    \A p \in Process :
        mode[p] = "poll" /\ left[p] >= 0
            ~> mode[p] # "poll" \/ Silent \/ machine # "running"
=============================================================================
