-------------------------------- MODULE Pty --------------------------------
(***************************************************************************)
(* Terminal input: the keyboard interrupt (hid/ps2.c, fs/console.c) feeds  *)
(* the line discipline of fs/pty.c, processes read lines from it, and both *)
(* meet in the ring buffer (libc/kernel/ring_buffer.c) and in three        *)
(* mutexes used as wait queues (sys/mutex.c, proc/process.c).              *)
(*                                                                         *)
(* The reader runs with interrupts on, so the interrupt handler, which     *)
(* runs on the stack of whatever process it interrupts, comes between any  *)
(* two of its steps.  The context switch does not save the interrupt flag: *)
(* it is one variable for the CPU.                                         *)
(***************************************************************************)
EXTENDS Integers, SequencesExt

CONSTANTS
    Reader,    \* processes that read the terminal
    PTY_BUFFER_SIZE,
    ReadSize,  \* sizes they ask for
    MaxIrq     \* bound on the pending stages of handlers a key press may nest in

ASSUME ReaderAssumption ==
    IsFiniteSet(Reader) /\ Reader # {} /\ "idle" \notin Reader /\ "free" \notin Reader
ASSUME SizeAssumption ==
    PTY_BUFFER_SIZE \in Nat \ {0} /\ ReadSize \subseteq Nat /\ MaxIrq \in Nat

Idle == "idle"          \* kernel_idle_process
Thread == Reader \cup {Idle}
Free == "free"          \* value of a spin lock that nobody holds

Byte == {"newline", "other"}      \* what find_newline tells apart
Key == Byte \cup {"backspace"}    \* what the keyboard sends
Code(key) == IF key = "newline" THEN "newline" ELSE "other"  \* byte stored for it

Queue == {"pair_read", "cb_read", "cb_write"}  \* the mutexes used as wait queues
Lock == Queue \cup {"cb"}                      \* mutex->lock of each, and cb->lock

\* Where a reader continues.
Where == {"user", "discard", "scan", "peek", "acquire", "wait", "object", "sleep",
          "read", "unlock", "notify", "release"}

VARIABLES
    buffer, head, tail,  \* the input ring buffer
    lock,          \* who holds each spin lock
    owner,         \* mutex->owner # NULL, of each wait queue
    waiting,       \* mutex->waiting, of each wait queue
    icanon,        \* c_lflag & ICANON
    current,       \* pcb.current_process
    thread_queue,  \* ready processes
    int_on,        \* the interrupt flag of the CPU
    pc,
    wq,            \* the wait queue a reader is working on
    size,          \* bytes a reader still wants
    scan,          \* <<i, available>> of find_newline
    irq,           \* stages of keyboard interrupts pending on each stack
    spun           \* history: a handler has been switched out while it spun on a lock

ringVars == <<buffer, head, tail>>
cpuVars == <<current, thread_queue, int_on>>
locals == <<wq, size, scan>>
vars == <<ringVars, lock, owner, waiting, icanon, cpuVars, pc, locals, irq, spun>>

\* The byte that the running handler has accepted and not stored yet.
Accepted ==
    IF irq[current] # <<>> /\ Head(irq[current])[1] = "put" THEN <<Head(irq[current])[2]>>
    ELSE <<>>

Ring == INSTANCE RingBuffer WITH max <- PTY_BUFFER_SIZE, todo <- Accepted, ret <- 0

Init ==
    /\ lock = [l \in Lock |-> Free]
    /\ owner = [q \in Queue |-> FALSE]
    /\ waiting = [q \in Queue |-> <<>>]
    /\ icanon = TRUE
    /\ \E s \in SetToSeqs(Reader) : current = Head(s) /\ thread_queue = Tail(s)
    /\ int_on = TRUE
    /\ pc = [t \in Reader |-> "user"]
    /\ wq = [t \in Reader |-> "pair_read"]
    /\ size = [t \in Reader |-> 0]
    /\ scan = [t \in Reader |-> <<0, 0>>]
    /\ irq = [t \in Thread |-> <<>>]
    /\ spun = FALSE
    /\ Ring!Init
-----------------------------------------------------------------------------
(***************************************************************************)
(* The scheduler.  A process that returns to user mode, and the idle loop, *)
(* have interrupts on; anything else goes on with the flag as it is.  The  *)
(* idle process is never saved, so a handler on its stack is abandoned.    *)
(***************************************************************************)
schedule(sleep, flag) ==
    LET queue == IF current = Idle \/ sleep THEN thread_queue
                 ELSE Append(thread_queue, current)
        next  == IF queue = <<>> THEN Idle ELSE Head(queue)
    IN  /\ current' = next
        /\ thread_queue' = IF queue = <<>> THEN <<>> ELSE Tail(queue)
        /\ int_on' = (flag \/ next = Idle \/ (pc[next] = "user" /\ irq[next] = <<>>))
        /\ irq' = [irq EXCEPT ![Idle] = IF current = Idle THEN <<>> ELSE @]

\* hlt returns, then cli and schedule(false).
idle ==
    /\ current = Idle /\ irq[Idle] = <<>>
    /\ thread_queue # <<>>
    /\ schedule(FALSE, FALSE)
    /\ UNCHANGED <<ringVars, lock, owner, waiting, icanon, pc, locals, spun>>

\* The timer interrupts user code.
pit_interrupt ==
    /\ current \in Reader /\ irq[current] = <<>> /\ pc[current] = "user"
    /\ thread_queue # <<>>
    /\ schedule(FALSE, FALSE)
    /\ UNCHANGED <<ringVars, lock, owner, waiting, icanon, pc, locals, spun>>

\* The reader t is on the CPU at w, and no interrupt handler is on top of it.
At(t, w) == current = t /\ irq[t] = <<>> /\ pc[t] = w

Goto(t, w) == pc' = [pc EXCEPT ![t] = w]

\* spin_lock of a reader in front of a critical section of mutex.c.
spin_lock(t) ==
    /\ \E w \in {"acquire", "wait", "object", "notify", "release"} : At(t, w)
    /\ lock[wq[t]] = Free
    /\ lock' = [lock EXCEPT ![wq[t]] = t]
    /\ UNCHANGED <<ringVars, owner, waiting, icanon, cpuVars, pc, locals, irq, spun>>

spin_unlock(l) == lock' = [lock EXCEPT ![l] = Free]

\* The spin lock a stage of the handler takes, if any.
StageLock(stage) ==
    CASE stage[1] \in {"put", "pop"} -> "cb"
      [] stage[1] = "notify"         -> stage[2]
      [] OTHER                       -> Free

\* The spin lock a thread needs for its next step, if any.
Needs(t) ==
    IF irq[t] # <<>> THEN StageLock(Head(irq[t]))
    ELSE IF t = Idle THEN Free
    ELSE CASE pc[t] \in {"peek", "read", "discard"}                             -> "cb"
           [] pc[t] \in {"acquire", "wait", "object", "notify", "release"}
                  /\ lock[wq[t]] # t                                         -> wq[t]
           [] OTHER                                                          -> Free

Spins(t) == Needs(t) \in Lock /\ lock[Needs(t)] # Free

\* spin_lock of a held lock, in a reader or in the handler above it.
Spin ==
    /\ Spins(current)
    /\ schedule(FALSE, int_on)
    /\ spun' = (spun \/ irq[current] # <<>>)
    /\ UNCHANGED <<ringVars, lock, owner, waiting, icanon, pc, locals>>
-----------------------------------------------------------------------------
(***************************************************************************)
(* The reader: read(), that is pty_slave_read.                             *)
(***************************************************************************)
pty_slave_read(t, n) ==
    /\ At(t, "user")
    /\ size' = [size EXCEPT ![t] = n]
    /\ wq' = [wq EXCEPT ![t] = "pair_read"]
    /\ Goto(t, IF icanon THEN "scan" ELSE "read")
    /\ UNCHANGED <<ringVars, lock, owner, waiting, icanon, cpuVars, scan, irq, spun>>

\* find_newline looks at the bytes that were available when it began.
find_newline(t) ==
    /\ At(t, "scan")
    /\ scan' = [scan EXCEPT ![t] = <<0, Ring!ring_buffer_available>>]
    /\ Goto(t, "peek")
    /\ UNCHANGED <<ringVars, lock, owner, waiting, icanon, cpuVars, wq, size, irq, spun>>

Peek(t) ==
    LET i == scan[t][1]
        found == i < Ring!ring_buffer_available /\ Ring!ring_buffer_peek(i) = "newline"
    IN  /\ At(t, "peek")
        /\ \/ /\ i = scan[t][2]
              /\ scan' = [scan EXCEPT ![t] = <<0, 0>>]
              /\ Goto(t, "acquire")
              /\ UNCHANGED size
           \/ /\ i < scan[t][2] /\ lock["cb"] = Free
              /\ \/ /\ found
                    /\ size' = [size EXCEPT ![t] = IF i + 1 < @ THEN i + 1 ELSE @]
                    /\ scan' = [scan EXCEPT ![t] = <<0, 0>>]
                    /\ Goto(t, "read")
                 \/ /\ ~found
                    /\ scan' = [scan EXCEPT ![t] = <<i + 1, @[2]>>]
                    /\ UNCHANGED <<size, pc>>
        /\ UNCHANGED <<ringVars, lock, owner, waiting, icanon, cpuVars, wq, irq, spun>>

mutex_acquire_if_free(t) ==
    /\ At(t, "acquire") /\ lock[wq[t]] = t
    /\ owner' = [owner EXCEPT ![wq[t]] = TRUE]
    /\ spin_unlock(wq[t])
    /\ Goto(t, "wait")
    /\ UNCHANGED <<ringVars, waiting, icanon, cpuVars, locals, irq, spun>>

\* Mutant: the loop tests again without waiting.
mutex_wait_Busy(t) ==
    /\ At(t, "wait") /\ lock[wq[t]] = t
    /\ spin_unlock(wq[t])
    /\ Goto(t, IF owner[wq[t]] THEN "wait"
               ELSE IF wq[t] = "pair_read" THEN "scan" ELSE "read")
    /\ UNCHANGED <<ringVars, owner, waiting, icanon, cpuVars, locals, irq, spun>>

\* The loop of mutex_wait; it ends in find_newline or in ring_buffer_read again.
mutex_wait(t) ==
    /\ At(t, "wait") /\ lock[wq[t]] = t
    /\ spin_unlock(wq[t])
    /\ Goto(t, IF owner[wq[t]] THEN "object"
               ELSE IF wq[t] = "pair_read" THEN "scan" ELSE "read")
    /\ UNCHANGED <<ringVars, owner, waiting, icanon, cpuVars, locals, irq, spun>>

\* Mutant: the lock is held across schedule(true).
wait_for_object_KeepsLock(t) ==
    /\ At(t, "object") /\ lock[wq[t]] = t
    /\ waiting' = [waiting EXCEPT ![wq[t]] = Append(@, t)]
    /\ Goto(t, "sleep")
    /\ UNCHANGED <<ringVars, lock, owner, icanon, cpuVars, locals, irq, spun>>

wait_for_object(t) ==
    /\ At(t, "object") /\ lock[wq[t]] = t
    /\ waiting' = [waiting EXCEPT ![wq[t]] = Append(@, t)]
    /\ spin_unlock(wq[t])
    /\ Goto(t, "sleep")
    /\ UNCHANGED <<ringVars, owner, icanon, cpuVars, locals, irq, spun>>

\* The schedule(true) of wait_for_object; back in the loop of mutex_wait afterwards.
Sleep(t) ==
    /\ At(t, "sleep")
    /\ schedule(TRUE, int_on)
    /\ Goto(t, "wait")
    /\ UNCHANGED <<ringVars, lock, owner, waiting, icanon, locals, spun>>

\* The call returns: its locals are gone.
ToUser(t) ==
    /\ Goto(t, "user")
    /\ int_on' = TRUE
    /\ wq' = [wq EXCEPT ![t] = "pair_read"]
    /\ size' = [size EXCEPT ![t] = 0]
    /\ scan' = [scan EXCEPT ![t] = <<0, 0>>]

\* The critical section of ring_buffer_read.  Empty the first time: wait.  Empty
\* again: return 0.  Otherwise interrupts come on before the lock is released.
ring_buffer_read(t) ==
    /\ At(t, "read") /\ lock["cb"] = Free
    /\ \/ /\ Ring!ReadCount(size[t]) = 0 /\ wq[t] = "pair_read"
          /\ wq' = [wq EXCEPT ![t] = "cb_read"]
          /\ Goto(t, "acquire")
          /\ UNCHANGED <<ringVars, lock, int_on, size, scan>>
       \/ /\ Ring!ReadCount(size[t]) = 0 /\ wq[t] = "cb_read"
          /\ ToUser(t)
          /\ UNCHANGED <<ringVars, lock>>
       \/ /\ Ring!ReadCount(size[t]) > 0
          /\ Ring!TakeBytes(size[t])
          /\ lock' = [lock EXCEPT !["cb"] = t]
          /\ Goto(t, "unlock")
          /\ UNCHANGED <<locals, int_on>>
    /\ UNCHANGED <<owner, waiting, icanon, current, thread_queue, irq, spun>>

Unlock(t) ==
    /\ At(t, "unlock")
    /\ spin_unlock("cb")
    /\ wq' = [wq EXCEPT ![t] = "cb_write"]
    /\ Goto(t, "notify")
    /\ UNCHANGED <<ringVars, owner, waiting, icanon, cpuVars, size, scan, irq, spun>>

\* "Wake up sleepers on write": mutex_acquire_if_free, then mutex_release if that failed.
NotifyWriters(t) ==
    /\ At(t, "notify") /\ lock["cb_write"] = t
    /\ spin_unlock("cb_write")
    /\ \/ owner["cb_write"] /\ Goto(t, "release") /\ UNCHANGED <<owner, int_on, locals>>
       \/ /\ ~owner["cb_write"]
          /\ owner' = [owner EXCEPT !["cb_write"] = TRUE]
          /\ ToUser(t)
    /\ UNCHANGED <<ringVars, waiting, icanon, current, thread_queue, irq, spun>>

mutex_release(t) ==
    /\ At(t, "release") /\ lock["cb_write"] = t
    /\ owner' = [owner EXCEPT !["cb_write"] = FALSE]
    /\ thread_queue' = thread_queue \o waiting["cb_write"]
    /\ waiting' = [waiting EXCEPT !["cb_write"] = <<>>]
    /\ spin_unlock("cb_write")
    /\ ToUser(t)
    /\ UNCHANGED <<ringVars, icanon, current, irq, spun>>

\* TCSETS, TCSETSW: new settings.  TCSETSF: discard the input first.
pty_ioctl(t) ==
    /\ At(t, "user")
    /\ \/ icanon' = ~icanon /\ UNCHANGED pc
       \/ Goto(t, "discard") /\ UNCHANGED icanon
    /\ UNCHANGED <<ringVars, lock, owner, waiting, cpuVars, locals, irq, spun>>

Discard(t) ==
    /\ At(t, "discard") /\ lock["cb"] = Free
    /\ Ring!ring_buffer_discard_readable
    /\ icanon' \in BOOLEAN
    /\ ToUser(t)
    /\ UNCHANGED <<lock, owner, waiting, current, thread_queue, irq, spun>>

ReaderStep(t) ==
    \/ \E n \in ReadSize : pty_slave_read(t, n)
    \/ spin_lock(t) \/ find_newline(t) \/ Peek(t)
    \/ mutex_acquire_if_free(t) \/ mutex_wait(t) \/ wait_for_object(t) \/ Sleep(t)
    \/ ring_buffer_read(t) \/ Unlock(t) \/ NotifyWriters(t) \/ mutex_release(t)
    \/ pty_ioctl(t) \/ Discard(t)
-----------------------------------------------------------------------------
(***************************************************************************)
(* The keyboard interrupt: pty_write_to_input for one character, as the    *)
(* list of its stages.                                                     *)
(***************************************************************************)
\* Mutant: ring_buffer_write does not test for room.
pty_write_to_input_Overruns(key) ==
    CASE icanon /\ key = "backspace" /\ Ring!ring_buffer_available = 0 -> <<<<"ready", "part">>>>
      [] icanon /\ key = "backspace" /\ Ring!ring_buffer_available > 0 ->
             <<<<"pop", key>>, <<"notify", "cb_write">>, <<"ready", "part">>>>
      [] OTHER ->
             <<<<"put", Code(key)>>, <<"notify", "cb_read">>,
               <<"ready", IF key = "newline" THEN "line" ELSE "part">>>>

pty_write_to_input(key) ==
    CASE icanon /\ key = "backspace" /\ Ring!ring_buffer_available = 0 -> <<<<"ready", "part">>>>
      [] icanon /\ key = "backspace" /\ Ring!ring_buffer_available > 0 ->
             <<<<"pop", key>>, <<"notify", "cb_write">>, <<"ready", "part">>>>
      [] ~(icanon /\ key = "backspace") /\ Ring!ring_buffer_writeable < 1 -> <<<<"ready", "line">>>>
      [] OTHER ->
             <<<<"put", Code(key)>>, <<"notify", "cb_read">>,
               <<"ready", IF key = "newline" THEN "line" ELSE "part">>>>

keyboard_handler(key) ==
    /\ int_on
    /\ Len(irq[current]) <= MaxIrq
    /\ irq' = [irq EXCEPT ![current] = pty_write_to_input(key) \o <<<<"iret", key>>>> \o @]
    /\ int_on' = FALSE
    /\ UNCHANGED <<ringVars, lock, owner, waiting, icanon, current, thread_queue, pc, locals, spun>>

\* The first stage of the handler on the stack of the current process is op.
Stage(op) == irq[current] # <<>> /\ Head(irq[current])[1] = op
Arg == Head(irq[current])[2]
EndStage == irq' = [irq EXCEPT ![current] = Tail(@)]

IrqPut ==
    /\ Stage("put") /\ lock["cb"] = Free
    /\ Ring!PutByte(Arg)
    /\ EndStage
    /\ UNCHANGED <<lock, owner, waiting, icanon, cpuVars, pc, locals, spun>>

\* ring_buffer_pop, which looks again whether there is something to take back.
IrqPop ==
    /\ Stage("pop") /\ lock["cb"] = Free
    /\ \/ Ring!PopByte /\ EndStage
       \/ /\ Ring!ring_buffer_available = 0 /\ UNCHANGED ringVars
          /\ irq' = [irq EXCEPT ![current] = Tail(Tail(@))]
    /\ UNCHANGED <<lock, owner, waiting, icanon, cpuVars, pc, locals, spun>>

\* Mutant: mutex_release is never reached.
Notify_NoRelease(q) ==
    /\ lock[q] = Free
    /\ owner' = [owner EXCEPT ![q] = TRUE]
    /\ UNCHANGED <<thread_queue, waiting>>

\* if(!mutex_acquire_if_free(q)) mutex_release(q), with interrupts off.
Notify(q) ==
    /\ lock[q] = Free
    /\ owner' = [owner EXCEPT ![q] = ~@]
    /\ \/ ~owner[q] /\ UNCHANGED <<thread_queue, waiting>>
       \/ /\ owner[q]
          /\ thread_queue' = thread_queue \o waiting[q]
          /\ waiting' = [waiting EXCEPT ![q] = <<>>]

\* The end of pty_write_to_input: outside canonical mode, or when a line is complete,
\* signal_input_ready is called, whatever the mode is once it has its lock.
InputReady ==
    /\ Stage("ready")
    /\ irq' = [irq EXCEPT ![current] =
           IF ~icanon \/ Arg = "line" THEN <<<<"notify", "pair_read">>>> \o Tail(@) ELSE Tail(@)]
    /\ UNCHANGED <<ringVars, lock, owner, waiting, icanon, cpuVars, pc, locals, spun>>

\* The end of ring_buffer_write and of ring_buffer_pop, and signal_input_ready.
IrqNotify ==
    /\ Stage("notify")
    /\ Notify(Arg)
    /\ EndStage
    /\ UNCHANGED <<ringVars, lock, icanon, current, int_on, pc, locals, spun>>

signal_input_ready == Stage("notify") /\ Arg = "pair_read" /\ IrqNotify

\* The handler returns to what it interrupted, which had interrupts on.
Iret ==
    /\ Stage("iret")
    /\ EndStage
    /\ int_on' = TRUE
    /\ UNCHANGED <<ringVars, lock, owner, waiting, icanon, current, thread_queue, pc, locals, spun>>

IrqStep == IrqPut \/ IrqPop \/ InputReady \/ IrqNotify \/ Iret

Next ==
    \/ \E t \in Reader : ReaderStep(t)
    \/ \E key \in Key : keyboard_handler(key)
    \/ IrqStep
    \/ Spin \/ idle \/ pit_interrupt

Spec == Init /\ [][Next]_vars

(***************************************************************************)
(* Fairness: the CPU goes on with what it executes, between interrupts     *)
(* too.  No key press, no call of read() and no ioctl is forced.           *)
(***************************************************************************)
Continue(t) == pc[t] # "user" /\ ReaderStep(t)

Fairness ==
    /\ \A t \in Reader : SF_vars(Continue(t))
    /\ WF_vars(IrqStep)
    /\ WF_vars(Spin)
    /\ WF_vars(idle)
    /\ WF_vars(pit_interrupt)

FairSpec == Spec /\ Fairness
-----------------------------------------------------------------------------
\* The stages of a handler and what each is about.
StageType ==
    ({"put"} \X Byte) \cup ({"pop", "iret"} \X Key) \cup ({"notify"} \X Queue)
        \cup ({"ready"} \X {"line", "part"})

TypeOK ==
    /\ buffer \in [0..(PTY_BUFFER_SIZE - 1) -> Byte]
    /\ head \in 0..(PTY_BUFFER_SIZE - 1)
    /\ tail \in 0..(PTY_BUFFER_SIZE - 1)
    /\ lock \in [Lock -> Reader \cup {Free}]
    /\ owner \in [Queue -> BOOLEAN]
    /\ waiting \in [Queue -> Seq(Reader)]
    /\ icanon \in BOOLEAN
    /\ current \in Thread
    /\ thread_queue \in Seq(Reader)
    /\ int_on \in BOOLEAN
    /\ pc \in [Reader -> Where]
    /\ wq \in [Reader -> Queue]
    /\ size \in [Reader -> Nat]
    /\ scan \in [Reader -> (0..PTY_BUFFER_SIZE) \X (0..PTY_BUFFER_SIZE)]
    /\ irq \in [Thread -> Seq(StageType)]
    /\ spun \in BOOLEAN

\* The interrupt handler on top of t spins on a lock that t itself holds.
SelfDeadlock(t) ==
    /\ irq[t] # <<>> /\ Spins(t)
    /\ lock[Needs(t)] = t

\* A reader that sleeps on a wait queue holds no spin lock: the holder of a lock is on
\* the CPU or ready, however handlers, wakeups and context switches interleave.
NoLockAsleep ==
    \A l \in Lock : lock[l] # Free => lock[l] = current \/ lock[l] \in ToSet(thread_queue)

\* The queues a reader can be in.
Place == Queue \cup {"ready"}
Line(q) == IF q = "ready" THEN thread_queue ELSE waiting[q]

Queued(t) == \E q \in Place : t \in ToSet(Line(q))

\* Until a handler spins, a reader that is not on the CPU is in exactly one of the wait
\* queues and the ready queue, once; on the CPU it is in one of them only between joining
\* a wait queue and its schedule(true), where the handler may already wake it.
OneQueue ==
    ~spun =>
        /\ \A q \in Place : IsInjective(Line(q))
        /\ \A q, r \in Place : q # r => ToSet(Line(q)) \cap ToSet(Line(r)) = {}
        /\ \A t \in Reader : t = current \/ Queued(t)
        /\ \A t \in Reader : pc[t] = "sleep" <=> t = current /\ Queued(t)

\* wait_for_object, wakeup_waiting and the spin locks, called by readers and by the
\* keyboard handler on top of them, keep every reader findable and no lock with a
\* sleeper.
WaitersOK == TypeOK /\ NoLockAsleep /\ OneQueue

\* Where a reader is when it holds a lock.
LocksOK ==
    \A l \in Lock, t \in Reader : lock[l] = t =>
        IF l = "cb" THEN pc[t] = "unlock"
        ELSE l = wq[t] /\ pc[t] \in {"acquire", "wait", "object", "notify", "release"}

\* Between the two, the lock of the buffer is held.
CbHeld == \A t \in Reader : pc[t] = "unlock" => lock["cb"] = t

\* A handler that is running still has its iret before it, as the last of its stages.
HandlersEnd == \A t \in Thread : irq[t] # <<>> => irq[t][Len(irq[t])][1] = "iret"

\* What makes WaitersOK inductive.
WaitInv == WaitersOK /\ LocksOK /\ CbHeld /\ HandlersEnd

\* One of the handlers pending on a stack waits, or will when those above it have
\* returned, for a lock that a reader of B holds.
Waits(stages, B) ==
    \E i \in DOMAIN stages :
        /\ i = 1 \/ stages[i - 1][1] = "iret"
        /\ StageLock(stages[i]) \in Lock /\ lock[StageLock(stages[i])] \in B

\* What the refinement rests on: whoever holds a lock is on the CPU or in B, where each
\* waits for a lock of another, so that none of their locks is ever free again.  Thus a
\* byte that waits to be written has the room which was there when it was accepted, no
\* step of a reader or a second handler coming between, or is never written.
Room(B) ==
    /\ \A t \in B : Waits(irq[t], B)
    /\ \A l \in Lock : lock[l] \in B \cup {current, Free}
    /\ \A t \in Thread : \A i \in DOMAIN irq[t] : irq[t][i][1] = "put" =>
           \/ lock["cb"] \in B
           \/ t = current /\ i = 1 /\ ~int_on /\ Ring!ring_buffer_writeable >= 1

RoomInv == \E B \in SUBSET Reader : Room(B)

\* With the keyboard writing from interrupts and readers taking from it, the ring is
\* still a first-in first-out queue: the handler's test for room holds until it writes.
RingIsQueue == Ring!ImplementsQueue

\* Wakeups are lost, but never two in a row: as long as lines keep coming, every reader
\* that waits for one is woken.
LinesWake ==
    []<><<signal_input_ready>>_vars =>
        \A t \in Reader :
            t \in ToSet(waiting["pair_read"]) ~> t \notin ToSet(waiting["pair_read"])

\* Once no more keys come, a call of read() returns or sleeps in a wait queue: it never
\* goes round its loops forever, unless a handler deadlocked.
ReadSettles ==
    <>[][\A key \in Key : ~keyboard_handler(key)]_vars =>
        \A t \in Reader :
            pc[t] # "user" ~> \/ pc[t] = "user"
                              \/ \E q \in Queue : t \in ToSet(waiting[q])
                              \/ \E r \in Reader : SelfDeadlock(r)
-----------------------------------------------------------------------------
(***************************************************************************)
(* What the repository's comments say and the code does not do.            *)
(***************************************************************************)
\* ring_buffer.c: "Finished with writing, wake up sleepers on read".
WriteWakesReaders == [][IrqNotify /\ Arg = "cb_read" => waiting'["cb_read"] = <<>>]_vars

\* ring_buffer.c on mutex_acquire_if_free: "If the mutex isnt acquired, it acquires it
\* but doesnt block."
AcquireDoesNotBlock ==
    \A t \in Reader : SelfDeadlock(t) ~> ~SelfDeadlock(t)
=============================================================================
