------------------------------ MODULE Scheduler ------------------------------
(***************************************************************************)
(* The single-core scheduler and the process life cycle of the kernel:     *)
(* kernel/proc/process.c, the system calls of kernel/sys/syscall.c that    *)
(* block, wake, create and delete processes, and the timer interrupt of    *)
(* kernel/arch/amd64/pit.c.                                                *)
(*                                                                         *)
(* The kernel is not preemptive: the timer returns at once when it         *)
(* interrupts kernel code, so what a system call does up to its next       *)
(* schedule() is one step.  A process that schedule() switched out inside  *)
(* the kernel remembers where it continues in pc.                          *)
(*                                                                         *)
(* Process ids are never reused (++id_generator), so a process_t is its    *)
(* id; MaxPid bounds the number of forks.  sleepTick and the tick counter  *)
(* are only ever compared, so the model keeps ticksLeft = sleepTick -      *)
(* counter, cut off at 0.                                                  *)
(***************************************************************************)
EXTENDS Integers, SequencesExt

CONSTANTS
    MaxPid,    \* bound on id_generator
    MaxSleep,  \* bound on the ticks a caller asks to sleep
    Futex      \* addresses used as futexes

ASSUME MaxPidAssumption == MaxPid \in Nat \ {0}
ASSUME MaxSleepAssumption == MaxSleep \in Nat \ {0}

Pid == 1..MaxPid
Idle == 0      \* kernel_idle_process, id 0
InitProc == 1  \* created by process_create_task with id 1
NoProc == 0    \* empty futex slot

ON_CPU == "ON_CPU"
SLEEP == "SLEEP_INTERRUPTIBLE"
FINISHED == "FINISHED"
Flag == {ON_CPU, SLEEP, FINISHED}

\* Where a process continues when it is on the CPU:
\*   user   in user mode, or about to return there
\*   spin   in spin_lock(sleep_lock)
\*   futex  in sys_futex(FUTEX_WAIT), after its sleep()
\*   wait4  in sys_wait4, after its schedule(true)
Where == {"user", "spin", "futex", "wait4"}

VARIABLES
    current,         \* pcb.current_process
    thread_queue,    \* ready processes, served from the head
    sleeping_queue,  \* processes in sleep()
    waiting,         \* mutex->waiting of the terminal's wait queue
    ticksLeft,       \* sleepTick - counter of every process
    sleep_lock,      \* TRUE while the spin lock is held
    flags,           \* process->flags
    pc,
    id_generator,
    process_list,
    children,        \* process_tree: the ordered children of every node
    futex_queue,     \* hash table: futex address -> the process under that key
    machine          \* running, panicked (panic()), faulted (exception_handler halts)

vars == <<current, thread_queue, sleeping_queue, waiting, ticksLeft, sleep_lock,
          flags, pc, id_generator, process_list, children, futex_queue, machine>>
lifeVars == <<id_generator, process_list, children>>

(***************************************************************************)
(* Init: init (pid 1) has been entered by process_create_task.  It was not *)
(* dispatched by schedule(), so ON_CPU is not set yet.                     *)
(***************************************************************************)
Init ==
    /\ current = InitProc
    /\ thread_queue = <<>>
    /\ sleeping_queue = <<>>
    /\ waiting = <<>>
    /\ ticksLeft = [p \in Pid |-> 0]
    /\ sleep_lock = FALSE
    /\ flags = [p \in Pid |-> {}]
    /\ pc = [p \in Pid |-> "user"]
    /\ id_generator = 1
    /\ process_list = <<InitProc>>
    /\ children = [p \in Pid |-> <<>>]
    /\ futex_queue = [f \in Futex |-> NoProc]
    /\ machine = "running"

(***************************************************************************)
(* schedule(sleep), entered with ready queue tq and flags fl (which the    *)
(* caller may just have changed): take the outgoing process off the CPU,   *)
(* queue it again unless it sleeps or is the idle process, and dispatch    *)
(* the head of the queue, or idle when the queue is empty.                 *)
(***************************************************************************)
\* Mutant: schedule_process queues at the head.
schedule_process_AtHead(q, fl, p) == <<<<p>> \o q, [fl EXCEPT ![p] = @ \ {SLEEP}]>>

schedule_process(q, fl, p) == <<Append(q, p), [fl EXCEPT ![p] = @ \ {SLEEP}]>>

schedule(sleep, tq, fl) ==
    LET off  == [p \in Pid |-> IF p = current THEN fl[p] \ {ON_CPU} ELSE fl[p]]
        next == IF current = Idle \/ sleep THEN <<tq, off>>
                ELSE schedule_process(tq, off, current)
    IN  IF next[1] = <<>>
        THEN /\ current' = Idle
             /\ thread_queue' = <<>>
             /\ flags' = next[2]
        ELSE /\ current' = Head(next[1])
             /\ thread_queue' = Tail(next[1])
             /\ flags' = [next[2] EXCEPT ![Head(next[1])] = @ \cup {ON_CPU}]

\* The current process executes user code and may trap into the kernel.
InUser == machine = "running" /\ current \in Pid /\ pc[current] = "user"

\* spin_lock(sleep_lock) while the lock is held: schedule(false) and try again.
spin_lock(fl) ==
    /\ sleep_lock
    /\ pc' = [pc EXCEPT ![current] = "spin"]
    /\ schedule(FALSE, thread_queue, fl)

\* A process spinning on sleep_lock is on the CPU again.  Nobody switches away
\* between taking and releasing sleep_lock, so a lock that is held here was left
\* held by wakeup_now and the test fails every time.
Spin ==
    /\ machine = "running" /\ current \in Pid /\ pc[current] = "spin"
    /\ spin_lock(flags)
    /\ UNCHANGED <<sleeping_queue, waiting, ticksLeft, sleep_lock, lifeVars,
                   futex_queue, machine>>

sys_yield ==
    /\ InUser
    /\ schedule(FALSE, thread_queue, flags)
    /\ UNCHANGED <<sleeping_queue, waiting, ticksLeft, sleep_lock, pc, lifeVars,
                   futex_queue, machine>>

\* idle(): hlt returns after an interrupt and the loop calls schedule(false).
idle ==
    /\ machine = "running" /\ current = Idle
    /\ schedule(FALSE, thread_queue, flags)
    /\ UNCHANGED <<sleeping_queue, waiting, ticksLeft, sleep_lock, pc, lifeVars,
                   futex_queue, machine>>
-----------------------------------------------------------------------------
(***************************************************************************)
(* Timer.  pit_interrupt counts the tick; only when it interrupted user    *)
(* code it goes on to wakeup_sleeping() and schedule(false).               *)
(***************************************************************************)
\* Mutant: the remaining ticks run below 0.
Elapsed_NoFloor == [p \in Pid |-> ticksLeft[p] - 1]

Elapsed == [p \in Pid |-> IF ticksLeft[p] = 0 THEN 0 ELSE ticksLeft[p] - 1]

\* The tick interrupts kernel code, the idle loop included.
TickInKernel ==
    /\ machine = "running"
    /\ ticksLeft' = Elapsed
    /\ UNCHANGED <<current, thread_queue, sleeping_queue, waiting, sleep_lock, flags,
                   pc, lifeVars, futex_queue, machine>>

\* Mutant: the loop starts behind the head of the list.
FirstExpired_SkipsHead(i) ==
    /\ i \in DOMAIN sleeping_queue /\ i > 1
    /\ Elapsed[sleeping_queue[i]] = 0
    /\ \A j \in DOMAIN sleeping_queue : j > 1 /\ Elapsed[sleeping_queue[j]] = 0 => i <= j

\* i is the first entry of sleeping_queue whose sleepTick has been reached.
FirstExpired(i) ==
    /\ i \in DOMAIN sleeping_queue
    /\ Elapsed[sleeping_queue[i]] = 0
    /\ \A j \in DOMAIN sleeping_queue : Elapsed[sleeping_queue[j]] = 0 => i <= j

\* Mutant: the woken process stays in sleeping_queue.
wakeup_sleeping_NoDelete ==
    \/ /\ \A i \in DOMAIN sleeping_queue : ~FirstExpired(i)
       /\ schedule(FALSE, thread_queue, flags)
       /\ UNCHANGED sleeping_queue
    \/ \E i \in DOMAIN sleeping_queue :
       /\ FirstExpired(i)
       /\ UNCHANGED sleeping_queue
       /\ LET woken == schedule_process(thread_queue, flags, sleeping_queue[i])
          IN  schedule(FALSE, woken[1], woken[2])

\* wakeup_sleeping, then the schedule(false) of pit_interrupt.  list_delete
\* clears entry->next before the loop reads it, so the loop ends at the first
\* expired sleeper: one tick wakes at most one process.
wakeup_sleeping ==
    \/ /\ \A i \in DOMAIN sleeping_queue : ~FirstExpired(i)
       /\ schedule(FALSE, thread_queue, flags)
       /\ UNCHANGED sleeping_queue
    \/ \E i \in DOMAIN sleeping_queue :
       /\ FirstExpired(i)
       /\ sleeping_queue' = RemoveAt(sleeping_queue, i)
       /\ LET woken == schedule_process(thread_queue, flags, sleeping_queue[i])
          IN  schedule(FALSE, woken[1], woken[2])

TickInUser ==
    /\ InUser
    /\ ticksLeft' = Elapsed
    /\ \/ spin_lock(flags) /\ UNCHANGED sleeping_queue
       \/ ~sleep_lock /\ wakeup_sleeping /\ UNCHANGED pc
    /\ UNCHANGED <<waiting, sleep_lock, lifeVars, futex_queue, machine>>
-----------------------------------------------------------------------------
(***************************************************************************)
(* Blocking and waking.                                                    *)
(***************************************************************************)
\* sleep(): t = milliseconds / 10 + 1 ticks, then continue at cont.
sleep(t, cont) ==
    LET fl == [flags EXCEPT ![current] = (@ \cup {SLEEP}) \ {ON_CPU}]
    IN  /\ ticksLeft' = [ticksLeft EXCEPT ![current] = t]
        /\ \/ spin_lock(fl) /\ UNCHANGED sleeping_queue
           \/ /\ ~sleep_lock
              /\ sleeping_queue' = Append(sleeping_queue, current)
              /\ pc' = [pc EXCEPT ![current] = cont]
              /\ schedule(TRUE, thread_queue, fl)

sys_nanosleep ==
    /\ InUser
    /\ \E t \in 1..MaxSleep : sleep(t, "user")
    /\ UNCHANGED <<waiting, sleep_lock, lifeVars, futex_queue, machine>>

\* FUTEX_WAIT with the expected value in memory: ht_insert overwrites the
\* process that an earlier waiter stored under the same address.
FutexWait(f) ==
    /\ InUser
    /\ futex_queue' = [futex_queue EXCEPT ![f] = current]
    /\ \E t \in 1..MaxSleep : sleep(t, "futex")
    /\ UNCHANGED <<waiting, sleep_lock, lifeVars, machine>>

\* The end of FUTEX_WAIT: ht_remove_by_key_and_value takes out its own entry.
FutexWaitReturn ==
    /\ machine = "running" /\ current \in Pid /\ pc[current] = "futex"
    /\ futex_queue' = [f \in Futex |-> IF futex_queue[f] = current THEN NoProc
                                       ELSE futex_queue[f]]
    /\ pc' = [pc EXCEPT ![current] = "user"]
    /\ UNCHANGED <<current, thread_queue, sleeping_queue, waiting, ticksLeft,
                   sleep_lock, flags, lifeVars, machine>>

\* wakeup_now: cpu is 0 for every process, so "cpu != core || cpu != -1" is
\* always true and the function returns with sleep_lock held.
wakeup_now ==
    \/ spin_lock(flags) /\ UNCHANGED sleep_lock
    \/ ~sleep_lock /\ sleep_lock' = TRUE
       /\ UNCHANGED <<current, thread_queue, flags, pc>>

FutexWake(f) ==
    /\ InUser
    /\ futex_queue[f] # NoProc
    /\ wakeup_now
    /\ UNCHANGED <<sleeping_queue, waiting, ticksLeft, lifeVars, futex_queue, machine>>

\* A read of the empty terminal: mutex_wait -> wait_for_object.
wait_for_object ==
    /\ InUser
    /\ waiting' = Append(waiting, current)
    /\ schedule(TRUE, thread_queue, [flags EXCEPT ![current] = @ \cup {SLEEP}])
    /\ UNCHANGED <<sleeping_queue, ticksLeft, sleep_lock, pc, lifeVars, futex_queue,
                   machine>>

\* Mutant: only the first waiter is scheduled before the list is emptied.
wakeup_waiting_OnlyFirst ==
    /\ machine = "running"
    /\ waiting # <<>>
    /\ thread_queue' = Append(thread_queue, Head(waiting))
    /\ flags' = [flags EXCEPT ![Head(waiting)] = @ \ {SLEEP}]
    /\ waiting' = <<>>
    /\ UNCHANGED <<current, sleeping_queue, ticksLeft, sleep_lock, pc, lifeVars,
                   futex_queue, machine>>

\* Keyboard interrupt completing the input: mutex_release -> wakeup_waiting
\* schedules every waiter, in order, and empties the list.
wakeup_waiting ==
    /\ machine = "running"
    /\ waiting # <<>>
    /\ thread_queue' = thread_queue \o waiting
    /\ flags' = [p \in Pid |-> IF p \in ToSet(waiting) THEN flags[p] \ {SLEEP}
                               ELSE flags[p]]
    /\ waiting' = <<>>
    /\ UNCHANGED <<current, sleeping_queue, ticksLeft, sleep_lock, pc, lifeVars,
                   futex_queue, machine>>
-----------------------------------------------------------------------------
(***************************************************************************)
(* Process creation and deletion.                                          *)
(***************************************************************************)
\* process_get_all_children: the descendants of p, in preorder.
process_get_all_children(p) ==
    LET recur[q \in Pid] ==
            FlattenSeq([i \in DOMAIN children[q] |->
                           <<children[q][i]>> \o recur[children[q][i]]])
    IN  recur[p]

\* tree_find_child_root(process_tree, p) # NULL: the search down from the root meets
\* p, that is, p is in every set that holds init and is closed under children.
InTree(p) ==
    \A S \in SUBSET Pid :
        InitProc \in S /\ (\A q \in S : ToSet(children[q]) \subseteq S) => p \in S

\* process_fork: the child is ready, and a child of its parent's tree node, or
\* of the root when the parent is no longer in the tree.
process_fork ==
    LET child == id_generator + 1
        node  == IF InTree(current) THEN current ELSE InitProc
    IN  /\ InUser
        /\ id_generator < MaxPid
        /\ id_generator' = child
        /\ flags' = [flags EXCEPT ![child] = flags[current] \ {ON_CPU}]
        /\ process_list' = Append(process_list, child)
        /\ thread_queue' = Append(thread_queue, child)
        /\ children' = [children EXCEPT ![node] = Append(@, child)]
        /\ UNCHANGED <<current, sleeping_queue, waiting, ticksLeft, sleep_lock, pc,
                       futex_queue, machine>>

\* Mutant: schedule(false) puts the finished process back into the ready queue.
Finish_Requeues == schedule(FALSE, thread_queue, [flags EXCEPT ![current] = {FINISHED}])

\* The common end of process_exit and process_thread_exit.
Finish == schedule(TRUE, thread_queue, [flags EXCEPT ![current] = {FINISHED}])

\* sys_exit -> process_thread_exit unmaps the kernel stack it runs on (no TLB
\* flush) before it calls schedule(true): the call may fault.
process_thread_exit ==
    /\ InUser /\ current # InitProc
    /\ \/ Finish /\ UNCHANGED machine
       \/ /\ machine' = "faulted"
          /\ flags' = [flags EXCEPT ![current] = {FINISHED}]
          /\ UNCHANGED <<current, thread_queue>>
    /\ UNCHANGED <<sleeping_queue, waiting, ticksLeft, sleep_lock, pc, lifeVars,
                   futex_queue>>

\* sys_exit_group -> process_exit.  The loop over the children never kills one
\* (it tests its own FINISHED flag), but it needs the tree node of the caller,
\* which is NULL once an ancestor was reaped.
process_exit ==
    /\ InUser /\ current # InitProc
    /\ \/ Finish /\ UNCHANGED machine
       \/ /\ ~InTree(current)
          /\ machine' = "faulted"
          /\ flags' = [flags EXCEPT ![current] = {FINISHED}]
          /\ UNCHANGED <<current, thread_queue>>
    /\ UNCHANGED <<sleeping_queue, waiting, ticksLeft, sleep_lock, pc, lifeVars,
                   futex_queue>>

\* Either exit call in init: panic().
InitExit ==
    /\ InUser /\ current = InitProc
    /\ machine' = "panicked"
    /\ UNCHANGED <<current, thread_queue, sleeping_queue, waiting, ticksLeft,
                   sleep_lock, flags, pc, lifeVars, futex_queue>>

\* Mutant: every index is counted from 0.
list_remove_by_index_ZeroBased(s, i) ==
    IF i + 1 \in DOMAIN s THEN RemoveAt(s, i + 1) ELSE s

\* list_remove_by_index: index 0 is the head, index i > 0 the i-th entry; for
\* i = length the tail is deleted and the search then runs off the list.
list_remove_by_index(s, i) ==
    LET t == IF i = Len(s) THEN Front(s) ELSE s
    IN  CASE s = <<>>             -> s
          [] s # <<>> /\ i = 0    -> Tail(t)
          [] i > Len(t) /\ i > 0  -> t
          [] OTHER                -> RemoveAt(t, i)

Position(s, x) == CHOOSE i \in DOMAIN s : s[i] = x

\* tree_remove cuts off the node of q with everything below it.
tree_remove(q) ==
    children' = [r \in Pid |-> IF q \in ToSet(children[r])
                               THEN RemoveAt(children[r], Position(children[r], q))
                               ELSE children[r]]

\* Mutant: whatever wait4 selected is reaped, finished or not.
process_reap_AnyChild(q) ==
    /\ tree_remove(q)
    /\ process_list' = SelectSeq(process_list, LAMBDA r : r # q)

\* process_reap of a finished process q.
process_reap(q) ==
    /\ FINISHED \in flags[q]
    /\ tree_remove(q)
    /\ process_list' = IF q \in ToSet(process_list)
                       THEN list_remove_by_index(process_list, Position(process_list, q))
                       ELSE process_list

\* is_selected; every forked process and init have tgid = id.
is_selected(pid, q, parent) ==
    \/ pid < -1 /\ q = -pid
    \/ pid = 0 /\ q = parent
    \/ pid > 0 /\ q = pid
    \/ pid = -1

\* sys_wait4 without WNOHANG.  It looks at the descendants in preorder and acts
\* on the first that is finished (reap it) or selected (return its pid, although
\* it still runs: no state changes).
Wait4Stop(pid, list) ==
    {i \in DOMAIN list : FINISHED \in flags[list[i]] \/ is_selected(pid, list[i], current)}

Wait4Reap(pid) ==
    LET list == process_get_all_children(current)
    IN  /\ InUser /\ InTree(current)
        /\ \E q \in Pid, i \in Wait4Stop(pid, list) :
           /\ q = list[i]
           /\ \A j \in Wait4Stop(pid, list) : i <= j
           /\ process_reap(q)
        /\ UNCHANGED <<current, thread_queue, sleeping_queue, waiting, ticksLeft,
                       sleep_lock, flags, pc, id_generator, futex_queue, machine>>

\* No descendant is finished or selected: schedule(true), and nothing ever
\* schedules the process again.
Wait4Block(pid) ==
    /\ InUser /\ InTree(current)
    /\ children[current] # <<>>
    /\ Wait4Stop(pid, process_get_all_children(current)) = {}
    /\ pc' = [pc EXCEPT ![current] = "wait4"]
    /\ schedule(TRUE, thread_queue, flags)
    /\ UNCHANGED <<sleeping_queue, waiting, ticksLeft, sleep_lock, lifeVars,
                   futex_queue, machine>>

\* The caller is no longer in the tree: my_node is NULL and is dereferenced.
Wait4Orphan ==
    /\ InUser /\ ~InTree(current)
    /\ machine' = "faulted"
    /\ UNCHANGED <<current, thread_queue, sleeping_queue, waiting, ticksLeft,
                   sleep_lock, flags, pc, lifeVars, futex_queue>>

sys_wait4 ==
    \/ \E pid \in -MaxPid..MaxPid : Wait4Reap(pid) \/ Wait4Block(pid)
    \/ Wait4Orphan
-----------------------------------------------------------------------------
Next ==
    \/ Spin \/ sys_yield \/ idle
    \/ TickInKernel \/ TickInUser
    \/ sys_nanosleep
    \/ \E f \in Futex : FutexWait(f) \/ FutexWake(f)
    \/ FutexWaitReturn
    \/ wait_for_object \/ wakeup_waiting
    \/ process_fork \/ process_thread_exit \/ process_exit \/ InitExit
    \/ sys_wait4

Spec == Init /\ [][Next]_vars

(***************************************************************************)
(* Fairness: the timer keeps ticking, the CPU keeps executing kernel code, *)
(* and a process that stays in user mode is interrupted by the timer.  No  *)
(* system call is forced.                                                  *)
(***************************************************************************)
Fairness ==
    /\ WF_vars(TickInKernel)
    /\ WF_vars(Spin)
    /\ WF_vars(idle)
    /\ WF_vars(FutexWaitReturn)
    /\ WF_vars(TickInUser)

FairSpec == Spec /\ Fairness
-----------------------------------------------------------------------------
TypeOK ==
    /\ current \in Pid \cup {Idle}
    /\ thread_queue \in Seq(Pid)
    /\ sleeping_queue \in Seq(Pid)
    /\ waiting \in Seq(Pid)
    /\ ticksLeft \in [Pid -> 0..MaxSleep]
    /\ sleep_lock \in BOOLEAN
    /\ flags \in [Pid -> SUBSET Flag]
    /\ pc \in [Pid -> Where]
    /\ id_generator \in Pid
    /\ process_list \in Seq(Pid)
    /\ children \in [Pid -> Seq(Pid)]
    /\ futex_queue \in [Futex -> Pid \cup {NoProc}]
    /\ machine \in {"running", "panicked", "faulted"}

Blocked == {p \in Pid : pc[p] = "wait4"}
OnCpu == {current} \ {Idle}
Listed == ToSet(process_list)
Live == {p \in Listed : FINISHED \notin flags[p]}

\* A process is in at most one of: the CPU, the ready queue, the sleeping queue,
\* the terminal's wait list, blocked in wait4; and at most once.  schedule(),
\* sleep(), wait_for_object() and the wakeups move it between them without a lock.
OnePlace ==
    /\ IsInjective(thread_queue) /\ IsInjective(sleeping_queue) /\ IsInjective(waiting)
    /\ ToSet(thread_queue) \cap ToSet(sleeping_queue) = {}
    /\ ToSet(thread_queue) \cap ToSet(waiting) = {}
    /\ ToSet(sleeping_queue) \cap ToSet(waiting) = {}
    /\ OnCpu \cap (ToSet(thread_queue) \cup ToSet(sleeping_queue) \cup ToSet(waiting)) = {}
    /\ Blocked \cap (OnCpu \cup ToSet(thread_queue) \cup ToSet(sleeping_queue)
                          \cup ToSet(waiting)) = {}

Placed == OnCpu \cup ToSet(thread_queue) \cup ToSet(sleeping_queue) \cup ToSet(waiting)
              \cup Blocked

\* No live process falls out of every queue: a process that has not finished is
\* always somewhere from which the code could continue it.
NeverLost == Live \subseteq Placed

\* The CPU, the queues and the futex table hold no process that exited, or that
\* process_reap freed (a dangling process_t pointer).
NoDangling ==
    machine = "running" =>
        /\ Placed \subseteq Live
        /\ \A f \in Futex : futex_queue[f] \in Live \cup {NoProc}

\* process->flags agrees with where the process is: ON_CPU only for the current
\* process, SLEEP_INTERRUPTIBLE exactly for the processes on a sleep or wait list.
FlagsAgree ==
    \A p \in Pid :
        /\ ON_CPU \in flags[p] => p = current
        /\ SLEEP \in flags[p] <=> p \in ToSet(sleeping_queue) \cup ToSet(waiting)

\* process_reap takes exactly the reaped process out of process_list and the tree:
\* a process missing from the list has finished, none is listed twice, and what
\* the tree still reaches is listed.
ListAgreesWithTree ==
    /\ IsInjective(process_list)
    /\ \A p \in 1..id_generator : p \notin Listed => FINISHED \in flags[p]
    /\ \A p \in Pid : InTree(p) => p \in Listed

\* The books that process_exit, process_reap, schedule and the sleeping calls keep
\* beside each other agree: status flags with queues, process_list with the tree.
BooksAgree == FlagsAgree /\ ListAgreesWithTree

\* The inductive invariant: where processes are, that ids are handed out upwards,
\* and that a process in the futex table is still inside sys_futex.
Born == Placed \cup Listed \subseteq 1..id_generator
FutexOwner == \A f \in Futex, p \in Pid : futex_queue[f] = p => pc[p] \in {"futex", "spin"}

IndInv == TypeOK /\ OnePlace /\ NeverLost /\ NoDangling /\ Born /\ FutexOwner

\* What makes BooksAgree inductive: init neither finishes nor leaves the list, and
\* every tree node, also one of a subtree that is cut off, is a listed process.
TreeListed ==
    /\ InitProc \in Live
    /\ \A r \in Pid : IsInjective(children[r]) /\ ToSet(children[r]) \subseteq Listed

BookInv == IndInv /\ BooksAgree /\ TreeListed

\* The scheduler implements the abstract life of a process.
StageOf(p) ==
    CASE p > id_generator                -> "unborn"
      [] p = current                     -> "running"
      [] p \in ToSet(thread_queue)       -> "ready"
      [] p \in Listed \ (Live \cup OnCpu) -> "zombie"
      [] p \in 1..id_generator \ Listed  -> "gone"
      [] OTHER                           -> "asleep"

Life == INSTANCE ProcessLife WITH st <- [p \in Pid |-> StageOf(p)]

\* Every stretch of kernel code moves each process along a legal edge of its life;
\* the CPU runs one process and idles only when nobody is ready.
ImplementsLife == Life!LifeSpec

\* Every ready process gets the CPU, also among processes that spin on a lock.
RoundRobin ==
    \A p \in Pid : p \in ToSet(thread_queue) ~> (current = p \/ machine # "running")

\* As long as the timer keeps hitting user code and sleep_lock is not lost, every
\* sleeper is woken, although one tick wakes at most one of them.
SleepersWake ==
    ([]<><<TickInUser>>_vars /\ []~sleep_lock) =>
        \A p \in Pid : p \in ToSet(sleeping_queue) ~> p \notin ToSet(sleeping_queue)
-----------------------------------------------------------------------------
(***************************************************************************)
(* What the repository's comments say and the code does not do.            *)
(***************************************************************************)
\* process.h on sleep(): "This method waits until x milliseconds passed".
SleepEnds ==
    \A p \in Pid : p \in ToSet(sleeping_queue) ~>
        (p \notin ToSet(sleeping_queue) \/ machine # "running")

\* syscall.c on FUTEX_WAIT: "We're just gonna sleep for 10 milliseconds then
\* reschedule", here even with a CPU that always has something to run.
FutexSleepEnds ==
    [](current # Idle /\ machine = "running") =>
        \A p \in Pid : pc[p] = "futex" ~> pc[p] = "user"

\* process.c at the end of process_exit: "Now we wait until someone cleans it up."
\* sys_wait4 finds what it cleans up through the process tree.
ZombieCanBeReaped == \A p \in Listed \ Live : machine = "running" => InTree(p)
=============================================================================
