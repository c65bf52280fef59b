--------------------------- MODULE ProcessTables ---------------------------
(***************************************************************************)
(* The lists and the tree of processes (proc/process.c) as structures in   *)
(* memory: every move of a process from one list to another takes an entry *)
(* from the slab allocator and returns one to it.  Scheduler has the same  *)
(* operations on sequences, with the locks, flags and ticks left out here. *)
(***************************************************************************)
EXTENDS Lists

CONSTANT MaxPid  \* processes ever created

Pid == 1..MaxPid
Idle == 0
InitProc == 1

VARIABLES
    mem,       \* lists, tree and slabs
    current,   \* pcb.current_process
    born,      \* id_generator
    finished,  \* processes with PROC_FLAG_FINISHED
    blocked,   \* processes that left the CPU in sys_wait4
    lost       \* history: the objects that nothing refers to any more

vars == <<mem, current, born, finished, blocked, lost>>

process_list == -1
thread_queue == -2
sleeping_queue == -3
waiting == -4   \* of the mutex of the terminal

ASSUME TablesAssumption == NamedLists = 4 /\ MaxPid \in Nat \ {0}

Init ==
    /\ mem = tree_insert_child(list_insert(EmptyMemory, process_list, InitProc), Null, InitProc)
    /\ current = InitProc
    /\ born = 1
    /\ finished = {} /\ blocked = {} /\ lost = {}

\* The memory after a step: what is in objects that nobody can reach is not kept, nor
\* what was done before the kernel stopped.
Reachable(m) ==
    LET nodes == IF m.head = Null THEN {} ELSE ToSet(Preorder(m, m.head))
    IN nodes \cup UNION {ToSet(Entries(m, l)) : l \in Named \cup nodes}
Store(m) ==
    LET kept == Reachable(m)
    IN mem' = IF Stopped(m) THEN [mem EXCEPT !.ok = m.ok, !.hung = m.hung]
              ELSE [m EXCEPT
                  !.entry = [o \in Object |-> IF o \in kept THEN @[o] ELSE NoEntry],
                  !.node = [o \in Object |-> IF o \in kept THEN @[o] ELSE TreeNode(Null, Null)],
                  !.list = [l \in DOMAIN @ |-> IF l \in kept \cup Named THEN @[l] ELSE EmptyList]]

\* A process in user mode makes a system call or takes an interrupt.
InUser == current # Idle /\ ~Stopped(mem)
-----------------------------------------------------------------------------
schedule_process(m, p) == list_insert(m, thread_queue, p)

\* As it would be if a queue of one counted as empty.
get_next_process_OffByOne(m) ==
    LET e == m.list[thread_queue].head
        gone == list_remove_by_index(m, thread_queue, 0)
    IN IF m.list[thread_queue].length <= 1 THEN [mem |-> m, pid |-> Idle]
       ELSE [mem |-> gone, pid |-> gone.entry[e].value]

\* get_next_process reads the value of the entry after it was freed; the idle process
\* if there is none.
get_next_process(m) ==
    LET e == m.list[thread_queue].head
        gone == list_remove_by_index(m, thread_queue, 0)
    IN IF m.list[thread_queue].length = 0 THEN [mem |-> m, pid |-> Idle]
       ELSE [mem |-> gone, pid |-> gone.entry[e].value]

\* schedule(sleep) in the memory m.
schedule(sleep, m) ==
    LET queued == IF current # Idle /\ ~sleep THEN schedule_process(m, current) ELSE m
        next == get_next_process(queued)
    IN IF Stopped(queued) THEN Store(queued) /\ UNCHANGED current
       ELSE Store(next.mem) /\ current' = next.pid

sys_yield == InUser /\ schedule(FALSE, mem) /\ UNCHANGED <<born, finished, blocked, lost>>

\* The idle loop looks for a process after every interrupt.
idle == /\ current = Idle /\ ~Stopped(mem)
        /\ schedule(FALSE, mem)
        /\ UNCHANGED <<born, finished, blocked, lost>>

sleep ==
    /\ InUser
    /\ schedule(TRUE, list_insert(mem, sleeping_queue, current))
    /\ UNCHANGED <<born, finished, blocked, lost>>

wait_for_object ==
    /\ InUser
    /\ schedule(TRUE, list_insert(mem, waiting, current))
    /\ UNCHANGED <<born, finished, blocked, lost>>

\* One sleeper is woken: its entry is freed, and maybe taken again for thread_queue.
WakeEntry(m, e) ==
    schedule_process(list_delete(m, sleeping_queue, e), m.entry[e].value)

\* wakeup_sleeping, when the time of the processes in expired has come.  The loop goes
\* on with the next of the entry that it has freed.
RECURSIVE WakeFrom(_, _, _)
WakeFrom(m, e, expired) ==
    LET after == IF m.entry[e].value \in expired THEN WakeEntry(m, e) ELSE m
    IN IF e = Null \/ Stopped(m) THEN m ELSE WakeFrom(after, after.entry[e].next, expired)

wakeup_sleeping(m, expired) == WakeFrom(m, m.list[sleeping_queue].head, expired)

\* The tick in user mode.
pit_interrupt ==
    /\ InUser
    /\ \E expired \in SUBSET ToSet(Contents(mem, sleeping_queue)) :
           schedule(FALSE, wakeup_sleeping(mem, expired))
    /\ UNCHANGED <<born, finished, blocked, lost>>

\* wakeup_waiting, called by the keyboard handler: every waiting process is scheduled
\* and its entry deleted, until the list is empty.
RECURSIVE WakeAll(_)
WakeAll(m) ==
    IF Stopped(m) \/ m.list[waiting].length = 0 THEN m
    ELSE WakeAll(list_remove_by_index(
                     schedule_process(m, m.entry[m.list[waiting].head].value), waiting, 0))

wakeup_waiting ==
    /\ ~Stopped(mem)
    /\ mem.list[waiting].length > 0
    /\ Store(WakeAll(mem))
    /\ UNCHANGED <<current, born, finished, blocked, lost>>

process_fork ==
    LET child == born + 1
        found == tree_find_child_root(mem, current)
        listed == schedule_process(list_insert(mem, process_list, child), child)
        treed == tree_insert_child(listed, IF found = Null THEN mem.head ELSE found, child)
    IN /\ InUser /\ born < MaxPid
       /\ Store(treed)
       /\ born' = IF Stopped(treed) THEN born ELSE child
       /\ UNCHANGED <<current, finished, blocked, lost>>

\* process_thread_exit and process_exit; neither touches the list or the tree.
\* process_exit looks for its node, and follows NULL if there is none.
process_thread_exit ==
    /\ InUser /\ current # InitProc
    /\ finished' = finished \cup {current}
    /\ schedule(TRUE, mem)
    /\ UNCHANGED <<born, blocked, lost>>

process_exit ==
    /\ InUser /\ current # InitProc
    /\ IF mem.list[process_list].length > 1 /\ tree_find_child_root(mem, current) = Null
       THEN Store(Fault(mem)) /\ UNCHANGED <<current, finished>>
       ELSE finished' = finished \cup {current} /\ schedule(TRUE, mem)
    /\ UNCHANGED <<born, blocked, lost>>

\* process_reap.  The index is counted along prev from the entry to the head.
process_reap(m, p) ==
    LET n == tree_find_child_root(m, p)
        cut == IF n = Null THEN m ELSE tree_remove(m, n)
        e == list_find(cut, process_list, p)
        index == Len(Backward(cut, e))
    IN IF e = Null THEN cut ELSE list_remove_by_index(cut, process_list, index)

\* process_get_all_children of a node builds a list of the descendants; sys_wait4 does
\* not free it.  Its entries are taken one by one.
process_get_all_children(m, n) ==
    LET below == Tail(Preorder(m, n))
    IN FoldLeft(LAMBDA s, k :
                    IF Stopped(s.mem) THEN s
                    ELSE LET new == kmalloc(s.mem.slabs)
                         IN IF new.obj = Null THEN [s EXCEPT !.mem.hung = TRUE]
                            ELSE [mem |-> [s.mem EXCEPT !.slabs = new.slabs],
                                  taken |-> s.taken \cup {new.obj},
                                  pids |-> Append(s.pids, m.node[k].value)],
                [mem |-> m, taken |-> {}, pids |-> <<>>], below)

\* What a node and everything below it takes: nodes, and entries in lists of children.
Subtree(m, n) ==
    LET nodes == ToSet(Preorder(m, n))
    IN nodes \cup UNION {ToSet(Entries(m, k)) : k \in nodes}

\* The pid that is passed selects one process, none (0), or all (-1).
Selected == {{}, Pid} \cup {{p} : p \in Pid}

\* sys_wait4 acts on the first descendant that has finished or is one of selected: it
\* reaps it in the first case.  Without such a descendant it blocks for good.
sys_wait4 ==
    LET n == tree_find_child_root(mem, current)
        list == process_get_all_children(mem, n)
        reaped(p) == process_reap(list.mem, p)
    IN /\ InUser
       /\ \E selected \in Selected :
            LET i == SelectInSeq(list.pids, LAMBDA p : p \in finished \cup selected)
                p == list.pids[i]
            IN \/ n = Null /\ Store(Fault(mem)) /\ UNCHANGED <<current, blocked, lost>>
               \/ /\ n # Null /\ mem.list[n].length = 0
                  /\ UNCHANGED <<mem, current, blocked, lost>>
               \/ /\ n # Null /\ mem.list[n].length > 0
                  /\ CASE Stopped(list.mem) ->
                             Store(list.mem) /\ UNCHANGED <<current, blocked, lost>>
                       [] ~Stopped(list.mem) /\ i = 0 ->
                             /\ blocked' = blocked \cup {current}
                             /\ lost' = lost \cup list.taken
                             /\ schedule(TRUE, list.mem)
                       [] ~Stopped(list.mem) /\ i > 0 /\ p \notin finished ->
                             /\ Store(list.mem) /\ lost' = lost \cup list.taken
                             /\ UNCHANGED <<current, blocked>>
                       [] OTHER ->
                             /\ Store(reaped(p))
                             /\ lost' = lost \cup list.taken
                                             \cup Subtree(mem, tree_find_child_root(mem, p))
                             /\ UNCHANGED <<current, blocked>>
       /\ UNCHANGED <<born, finished>>

Next ==
    \/ sys_yield \/ idle \/ sleep \/ wait_for_object \/ pit_interrupt \/ wakeup_waiting
    \/ process_fork \/ process_thread_exit \/ process_exit \/ sys_wait4
    \/ Stopped(mem) /\ UNCHANGED vars

Spec == Init /\ [][Next]_vars
-----------------------------------------------------------------------------
TreeNodes == IF mem.head = Null THEN {} ELSE ToSet(Preorder(mem, mem.head))
InUse == Named \cup TreeNodes   \* the lists that the kernel can reach

TypeOK ==
    /\ mem.entry \in [Object -> [prev : Object \cup {Null}, next : Object \cup {Null},
                                 value : Pid \cup Object \cup {Null}]]
    /\ mem.node \in [Object -> [value : Pid \cup {Null}, parent : Object \cup {Null}]]
    /\ mem.list \in [Named \cup Object -> [head : Object \cup {Null}, tail : Object \cup {Null},
                                           length : 0..Cardinality(Object)]]
    /\ \A k \in DOMAIN mem.slabs : mem.slabs[k].free_objects \in 0..PerPage
    /\ current \in Pid \cup {Idle} /\ born \in Pid
    /\ finished \subseteq Pid /\ blocked \subseteq Pid /\ lost \subseteq Object

\* Every list reads the same from both ends and has the length it counts: no sequence
\* of insertions and of removals by entry, by index or inside a loop breaks a link.
LinksAgree ==
    \A l \in InUse :
        /\ mem.list[l].length = Len(Entries(mem, l))
        /\ Entries(mem, l) = Reverse(Backward(mem, mem.list[l].tail))

\* The objects that the slab allocator has given out are the entries and nodes in use,
\* each in one place, and those that were lost: reaping loses the node of the process,
\* and sys_wait4 its list of descendants.  Nothing else leaks, and no object is given
\* out while it is in use.
ObjectsOwned ==
    LET Ents(l) == ToSet(Entries(mem, l))
    IN ~Stopped(mem) =>
        /\ GivenOut(mem.slabs) = TreeNodes \cup lost \cup UNION {Ents(l) : l \in InUse}
        /\ \A l, k \in InUse : l # k => Ents(l) \cap Ents(k) = {}
        /\ \A l \in InUse : Ents(l) \cap (TreeNodes \cup lost) = {}

\* free_objects is what the bitmap says, although allocation sets more bits than
\* freeing clears.
FreeCounted ==
    \A k \in DOMAIN mem.slabs :
        mem.slabs[k].free_objects =
            PerPage - Cardinality({o \in GivenOut(mem.slabs) : SlabOf(o) = k})

Placed == Contents(mem, thread_queue) \o Contents(mem, sleeping_queue)
              \o Contents(mem, waiting) \o SetToSeq(blocked)
              \o (IF current = Idle THEN <<>> ELSE <<current>>)

\* The CPU, the lists and the blocked callers of sys_wait4 hold every process that has
\* not finished exactly once, and no other: also when an entry is freed and taken again
\* in one move, and when the value is read from the entry after it was freed.
OnePlace ==
    ~Stopped(mem) => IsInjective(Placed) /\ ToSet(Placed) = 1..born \ finished

\* The tree is a tree: nodes know their parents, and its processes are in process_list
\* once each; what is missing from that list has finished.
TreeAgrees ==
    LET listed == Contents(mem, process_list)
    IN ~Stopped(mem) =>
        /\ \A n \in TreeNodes : \A k \in ToSet(Contents(mem, n)) : mem.node[k].parent = n
        /\ IsInjective(listed)
        /\ {mem.node[n].value : n \in TreeNodes} \subseteq ToSet(listed)
        /\ 1..born \ ToSet(listed) \subseteq finished

\* list.c, tree.c and the slab allocator under the process functions: links, lengths,
\* counts of free objects, the place of each process and the tree agree.
TablesAgree == TypeOK /\ LinksAgree /\ FreeCounted /\ OnePlace /\ TreeAgrees

StageOf(p) ==
    LET listed == ToSet(Contents(mem, process_list))
    IN CASE p > born -> "unborn"
         [] p = current -> "running"
         [] p \in ToSet(Contents(mem, thread_queue)) -> "ready"
         [] p \in finished \cap listed -> "zombie"
         [] p \in finished \ listed -> "gone"
         [] OTHER -> "asleep"

Life == INSTANCE ProcessLife WITH st <- [p \in Pid |-> StageOf(p)]

\* The linked structures implement the abstract life of a process, as the sequences of
\* Scheduler do.
ListsImplementLife == Life!LifeSpec
=============================================================================
