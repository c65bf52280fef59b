----------------------------- MODULE ProcessLife -----------------------------
(***************************************************************************)
(* What the scheduler promises about the life of a process, without the    *)
(* queues, flags and locks it uses to keep the promise.                    *)
(***************************************************************************)
EXTENDS Integers

CONSTANT Pid  \* process ids, in the order of creation

VARIABLE st   \* the stage of life of every process

Stage == {"unborn", "ready", "running", "asleep", "zombie", "gone"}

Running(s) == {p \in Pid : s[p] = "running"}

LifeInit == st = [p \in Pid |-> IF p = 1 THEN "running" ELSE "unborn"]

\* What one uninterrupted stretch of kernel code may do to one process.  A
\* sleeper may be woken and dispatched in the same stretch.
Legal ==
    {<<s, s>> : s \in Stage} \cup
    {<<"unborn", "ready">>, <<"ready", "running">>, <<"running", "ready">>,
     <<"running", "asleep">>, <<"running", "zombie">>, <<"asleep", "ready">>,
     <<"asleep", "running">>, <<"zombie", "gone">>}

\* Births happen one at a time and in the order of the ids; there is one CPU;
\* and the CPU is given up only when nobody is ready.
LifeStep ==
    /\ st' \in [Pid -> Stage]
    /\ \A p \in Pid : <<st[p], st'[p]>> \in Legal
    /\ \A p \in Pid : st[p] = "unborn" /\ st'[p] # "unborn" =>
           \A q \in Pid \ {p} : st[q] = st'[q] /\ (q < p <=> st[q] # "unborn")
    /\ \A p, q \in Running(st') : p = q
    /\ Running(st) # {} /\ Running(st') = {} => \A p \in Pid : st'[p] # "ready"

LifeSpec == LifeInit /\ [][LifeStep]_st
=============================================================================
