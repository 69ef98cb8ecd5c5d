----------------------------- MODULE RunQueues -----------------------------
(***************************************************************************)
(* What the scheduler promises, without lists, counts or program counters: *)
(* per level a queue of the threads that are ready, per semaphore a queue  *)
(* of the threads that wait, and the thread that has the CPU.              *)
(*   - the CPU goes to the head of the most urgent queue that is not empty *)
(*   - a thread whose time slice ends goes to the back of its queue        *)
(*   - a thread that is woken goes to the FRONT of its queue               *)
(*   - waiters are served by urgency and, within a level, in order of      *)
(*     arrival                                                             *)
(***************************************************************************)
EXTENDS Integers, Sequences, SequencesExt

CONSTANTS Thread, Sem, Priority, PRIORITY_LVL_CNT, IdleThread, NULL

VARIABLES
    ready,    \* per level, the threads that are ready and not running
    blocked,  \* per semaphore, the threads that wait
    cpu,      \* the running thread, NULL before the first
    next      \* the thread to switch to, NULL if no switch is pending

vars == <<ready, blocked, cpu, next>>

Levels == 0 .. PRIORITY_LVL_CNT - 1

Init ==
    /\ ready = [p \in Levels |-> <<>>]
    /\ blocked = [sem \in Sem |-> <<>>]
    /\ cpu = NULL
    /\ next = NULL

\* q is what the queues are with the winner still in them.
Best(q) ==
    LET nonempty == {p \in Levels : q[p] # <<>>}
    IN  IF nonempty = {} THEN IdleThread
        ELSE Head(q[CHOOSE p \in nonempty : \A r \in nonempty : p <= r])

Without(q, t) ==
    IF t = IdleThread THEN q ELSE [q EXCEPT ![Priority[t]] = Tail(@)]

Dispatch(q) ==
    /\ next' = Best(q)
    /\ ready' = Without(q, Best(q))

Placed(t) ==
    \/ \E p \in Levels : t \in ToSet(ready[p])
    \/ \E sem \in Sem : t \in ToSet(blocked[sem])
    \/ t \in {cpu, next}

Create(t) ==
    /\ cpu = NULL /\ ~Placed(t)
    /\ ready' = [ready EXCEPT ![Priority[t]] = <<t>> \o @]
    /\ UNCHANGED <<blocked, cpu, next>>

Start ==
    /\ cpu = NULL
    /\ cpu' = Best(ready)
    /\ ready' = Without(ready, Best(ready))
    /\ UNCHANGED <<blocked, next>>

SliceEnds ==
    /\ cpu # NULL /\ next = NULL
    /\ Dispatch(IF cpu = IdleThread THEN ready
                ELSE [ready EXCEPT ![Priority[cpu]] = Append(@, cpu)])
    /\ UNCHANGED <<blocked, cpu>>

Await(sem) ==
    /\ cpu \in Thread /\ next = NULL
    /\ \E k \in 0 .. Len(blocked[sem]) :
          /\ \A i \in 1 .. k : Priority[blocked[sem][i]] <= Priority[cpu]
          /\ \A i \in k + 1 .. Len(blocked[sem]) : Priority[cpu] < Priority[blocked[sem][i]]
          /\ blocked' = [blocked EXCEPT ![sem] = InsertAt(@, k + 1, cpu)]
    /\ Dispatch(ready)
    /\ UNCHANGED cpu

Wake(sem) ==
    /\ blocked[sem] # <<>>
    /\ LET t == Head(blocked[sem])
       IN  ready' = [ready EXCEPT ![Priority[t]] = <<t>> \o @]
    /\ blocked' = [blocked EXCEPT ![sem] = Tail(@)]
    /\ UNCHANGED <<cpu, next>>

Switch ==
    /\ next # NULL
    /\ cpu' = next
    /\ next' = NULL
    /\ UNCHANGED <<ready, blocked>>

Next ==
    \/ \E t \in Thread : Create(t)
    \/ \E sem \in Sem : Await(sem) \/ Wake(sem)
    \/ Start \/ SliceEnds \/ Switch

Spec == Init /\ [][Next]_vars
=============================================================================
