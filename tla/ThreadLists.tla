---------------------------- MODULE ThreadLists ----------------------------
(***************************************************************************)
(* The linked lists of schedule.c and the functions that edit them.        *)
(*                                                                         *)
(* Every function of the scheduler runs inside a critical section, so each *)
(* is an operator from the scheduler's globals to the globals it leaves.   *)
(* The globals are one record `s`:                                         *)
(*   next_tcb, prev_tcb, state    the TCB fields of every thread           *)
(*   ThreadSchedule               root of the ready ring of each level     *)
(*   ActivePriorityCount          per level, the threads that are ACTIVE   *)
(*   bthreads_root                head of the blocked list of a semaphore  *)
(*   RunPt, NextRunPt             running thread, and the one PendSV loads *)
(*   pendsv                       PendSV is pending                        *)
(* A ready ring is circular and doubly linked and holds the RUNNING thread *)
(* too; the blocked lists reuse next_tcb and end in NULL.                  *)
(***************************************************************************)
EXTENDS Integers, FiniteSets

CONSTANTS
    Thread,               \* the TCBs add_thread may create
    Sem,                  \* the semaphores
    Priority,             \* thread->priority, fixed at creation
    PRIORITY_LVL_CNT,     \* number of levels; level 0 is the most urgent
    IdleThread,           \* the TCB that runs suspend()
    NULL

ASSUME LevelsAssumption == PRIORITY_LVL_CNT \in Nat

Level == 0 .. PRIORITY_LVL_CNT - 1

ASSUME ThreadsAssumption ==
    /\ IsFiniteSet(Thread)
    /\ Priority \in [Thread -> Level]
    /\ NULL \notin Thread
    /\ IdleThread \notin Thread
    /\ IdleThread # NULL

ThreadState == {"NONE", "RUNNING", "ACTIVE", "SLEEPING", "BLOCKED"}

\* The globals, and their zero-initialised values before the first add_thread
\* ("NONE": the TCB has not been allocated).
SchedType ==
    [ next_tcb : [Thread -> Thread \cup {NULL}],
      prev_tcb : [Thread -> Thread \cup {NULL}],
      state : [Thread -> ThreadState],
      ThreadSchedule : [Level -> Thread \cup {NULL}],
      ActivePriorityCount : [Level -> Nat],
      bthreads_root : [Sem -> Thread \cup {NULL}],
      RunPt : Thread \cup {IdleThread, NULL},
      NextRunPt : Thread \cup {IdleThread, NULL},
      pendsv : BOOLEAN ]

SchedInit ==
    [ next_tcb |-> [t \in Thread |-> NULL],
      prev_tcb |-> [t \in Thread |-> NULL],
      state |-> [t \in Thread |-> "NONE"],
      ThreadSchedule |-> [p \in Level |-> NULL],
      ActivePriorityCount |-> [p \in Level |-> 0],
      bthreads_root |-> [sem \in Sem |-> NULL],
      RunPt |-> NULL,
      NextRunPt |-> NULL,
      pendsv |-> FALSE ]

-----------------------------------------------------------------------------
\* The threads a walk from `root` along `next` visits: the smallest set that
\* holds root and is closed under next. A ring and a list are read alike.
Chain(next, root) ==
    IF root = NULL THEN {}
    ELSE {t \in Thread :
            \A S \in SUBSET Thread :
               (root \in S /\ \A u \in S : next[u] \in S \cup {NULL}) => t \in S}

InsertSortedBeforeEquals(next, root, key, t) ==
    IF root = NULL THEN [next_tcb |-> next, root |-> t]
    ELSE IF key[t] <= key[root]
    THEN [next_tcb |-> [next EXCEPT ![t] = root], root |-> t]
    ELSE LET node == CHOOSE n \in Chain(next, root) :
                        /\ key[n] < key[t]
                        /\ next[n] # NULL => key[t] <= key[next[n]]
         IN  [next_tcb |-> [next EXCEPT ![t] = next[node], ![node] = t],
              root |-> root]

\* The insertion both sched_block and sleep open-code: before the first node
\* whose key is greater, so that equal keys keep their order of arrival.
InsertSorted(next, root, key, t) ==
    IF root = NULL THEN [next_tcb |-> next, root |-> t]
    ELSE IF key[t] < key[root]
    THEN [next_tcb |-> [next EXCEPT ![t] = root], root |-> t]
    ELSE LET node == CHOOSE n \in Chain(next, root) :
                        /\ key[n] <= key[t]
                        /\ next[n] # NULL => key[t] < key[next[n]]
         IN  [next_tcb |-> [next EXCEPT ![t] = next[node], ![node] = t],
              root |-> root]

-----------------------------------------------------------------------------
EnqueueThreadNoFirstRoot(s, t) ==
    LET p == Priority[t]
        root == s.ThreadSchedule[p]
        tail == s.prev_tcb[root]
        linked ==
            IF root = NULL
            THEN [s EXCEPT !.next_tcb[t] = t, !.prev_tcb[t] = t]
            ELSE [s EXCEPT !.next_tcb = [@ EXCEPT ![t] = root, ![tail] = t],
                           !.prev_tcb = [@ EXCEPT ![t] = tail, ![root] = t],
                           !.ThreadSchedule[p] = t]
    IN  [linked EXCEPT !.state[t] = "ACTIVE", !.ActivePriorityCount[p] = @ + 1]

\* Insert t at the front of the ready ring of its level, as ACTIVE.
EnqueueThread(s, t) ==
    LET p == Priority[t]
        root == s.ThreadSchedule[p]
        tail == s.prev_tcb[root]
        linked ==
            IF root = NULL
            THEN [s EXCEPT !.next_tcb[t] = t, !.prev_tcb[t] = t]
            ELSE [s EXCEPT !.next_tcb = [@ EXCEPT ![t] = root, ![tail] = t],
                           !.prev_tcb = [@ EXCEPT ![t] = tail, ![root] = t]]
    IN  [linked EXCEPT !.ThreadSchedule[p] = t,
                       !.state[t] = "ACTIVE",
                       !.ActivePriorityCount[p] = @ + 1]

DequeueThreadOneSided(s, t) ==
    LET p == Priority[t]
        n == s.next_tcb[t]
        v == s.prev_tcb[t]
    IN  IF s.ActivePriorityCount[p] = 0
        THEN [s EXCEPT !.ThreadSchedule[p] = NULL, !.next_tcb[t] = NULL]
        ELSE [s EXCEPT !.next_tcb = [@ EXCEPT ![v] = n, ![t] = NULL],
                       !.ThreadSchedule[p] = n]

DequeueThreadKeepsNext(s, t) ==
    LET p == Priority[t]
        n == s.next_tcb[t]
        v == s.prev_tcb[t]
    IN  IF s.ActivePriorityCount[p] = 0
        THEN [s EXCEPT !.ThreadSchedule[p] = NULL]
        ELSE [s EXCEPT !.next_tcb[v] = n, !.prev_tcb[n] = v,
                       !.ThreadSchedule[p] = n]

\* Unlink t, the running thread. A count of zero is read as "t is alone in its
\* ring", and the ring is then dropped whole.
DequeueThread(s, t) ==
    LET p == Priority[t]
        n == s.next_tcb[t]
        v == s.prev_tcb[t]
    IN  IF s.ActivePriorityCount[p] = 0
        THEN [s EXCEPT !.ThreadSchedule[p] = NULL, !.next_tcb[t] = NULL]
        ELSE [s EXCEPT !.next_tcb = [@ EXCEPT ![v] = n, ![t] = NULL],
                       !.prev_tcb[n] = v,
                       !.ThreadSchedule[p] = n]

\* How sched_block and sleep begin: t leaves its ring for the state st.
Leave(s, t, st) == [DequeueThread(s, t) EXCEPT !.state[t] = st]

-----------------------------------------------------------------------------
ReadyLevels(s) == {p \in Level : s.ActivePriorityCount[p] > 0}

LowestLevel(s) ==
    IF ReadyLevels(s) = {} THEN PRIORITY_LVL_CNT
    ELSE CHOOSE p \in ReadyLevels(s) : \A q \in ReadyLevels(s) : q <= p

\* The first level with a count above zero, PRIORITY_LVL_CNT (idle) if none.
TopLevel(s) ==
    IF ReadyLevels(s) = {} THEN PRIORITY_LVL_CNT
    ELSE CHOOSE p \in ReadyLevels(s) : \A q \in ReadyLevels(s) : p <= q

TakeRootInPlace(s, p) ==
    LET t == s.ThreadSchedule[p]
    IN  [s EXCEPT !.state[t] = "RUNNING", !.ActivePriorityCount[p] = @ - 1]

\* Take the root of ring p as the next thread and advance the root past it.
TakeRoot(s, p) ==
    LET t == s.ThreadSchedule[p]
    IN  [s EXCEPT !.ThreadSchedule[p] = s.next_tcb[t],
                  !.state[t] = "RUNNING",
                  !.ActivePriorityCount[p] = @ - 1]

RequeueUncounted(s) ==
    IF s.RunPt \in Thread /\ s.state[s.RunPt] = "RUNNING"
    THEN [s EXCEPT !.state[s.RunPt] = "ACTIVE"]
    ELSE s

RequeueCountOnly(s) ==
    IF s.RunPt \in Thread /\ s.state[s.RunPt] = "RUNNING"
    THEN [s EXCEPT !.ActivePriorityCount[Priority[s.RunPt]] = @ + 1]
    ELSE s

\* Put the running thread back among the ACTIVE ones, if it is still RUNNING.
Requeue(s) ==
    IF s.RunPt \in Thread /\ s.state[s.RunPt] = "RUNNING"
    THEN [s EXCEPT !.state[s.RunPt] = "ACTIVE",
                   !.ActivePriorityCount[Priority[s.RunPt]] = @ + 1]
    ELSE s

Schedule(s) ==
    LET r == Requeue(s)
        p == TopLevel(r)
    IN  IF p = PRIORITY_LVL_CNT
        THEN [r EXCEPT !.NextRunPt = IdleThread, !.pendsv = TRUE]
        ELSE [TakeRoot(r, p) EXCEPT !.NextRunPt = r.ThreadSchedule[p],
                                    !.pendsv = TRUE]

\* The context switch: the only writer of RunPt once the system runs.
PendSV(s) == [s EXCEPT !.RunPt = s.NextRunPt, !.pendsv = FALSE]

\* init_scheduler picks the first thread itself and enters it through SVC.
Launch(s) ==
    LET p == TopLevel(s)
    IN  IF p = PRIORITY_LVL_CNT
        THEN [s EXCEPT !.RunPt = IdleThread]
        ELSE [TakeRoot(s, p) EXCEPT !.RunPt = s.ThreadSchedule[p]]

-----------------------------------------------------------------------------
\* Move the running thread to the blocked list of sem and ask for a switch.
SchedBlock(s, sem) ==
    LET t == s.RunPt
        d == Leave(s, t, "BLOCKED")
        list == InsertSorted(d.next_tcb, d.bthreads_root[sem], Priority, t)
    IN  Schedule([d EXCEPT !.next_tcb = list.next_tcb,
                           !.bthreads_root[sem] = list.root])

SchedUnblockKeepsHead(s, sem) == EnqueueThread(s, s.bthreads_root[sem])

\* Move the head of sem's blocked list to the front of its ready ring.
SchedUnblock(s, sem) ==
    LET t == s.bthreads_root[sem]
    IN  EnqueueThread([s EXCEPT !.bthreads_root[sem] = s.next_tcb[t]], t)

-----------------------------------------------------------------------------
(* What the lists keep between the functions above, each part written so     *)
(* that it speaks of single links, or of sets closed under a link.           *)

\* The threads of level p whose state is one of st.
At(s, st, p) == {t \in Thread : Priority[t] = p /\ s.state[t] \in st}

InRing == {"RUNNING", "ACTIVE"}
Linked(s) == {t \in Thread : s.state[t] \in InRing}
Blocked(s) == {t \in Thread : s.state[t] = "BLOCKED"}

\* next_tcb and prev_tcb are inverse to each other and stay within the level.
RingLinks(s) ==
    \A t \in Linked(s) :
        /\ s.next_tcb[t] \in Linked(s) /\ s.prev_tcb[t] \in Linked(s)
        /\ Priority[s.next_tcb[t]] = Priority[t]
        /\ s.prev_tcb[s.next_tcb[t]] = t
        /\ s.next_tcb[s.prev_tcb[t]] = t

RingRoots(s) ==
    \A p \in Level :
        IF At(s, InRing, p) = {} THEN s.ThreadSchedule[p] = NULL
        ELSE s.ThreadSchedule[p] \in At(s, InRing, p)

\* The links of a level form one cycle: no part of it is closed under next_tcb.
RingWhole(s) ==
    \A p \in Level : \A S \in SUBSET At(s, InRing, p) :
        S # {} /\ (\A u \in S : s.next_tcb[u] \in S) => S = At(s, InRing, p)

RingCounts(s) ==
    \A p \in Level : s.ActivePriorityCount[p] = Cardinality(At(s, {"ACTIVE"}, p))

RingsOK(s) == RingLinks(s) /\ RingRoots(s) /\ RingWhole(s) /\ RingCounts(s)

\* The heads and next_tcb of blocked threads lead to blocked threads.
BlockedLinks(s) ==
    /\ \A sem \in Sem : s.bthreads_root[sem] \in Blocked(s) \cup {NULL}
    /\ \A t \in Blocked(s) : s.next_tcb[t] \in Blocked(s) \cup {NULL}

\* No blocked thread is reached from two places: the lists do not join.
BlockedApart(s) ==
    /\ \A i, j \in Sem : s.bthreads_root[i] = s.bthreads_root[j] =>
          i = j \/ s.bthreads_root[i] = NULL
    /\ \A t, v \in Blocked(s) : s.next_tcb[t] = s.next_tcb[v] =>
          t = v \/ s.next_tcb[t] = NULL
    /\ \A i \in Sem, t \in Blocked(s) : s.bthreads_root[i] = s.next_tcb[t] =>
          s.next_tcb[t] = NULL

\* Every list ends: from any set of blocked threads some link leads out.
BlockedEnds(s) ==
    \A S \in SUBSET Blocked(s) : S # {} => \E u \in S : s.next_tcb[u] \notin S

BlockedSorted(s) ==
    \A t \in Blocked(s) : s.next_tcb[t] # NULL =>
        Priority[t] <= Priority[s.next_tcb[t]]

ListsOK(s) ==
    /\ RingsOK(s)
    /\ BlockedLinks(s) /\ BlockedApart(s) /\ BlockedEnds(s) /\ BlockedSorted(s)
=============================================================================
