---------------------------- MODULE SleepProofs ----------------------------
(***************************************************************************)
(* Theorems about SleepTimer, for any threads, levels, durations and width *)
(* of the counter, which wraps. Ticks are served wherever they fall, so    *)
(* that threads may drop out of the rings (ListProofs, LiveRings): what    *)
(* holds of the sleep list and of the alarm is proved with that, and what  *)
(* holds of the rings for as long as it has not happened.                  *)
(***************************************************************************)
EXTENDS SleepTimer, ListProofs

Sleeping == {t \in Thread : sch.state[t] = "SLEEPING"}

\* One sorted list from root, which ends in NULL and holds B, all of it.
Reached(next, root, B) ==
    \A S \in SUBSET B :
        root \in S /\ (\A u \in S : next[u] \in S \cup {NULL}) => S = B

SortedList(next, root, B, key) ==
    /\ Forest(next, B, key)
    /\ root \in B \cup {NULL} /\ (root = NULL => B = {})
    /\ \A u \in B : next[u] = root => root = NULL
    /\ Reached(next, root, B)

\* What happens when: nothing runs while booting, only a thread that arms the
\* alarm masks interrupts, and a requested switch has a target.
Order ==
    /\ Booting => /\ ~sch.pendsv /\ masked = 0
                  /\ \A t \in Thread : pc[t] = "user" /\ sch.state[t] \in {"NONE", "ACTIVE"}
    /\ masked # 0 => ~sch.pendsv /\ \E t \in Thread : t = sch.RunPt /\ pc[t] = "arming"
    /\ \A t \in Thread : pc[t] = "arming" => masked # 0 /\ t = sch.RunPt
    /\ sch.pendsv => sch.NextRunPt # NULL

\* The threads that run, or are about to, are in the rings, which hold L. A
\* thread may be RunPt and not run only between the two parts of sleep.
RunsFrom(L) ==
    /\ RunningIn(sch, L)
    /\ sch.pendsv /\ sch.NextRunPt \in Thread =>
          sch.NextRunPt \in L /\ sch.state[sch.NextRunPt] = "RUNNING"
    /\ ~sch.pendsv /\ sch.RunPt \in Thread /\ pc[sch.RunPt] # "yield" =>
          sch.state[sch.RunPt] = "RUNNING"

AlarmSet ==
    SleepScheduleRoot # NULL =>
        /\ tim2.CC1IE
        /\ tim2.CCR1 = (resume_tick[SleepScheduleRoot] * K) % W

\* What holds wherever ticks fall.
SleepInv ==
    /\ TypeOK
    /\ SortedList(sch.next_tcb, SleepScheduleRoot, Sleeping, resume_tick)
    /\ \E L \in SUBSET Thread : LiveRings(sch, L) /\ RunsFrom(L)
    /\ Order
    /\ AlarmSet

\* What holds besides until one falls in front of a requested switch: the rings
\* are intact, and the one thread that runs is RunPt or the one PendSV loads.
OneRuns ==
    /\ sch.pendsv => \A t \in Thread : sch.state[t] = "RUNNING" <=> t = sch.NextRunPt
    /\ ~sch.pendsv =>
          /\ \A t \in Thread : sch.state[t] = "RUNNING" => t = sch.RunPt
          /\ \A t \in Thread : t = sch.RunPt /\ pc[t] # "yield" => sch.state[t] = "RUNNING"

RingInv == ~raced => RingsOK(sch) /\ OneRuns

\* `left` agrees with the counter for as long as a thread has to wait, and the
\* compare flag is up only when the first is due, unless it was when that slept.
Alarm(t) == (resume_tick[t] * K) % W

Waits(t) == sch.state[t] = "SLEEPING" \/ pc[t] = "arming"

TimeInv ==
    /\ \A t \in Thread : Waits(t) /\ left[t] > 0 =>
          /\ left[t] < W
          /\ tim2.CNT + left[t] = Alarm(t) \/ tim2.CNT + left[t] = Alarm(t) + W
    /\ SleepScheduleRoot # NULL /\ tim2.CC1IF /\ ~stale => left[SleepScheduleRoot] <= 0

-----------------------------------------------------------------------------
(* Counts and milliseconds.                                                  *)

LEMMA Widths == W \in Nat /\ W > 0 /\ K \in Nat /\ K > 0 /\ K < W
BY TimerAssumption

\* A count in whole milliseconds, rounded down.
LEMMA Rounded ==
    ASSUME NEW c \in Nat
    PROVE  c \div K \in Nat /\ (c \div K) * K <= c /\ c < (c \div K) * K + K
BY Widths, SMTT(30)

LEMMA Product == \A i, j \in Nat : i * j \in Nat
OBVIOUS

LEMMA Distributed == \A i, j \in Nat : (i + j) * K = i * K + j * K
BY Widths

\* A value of the compare register, and the time it stands for within two laps.
LEMMA Compare ==
    ASSUME NEW m \in Nat
    PROVE  m % W \in 0 .. W - 1 /\ (m < W + W => m = m % W \/ m = (m % W) + W)
BY Widths, SMTT(30)

-----------------------------------------------------------------------------
(* The sleep list.                                                           *)

\* The list without its head.
LEMMA HeadTaken ==
    ASSUME NEW next, NEW B \in SUBSET Thread, NEW key, NEW root \in B,
           SortedList(next, root, B, key),
           NEW nx, \A u \in B \ {root} : nx[u] = next[u]
    PROVE  SortedList(nx, next[root], B \ {root}, key)
<1>0. NULL \notin Thread /\ root # NULL
    BY ThreadsAssumption
<1>. DEFINE C == B \ {root}
            head == next[root]
<1>1. \A u \in B : next[u] \in B \cup {NULL} /\ next[u] # root
    BY <1>0 DEF SortedList, Forest
<1>2. Forest(nx, C, key)
    <2>1. \A u \in C : nx[u] \in C \cup {NULL}
        BY <1>1
    <2>2. \A u, v \in C : nx[u] = nx[v] => u = v \/ nx[u] = NULL
        BY DEF SortedList, Forest
    <2>3. \A S \in SUBSET C : S # {} => \E u \in S : nx[u] \notin S
        <3>. SUFFICES ASSUME NEW S \in SUBSET C, S # {} PROVE \E u \in S : nx[u] \notin S
            OBVIOUS
        <3>1. PICK u \in S : next[u] \notin S
            BY DEF SortedList, Forest
        <3>. QED BY <3>1
    <2>4. \A u \in C : nx[u] # NULL => key[u] <= key[nx[u]]
        BY DEF SortedList, Forest
    <2>. QED BY <2>1, <2>2, <2>3, <2>4 DEF Forest
<1>3. head \in C \cup {NULL}
    BY <1>1
<1>4. head = NULL => C = {}
    <2>. SUFFICES ASSUME head = NULL PROVE {root} = B
        OBVIOUS
    <2>1. {root} \in SUBSET B /\ \A u \in {root} : next[u] \in {root} \cup {NULL}
        OBVIOUS
    <2>. QED BY <2>1 DEF SortedList, Reached
<1>5. \A u \in C : nx[u] = head => head = NULL
    BY DEF SortedList, Forest
<1>6. Reached(nx, head, C)
    <2>. SUFFICES ASSUME NEW S \in SUBSET C, head \in S, \A u \in S : nx[u] \in S \cup {NULL}
                  PROVE  S = C
        BY DEF Reached
    <2>. DEFINE T == S \cup {root}
    <2>1. T \in SUBSET B /\ root \in T /\ \A u \in T : next[u] \in T \cup {NULL}
        OBVIOUS
    <2>2. T = B
        BY <2>1 DEF SortedList, Reached
    <2>. QED BY <2>2
<1>. QED BY <1>2, <1>3, <1>4, <1>5, <1>6 DEF SortedList

\* The list with t inserted in its place.
InPlace(r, next, root, B, key, t) ==
    /\ SortedList(r.next_tcb, r.root, B \cup {t}, key)
    /\ r.next_tcb \in [Thread -> Thread \cup {NULL}]
    /\ \A u \in Thread \ (B \cup {t}) : r.next_tcb[u] = next[u]
    /\ r.root = root \/ r.root = t
    /\ r.root = t => root = NULL \/ key[t] < key[root]

LEMMA ThreadInserted ==
    ASSUME NEW next \in [Thread -> Thread \cup {NULL}], NEW B \in SUBSET Thread,
           NEW key \in [Thread -> Int], NEW t \in Thread, t \notin B, next[t] = NULL,
           NEW root, SortedList(next, root, B, key),
           NEW r, r = InsertSorted(next, root, key, t)
    PROVE  InPlace(r, next, root, B, key, t)
<1>0. NULL \notin Thread /\ NULL # t
    BY ThreadsAssumption
<1>1. root \in B \cup {NULL} /\ Forest(next, B, key)
      /\ (\A u \in B : next[u] = root => root = NULL)
    BY DEF SortedList
<1>2. Inserted(r, next, root, B, key, t)
    BY <1>1, InsertSortedEffect
<1>3. ForestWith(r, next, root, B, key, t)
    BY <1>1, InsertSortedForest
<1>. DEFINE C == B \cup {t}
            nx == r.next_tcb
<1>4. /\ nx \in [Thread -> Thread \cup {NULL}] /\ Forest(nx, C, key)
      /\ r.root \in C /\ (r.root = root \/ r.root = t)
      /\ \A u \in C : nx[u] # r.root
      /\ \A u \in Thread \ C : nx[u] = next[u]
    BY <1>3 DEF ForestWith
<1>5. r.root = t => root = NULL \/ key[t] < key[root]
    BY <1>0, <1>1, <1>2 DEF Inserted
<1>6. Reached(nx, r.root, C)
    <2>. SUFFICES ASSUME NEW S \in SUBSET C, r.root \in S, \A u \in S : nx[u] \in S \cup {NULL}
                  PROVE  S = C
        BY DEF Reached
    <2>. DEFINE T == S \ {t}
    <2>1. \A u \in B : next[u] \in B \cup {NULL}
        BY <1>1 DEF Forest
    <2>2. CASE root = NULL /\ r.root = t
        <3>1. B = {}
            BY <2>2 DEF SortedList
        <3>. QED BY <2>2, <3>1
    <2>3. CASE root # NULL /\ r.root = t /\ nx = [next EXCEPT ![t] = root]
        <3>1. nx[t] = root /\ \A u \in B : nx[u] = next[u]
            BY <2>3
        <3>2. root \in T /\ T \in SUBSET B /\ t \in S
            BY <1>1, <2>3, <3>1
        <3>3. \A u \in T : next[u] \in T \cup {NULL}
            BY <2>1, <3>1
        <3>4. T = B
            BY <3>2, <3>3 DEF SortedList, Reached
        <3>. QED BY <3>2, <3>4
    <2>4. ASSUME root # NULL, r.root = root, NEW node \in B,
                 nx = [next EXCEPT ![t] = next[node], ![node] = t]
          PROVE  S = C
        <3>1. /\ nx[t] = next[node] /\ nx[node] = t
              /\ \A u \in B : u # node => nx[u] = next[u]
            BY <2>4
        <3>2. root \in T /\ T \in SUBSET B
            BY <1>1, <2>4
        <3>3. node \in S => t \in S /\ next[node] \in S \cup {NULL}
            BY <1>0, <3>1
        <3>4. \A u \in T : next[u] \in T \cup {NULL}
            <4>. SUFFICES ASSUME NEW u \in T PROVE next[u] \in T \cup {NULL}
                OBVIOUS
            <4>1. CASE u = node
                BY <4>1, <2>1, <3>2, <3>3
            <4>2. CASE u # node
                BY <4>2, <2>1, <3>1, <3>2
            <4>. QED BY <4>1, <4>2
        <3>5. T = B
            BY <3>2, <3>4 DEF SortedList, Reached
        <3>. QED BY <3>3, <3>5
    <2>. QED BY <1>2, <2>2, <2>3, <2>4 DEF Inserted
<1>7. SortedList(nx, r.root, C, key)
    BY <1>0, <1>4, <1>6 DEF SortedList
<1>. QED BY <1>4, <1>5, <1>7 DEF InPlace

\* The list when nothing it depends on changes.
LEMMA ListFrame ==
    ASSUME NEW next, NEW root, NEW B, NEW key, SortedList(next, root, B, key),
           NEW nx, NEW k, \A u \in B : nx[u] = next[u] /\ k[u] = key[u]
    PROVE  SortedList(nx, root, B, k)
<1>1. Forest(nx, B, k)
    <2>1. \A u \in B : nx[u] \in B \cup {NULL}
        BY DEF SortedList, Forest
    <2>2. \A u, v \in B : nx[u] = nx[v] => u = v \/ nx[u] = NULL
        BY DEF SortedList, Forest
    <2>3. \A S \in SUBSET B : S # {} => \E u \in S : nx[u] \notin S
        BY DEF SortedList, Forest
    <2>4. \A u \in B : nx[u] # NULL => k[u] <= k[nx[u]]
        BY <2>1 DEF SortedList, Forest
    <2>. QED BY <2>1, <2>2, <2>3, <2>4 DEF Forest
<1>2. Reached(nx, root, B)
    BY DEF SortedList, Reached
<1>3. root \in B \cup {NULL} /\ (root = NULL => B = {})
      /\ \A u \in B : nx[u] = root => root = NULL
    BY DEF SortedList
<1>. QED BY <1>1, <1>2, <1>3 DEF SortedList

\* What a walk meets, and that the head is the first to be due.
LEMMA ListWalk ==
    ASSUME NEW next, NEW B \in SUBSET Thread, NEW key \in [Thread -> Nat], NEW root,
           SortedList(next, root, B, key)
    PROVE  /\ Chain(next, root) = B
           /\ \A u \in B : key[root] <= key[u]
<1>0. NULL \notin Thread
    BY ThreadsAssumption
<1>1. CASE root = NULL
    BY <1>1 DEF SortedList, Chain
<1>2. CASE root # NULL
    <2>1. root \in B /\ root \in Thread /\ \A u \in B : next[u] \in B \cup {NULL}
        BY <1>2 DEF SortedList, Forest
    <2>. DEFINE C == Chain(next, root)
    <2>2. C \subseteq B /\ root \in C /\ \A u \in C : next[u] \in C \cup {NULL}
        BY <2>1, ChainClosed
    <2>. HIDE DEF C
    <2>3. C = B
        BY <2>2 DEF SortedList, Reached
    <2>. DEFINE S == {u \in B : key[root] <= key[u]}
    <2>4. root \in S
        BY <2>1
    <2>5. \A u \in S : next[u] \in S \cup {NULL}
        <3>. SUFFICES ASSUME NEW u \in S, next[u] # NULL PROVE next[u] \in S
            OBVIOUS
        <3>1. next[u] \in B /\ key[u] <= key[next[u]]
            BY <2>1 DEF SortedList, Forest
        <3>2. key[root] \in Nat /\ key[u] \in Nat /\ key[next[u]] \in Nat
            BY <2>1, <3>1
        <3>. QED BY <3>1, <3>2
    <2>6. S = B
        BY <2>4, <2>5 DEF SortedList, Reached
    <2>. QED BY <2>3, <2>6 DEF C
<1>. QED BY <1>1, <1>2

-----------------------------------------------------------------------------
(* Every step keeps the list and the alarm, wherever ticks fall.             *)

LEMMA SleepInvInit == Init => SleepInv /\ RingInv
<1>. SUFFICES ASSUME Init PROVE SleepInv /\ RingInv
    OBVIOUS
<1>1. sch = SchedInit /\ SleepScheduleRoot = NULL /\ masked = 0
      /\ pc = [t \in Thread |-> "user"]
    BY DEF Init
<1>2. sch \in SchedType /\ sch.RunPt = NULL /\ ~sch.pendsv
      /\ \A t \in Thread : sch.state[t] = "NONE"
    BY <1>1, LevelsAssumption DEF SchedInit, SchedType, ThreadState, Level
<1>3. TypeOK
    <2>1. tim2 \in [CNT : 0 .. W - 1, CCR1 : 0 .. W - 1, CC1IF : BOOLEAN, CC1IE : BOOLEAN]
        BY Widths DEF Init
    <2>2. /\ pc \in [Thread -> {"user", "arming", "yield"}]
          /\ resume_tick \in [Thread -> Nat] /\ left \in [Thread -> Int]
        <3>1. pc \in [Thread -> {"user", "arming", "yield"}]
            BY <1>1
        <3>2. resume_tick = [t \in Thread |-> 0] /\ left = [t \in Thread |-> 0]
            BY DEF Init
        <3>. QED BY <3>1, <3>2
    <2>3. masked \in 0 .. 2
        BY <1>1
    <2>4. ticked \in BOOLEAN /\ stale \in BOOLEAN /\ raced \in BOOLEAN
        BY Zenon DEF Init
    <2>. QED BY <1>1, <1>2, <2>1, <2>2, <2>3, <2>4 DEF TypeOK
<1>4. RingsOK(sch) /\ Linked(sch) = {}
    <2>1. Linked(sch) = {} /\ \A st \in {InRing, {"ACTIVE"}}, p \in Level : At(sch, st, p) = {}
        BY <1>2 DEF At, Linked, InRing
    <2>2. RingLinks(sch) /\ RingWhole(sch)
        BY <2>1 DEF RingLinks, RingWhole
    <2>3. RingRoots(sch)
        BY <1>1, <2>1 DEF SchedInit, RingRoots
    <2>4. RingCounts(sch)
        BY <1>1, <2>1, FS_EmptySet DEF SchedInit, RingCounts
    <2>. QED BY <2>1, <2>2, <2>3, <2>4 DEF RingsOK
<1>5. LiveRings(sch, {}) /\ RunsFrom({})
    <2>1. RingsOn(sch, {})
        BY <1>4, RingsFrom
    <2>2. \A p \in Level : sch.ActivePriorityCount[p] = 0 /\ Backing(sch, {}, p) = {}
        BY <1>1 DEF SchedInit, Backing, OfLevel
    <2>3. CountsBacked(sch, {})
        BY <2>2, FS_EmptySet DEF CountsBacked
    <2>4. RunsFrom({})
        BY <1>2, ThreadsAssumption DEF RunsFrom, RunningIn
    <2>. QED BY <2>1, <2>3, <2>4 DEF LiveRings
<1>6. Sleeping = {}
    BY <1>2 DEF Sleeping
<1>7. SortedList(sch.next_tcb, SleepScheduleRoot, Sleeping, resume_tick)
    BY <1>1, <1>6 DEF SortedList, Forest, Reached
<1>8. Order /\ OneRuns
    BY <1>1, <1>2, ThreadsAssumption DEF Order, OneRuns, Booting
<1>9. {} \in SUBSET Thread
    OBVIOUS
<1>. QED BY <1>1, <1>3, <1>4, <1>5, <1>7, <1>8, <1>9 DEF SleepInv, RingInv, AlarmSet

\* The parts that depend on what only sleep and unsleep change.
LEMMA SleepersKept ==
    ASSUME SleepInv, Sleeping' = Sleeping, SleepScheduleRoot' = SleepScheduleRoot,
           \A u \in Sleeping : sch'.next_tcb[u] = sch.next_tcb[u]
                               /\ resume_tick'[u] = resume_tick[u],
           tim2'.CC1IE = tim2.CC1IE, tim2'.CCR1 = tim2.CCR1
    PROVE  SortedList(sch.next_tcb, SleepScheduleRoot, Sleeping, resume_tick)' /\ AlarmSet'
<1>1. SortedList(sch'.next_tcb, SleepScheduleRoot, Sleeping, resume_tick')
    BY ListFrame DEF SleepInv
<1>2. SleepScheduleRoot # NULL => SleepScheduleRoot \in Sleeping
    BY DEF SleepInv, SortedList
<1>. QED BY <1>1, <1>2 DEF SleepInv, AlarmSet

LEMMA AddThreadKeeps ==
    ASSUME SleepInv, NEW t \in Thread, AddThread(t)
    PROVE  SleepInv' /\ Sleeping' = Sleeping
<1>1. PICK L \in SUBSET Thread : LiveRings(sch, L) /\ RunsFrom(L)
    BY DEF SleepInv
<1>2. /\ sch \in SchedType /\ sch.RunPt = NULL /\ ~sch.pendsv
      /\ \A u \in Thread : pc[u] = "user" /\ sch.state[u] \in {"NONE", "ACTIVE"}
      /\ sch.state[t] = "NONE" /\ sch' = EnqueueThread(sch, t) /\ masked = 0
      /\ UNCHANGED <<SleepScheduleRoot, resume_tick, tim2, pc, masked, ticked, history>>
    BY DEF SleepInv, TypeOK, Order, Booting, AddThread
<1>3. t \notin Linked(sch)
    BY <1>2 DEF Linked, InRing
<1>4. /\ sch' \in SchedType /\ LiveRings(sch', L \cup {t})
      /\ sch'.state = [sch.state EXCEPT ![t] = "ACTIVE"]
      /\ sch'.RunPt = NULL /\ ~sch'.pendsv
    BY <1>1, <1>2, <1>3, EnqueueLive
<1>5. \A u \in Thread : sch'.state[u] \in {"NONE", "ACTIVE"}
    BY <1>2, <1>4 DEF SchedType
<1>6. Sleeping' = {} /\ Sleeping = {}
    BY <1>2, <1>5 DEF Sleeping
<1>7. SortedList(sch.next_tcb, SleepScheduleRoot, Sleeping, resume_tick)' /\ AlarmSet'
    BY <1>2, <1>6, SleepersKept
<1>8. TypeOK'
    BY <1>2, <1>4 DEF SleepInv, TypeOK, history
<1>9. Order' /\ RunsFrom(L \cup {t})'
    BY <1>2, <1>4, <1>5, ThreadsAssumption DEF Order, RunsFrom, RunningIn, Booting
<1>10. L \cup {t} \in SUBSET Thread
    OBVIOUS
<1>. QED BY <1>4, <1>6, <1>7, <1>8, <1>9, <1>10 DEF SleepInv

LEMMA InitSchedulerKeeps ==
    ASSUME SleepInv, InitScheduler
    PROVE  SleepInv' /\ Sleeping' = Sleeping
<1>1. PICK L \in SUBSET Thread : LiveRings(sch, L) /\ RunsFrom(L)
    BY DEF SleepInv
<1>2. /\ sch \in SchedType /\ ~sch.pendsv /\ sch.RunPt = NULL /\ masked = 0
      /\ \A u \in Thread : pc[u] = "user" /\ sch.state[u] \in {"NONE", "ACTIVE"}
      /\ sch' = Launch(sch)
      /\ UNCHANGED <<SleepScheduleRoot, resume_tick, tim2, pc, masked, ticked, history>>
    BY DEF SleepInv, TypeOK, Order, Booting, InitScheduler
<1>3. RunsIn(sch, L)
    BY <1>2, ThreadsAssumption DEF RunsIn
<1>4. /\ sch' \in SchedType /\ LiveRings(sch', L) /\ RunsIn(sch', L) /\ ListsKept(sch, sch')
      /\ sch'.RunPt \in Thread \cup {IdleThread} /\ ~sch'.pendsv
    BY <1>1, <1>2, <1>3, LaunchLive
<1>5. Sleeping' = Sleeping
    BY <1>4 DEF Sleeping, ListsKept, InRing
<1>6. SortedList(sch.next_tcb, SleepScheduleRoot, Sleeping, resume_tick)' /\ AlarmSet'
    BY <1>2, <1>4, <1>5, SleepersKept DEF ListsKept
<1>7. TypeOK'
    BY <1>2, <1>4 DEF SleepInv, TypeOK, history
<1>8. Order' /\ RunsFrom(L)'
    BY <1>2, <1>4, ThreadsAssumption DEF Order, RunsFrom, RunsIn, RunningIn, Booting
<1>. QED BY <1>4, <1>5, <1>6, <1>7, <1>8 DEF SleepInv

\* The last call of sleep, or a tick, which may come before the switch that the
\* former requests: in either case the thread that runs may have left its ring,
\* and is then not put back.
LEMMA ScheduleKeeps ==
    ASSUME SleepInv, SysTick \/ \E t \in Thread : Yield(t)
    PROVE  /\ SleepInv' /\ Sleeping' = Sleeping
           /\ UNCHANGED <<SleepScheduleRoot, resume_tick, tim2, masked, left, stale>>
           /\ \A u \in Thread : sch.state[u] = "SLEEPING" => sch'.state[u] = "SLEEPING"
           /\ \A u \in Thread : pc'[u] = "arming" => pc[u] = "arming"
<1>1. PICK L \in SUBSET Thread : LiveRings(sch, L) /\ RunsFrom(L)
    BY DEF SleepInv
<1>2. /\ sch \in SchedType /\ sch.RunPt # NULL
      /\ sch' = Schedule(sch) /\ RunningIn(sch, L)
      /\ UNCHANGED <<SleepScheduleRoot, resume_tick, tim2, masked, left, stale>>
    BY <1>1, ThreadsAssumption
    DEF SleepInv, TypeOK, Booting, SysTick, Yield, Executing, RunsFrom, history
<1>3. /\ sch' \in SchedType /\ LiveRings(sch', L) /\ RunsIn(sch', L) /\ ListsKept(sch, sch')
      /\ sch'.RunPt = sch.RunPt
      /\ sch'.pendsv /\ sch'.NextRunPt \in Thread \cup {IdleThread}
    BY <1>1, <1>2, ScheduleLive
<1>4. Sleeping' = Sleeping
      /\ \A u \in Thread : sch.state[u] = "SLEEPING" => sch'.state[u] = "SLEEPING"
    BY <1>3 DEF Sleeping, ListsKept, InRing
<1>5. SortedList(sch.next_tcb, SleepScheduleRoot, Sleeping, resume_tick)' /\ AlarmSet'
    BY <1>2, <1>3, <1>4, SleepersKept DEF ListsKept
<1>6. /\ pc' \in [Thread -> {"user", "arming", "yield"}]
      /\ \A u \in Thread : pc'[u] = "arming" => pc[u] = "arming"
      /\ masked = 0 /\ ticked' \in BOOLEAN /\ raced' \in BOOLEAN
    <2>1. CASE SysTick
        BY <2>1 DEF SysTick, SleepInv, TypeOK
    <2>2. ASSUME NEW t \in Thread, Yield(t)
          PROVE  /\ pc' \in [Thread -> {"user", "arming", "yield"}]
                 /\ \A u \in Thread : pc'[u] = "arming" => pc[u] = "arming"
                 /\ masked = 0 /\ ticked' \in BOOLEAN /\ raced' \in BOOLEAN
        BY <2>2 DEF Yield, Executing, SleepInv, TypeOK, Order, history
    <2>. QED BY <2>1, <2>2
<1>7. TypeOK'
    BY <1>2, <1>3, <1>6 DEF SleepInv, TypeOK
<1>8. Order' /\ RunsFrom(L)'
    BY <1>2, <1>3, <1>6, ThreadsAssumption
    DEF SleepInv, Order, RunsFrom, RunsIn, RunningIn, Booting
<1>. QED BY <1>2, <1>3, <1>4, <1>5, <1>6, <1>7, <1>8 DEF SleepInv

\* What the switch does to the globals.
LEMMA SwitchFields ==
    ASSUME sch \in SchedType, ContextSwitch
    PROVE  /\ sch' \in SchedType
           /\ sch'.RunPt = sch.NextRunPt /\ sch'.pendsv = FALSE
           /\ sch'.state = sch.state /\ sch'.ThreadSchedule = sch.ThreadSchedule
           /\ sch'.next_tcb = sch.next_tcb /\ sch'.prev_tcb = sch.prev_tcb
           /\ sch'.ActivePriorityCount = sch.ActivePriorityCount
<1>1. sch' = [sch EXCEPT !.RunPt = sch.NextRunPt, !.pendsv = FALSE]
    BY DEF ContextSwitch, PendSV
<1>. QED BY <1>1 DEF SchedType

LEMMA SwitchKeeps ==
    ASSUME SleepInv, ContextSwitch
    PROVE  SleepInv' /\ Sleeping' = Sleeping /\ sch'.state = sch.state
<1>1. PICK L \in SUBSET Thread : LiveRings(sch, L) /\ RunsFrom(L)
    BY DEF SleepInv
<1>2. /\ sch \in SchedType /\ sch.pendsv /\ masked = 0
      /\ UNCHANGED <<SleepScheduleRoot, resume_tick, tim2, pc, masked, history>>
      /\ ticked' = FALSE
    BY DEF SleepInv, TypeOK, ContextSwitch
<1>3. /\ sch' \in SchedType
      /\ sch'.RunPt = sch.NextRunPt /\ sch'.pendsv = FALSE
      /\ sch'.state = sch.state /\ sch'.ThreadSchedule = sch.ThreadSchedule
      /\ sch'.next_tcb = sch.next_tcb /\ sch'.prev_tcb = sch.prev_tcb
      /\ sch'.ActivePriorityCount = sch.ActivePriorityCount
    BY <1>2, SwitchFields
<1>4. LiveRings(sch', L)
    BY <1>1, <1>3, LiveFrame
<1>5. Sleeping' = Sleeping
    BY <1>3 DEF Sleeping
<1>6. SortedList(sch.next_tcb, SleepScheduleRoot, Sleeping, resume_tick)' /\ AlarmSet'
    BY <1>2, <1>3, <1>5, SleepersKept
<1>7. TypeOK'
    BY <1>2, <1>3 DEF SleepInv, TypeOK, history
<1>8. Order' /\ RunsFrom(L)'
    BY <1>1, <1>2, <1>3 DEF SleepInv, Order, RunsFrom, RunningIn, Booting
<1>. QED BY <1>3, <1>4, <1>5, <1>6, <1>7, <1>8 DEF SleepInv

LEMMA CallSleepKeeps ==
    ASSUME SleepInv, NEW t \in Thread, NEW ms \in Duration, CallSleep(t, ms)
    PROVE  SleepInv' /\ sch' = sch /\ sch.state[t] = "RUNNING" /\ Sleeping' = Sleeping
<1>1. PICK L \in SUBSET Thread : LiveRings(sch, L) /\ RunsFrom(L)
    BY DEF SleepInv
<1>2. /\ sch.RunPt = t /\ ~sch.pendsv /\ pc[t] = "user" /\ sch.state[t] = "RUNNING"
      /\ pc' = [pc EXCEPT ![t] = "arming"] /\ masked' = 1
      /\ resume_tick' = [resume_tick EXCEPT ![t] = get_raw_time_ms + ms]
      /\ left' = [left EXCEPT ![t] = (get_raw_time_ms + ms) * K - tim2.CNT]
      /\ UNCHANGED <<sch, SleepScheduleRoot, tim2, ticked, stale, raced>>
    BY <1>1 DEF CallSleep, Executing, RunsFrom
<1>3. get_raw_time_ms + ms \in Nat /\ (get_raw_time_ms + ms) * K - tim2.CNT \in Int
    <2>1. tim2.CNT \in Nat /\ ms \in Nat
        BY Widths, TimerAssumption DEF SleepInv, TypeOK
    <2>2. get_raw_time_ms \in Nat
        BY <2>1, Rounded DEF get_raw_time_ms
    <2>3. get_raw_time_ms + ms \in Nat
        BY <2>1, <2>2
    <2>4. (get_raw_time_ms + ms) * K \in Nat
        BY <2>3, Widths, Product
    <2>. QED BY <2>1, <2>3, <2>4
<1>4. Sleeping' = Sleeping /\ t \notin Sleeping
    BY <1>2 DEF Sleeping
<1>5. SortedList(sch.next_tcb, SleepScheduleRoot, Sleeping, resume_tick)' /\ AlarmSet'
    <2>1. \A u \in Sleeping : resume_tick'[u] = resume_tick[u]
        BY <1>2, <1>4 DEF SleepInv, TypeOK, Sleeping
    <2>. QED BY <1>2, <1>4, <2>1, SleepersKept
<1>6. TypeOK'
    BY <1>2, <1>3 DEF SleepInv, TypeOK
<1>7. Order' /\ RunsFrom(L)'
    BY <1>1, <1>2, ThreadsAssumption DEF SleepInv, TypeOK, Order, RunsFrom, RunningIn, Booting
<1>8. LiveRings(sch', L)
    BY <1>1, <1>2
<1>. QED BY <1>2, <1>4, <1>5, <1>6, <1>7, <1>8 DEF SleepInv

\* One count moves nothing but the counter.
LEMMA CountKeeps ==
    ASSUME SleepInv, Count
    PROVE  /\ SleepInv' /\ Sleeping' = Sleeping
           /\ tim2'.CNT = (tim2.CNT + 1) % W /\ tim2'.CCR1 = tim2.CCR1
           /\ tim2'.CC1IF => tim2.CC1IF \/ tim2'.CNT = tim2.CCR1
<1>1. PICK L \in SUBSET Thread : LiveRings(sch, L) /\ RunsFrom(L)
    BY DEF SleepInv
<1>2. /\ ~Booting /\ masked # 2
      /\ tim2' = [tim2 EXCEPT !.CNT = (tim2.CNT + 1) % W,
                              !.CC1IF = @ \/ (tim2.CNT + 1) % W = tim2.CCR1]
      /\ masked' = (IF masked = 1 THEN 2 ELSE masked)
      /\ left' = [t \in Thread |->
            IF sch.state[t] = "SLEEPING" \/ pc[t] = "arming"
            THEN IF left[t] > -MaxLate THEN left[t] - 1 ELSE left[t]
            ELSE 0]
      /\ UNCHANGED <<sch, SleepScheduleRoot, resume_tick, pc, ticked, stale, raced>>
    BY DEF Count
<1>3. /\ tim2'.CCR1 = tim2.CCR1 /\ tim2'.CC1IE = tim2.CC1IE
      /\ tim2'.CNT = (tim2.CNT + 1) % W
      /\ tim2'.CC1IF => tim2.CC1IF \/ tim2'.CNT = tim2.CCR1
      /\ tim2' \in [CNT : 0 .. W - 1, CCR1 : 0 .. W - 1, CC1IF : BOOLEAN, CC1IE : BOOLEAN]
    <2>1. tim2 \in [CNT : 0 .. W - 1, CCR1 : 0 .. W - 1, CC1IF : BOOLEAN, CC1IE : BOOLEAN]
        BY DEF SleepInv, TypeOK
    <2>2. tim2.CNT + 1 \in Nat
        BY <2>1, Widths
    <2>3. (tim2.CNT + 1) % W \in 0 .. W - 1
        BY <2>2, Compare
    <2>. HIDE DEF SleepInv
    <2>4. PICK cnt \in 0 .. W - 1, f \in BOOLEAN :
             /\ tim2' = [tim2 EXCEPT !.CNT = cnt, !.CC1IF = f]
             /\ cnt = (tim2.CNT + 1) % W /\ (f => tim2.CC1IF \/ cnt = tim2.CCR1)
        <3>1. (tim2.CC1IF \/ (tim2.CNT + 1) % W = tim2.CCR1) \in BOOLEAN
            OBVIOUS
        <3>. QED BY <1>2, <2>3, <3>1, Zenon
    <2>. QED BY <2>1, <2>4
<1>4. left' \in [Thread -> Int] /\ masked' \in 0 .. 2
    BY <1>2, TimerAssumption DEF SleepInv, TypeOK
<1>5. TypeOK'
    BY <1>2, <1>3, <1>4 DEF SleepInv, TypeOK
<1>6. Sleeping' = Sleeping
    BY <1>2 DEF Sleeping
<1>7. SortedList(sch.next_tcb, SleepScheduleRoot, Sleeping, resume_tick)' /\ AlarmSet'
    BY <1>2, <1>3, <1>6, SleepersKept
<1>8. Order' /\ RunsFrom(L)' /\ LiveRings(sch', L)
    BY <1>1, <1>2 DEF SleepInv, TypeOK, Order, RunsFrom, Booting
<1>. QED BY <1>2, <1>3, <1>5, <1>6, <1>7, <1>8 DEF SleepInv

\* sleep moves the running thread from its ring to its place in the list.
Slept(t) ==
    /\ Sleeping' = Sleeping \cup {t} /\ t \notin Sleeping
    /\ sch'.state = [sch.state EXCEPT ![t] = "SLEEPING"]
    /\ pc[t] = "arming" /\ pc' = [pc EXCEPT ![t] = "yield"]
    /\ UNCHANGED <<resume_tick, left>>
    /\ \/ /\ SleepScheduleRoot' = t /\ stale' = tim2.CC1IF
          /\ tim2'.CNT = tim2.CNT /\ tim2'.CC1IF = tim2.CC1IF
       \/ /\ SleepScheduleRoot' = SleepScheduleRoot /\ SleepScheduleRoot # NULL
          /\ tim2' = tim2 /\ stale' = stale

LEMMA GoToSleepKeeps ==
    ASSUME SleepInv, NEW t \in Thread, GoToSleep(t)
    PROVE  SleepInv' /\ Slept(t)
<1>. DEFINE d == Leave(sch, t, "SLEEPING")
            list == InsertSorted(d.next_tcb, SleepScheduleRoot, resume_tick, t)
<1>0. PICK L \in SUBSET Thread : LiveRings(sch, L) /\ RunsFrom(L)
    BY DEF SleepInv
<1>1. /\ sch \in SchedType /\ masked # 0 /\ ~sch.pendsv
      /\ pc[t] = "arming" /\ t = sch.RunPt /\ sch.state[t] = "RUNNING" /\ t \in L
      /\ sch' = [d EXCEPT !.next_tcb = list.next_tcb]
      /\ SleepScheduleRoot' = list.root
      /\ tim2' = (IF list.root = t THEN ArmTimer(tim2, resume_tick[t]) ELSE tim2)
      /\ stale' = (IF list.root = t THEN tim2.CC1IF ELSE stale)
      /\ pc' = [pc EXCEPT ![t] = "yield"] /\ masked' = 0
      /\ UNCHANGED <<resume_tick, ticked, left, raced>>
      /\ resume_tick \in [Thread -> Nat]
    BY <1>0 DEF GoToSleep, ArmIfFirst, SleepInv, TypeOK, Order, RunsFrom, RunningIn
<1>2. /\ d \in SchedType /\ \E M \in SUBSET (L \ {t}) : LiveRings(d, M)
      /\ d.state = [sch.state EXCEPT ![t] = "SLEEPING"]
      /\ d.next_tcb[t] = NULL
      /\ \A u \in Thread \ L : d.next_tcb[u] = sch.next_tcb[u]
      /\ d.RunPt = sch.RunPt /\ d.NextRunPt = sch.NextRunPt /\ d.pendsv = sch.pendsv
    <2>1. "SLEEPING" \in {"BLOCKED", "SLEEPING"} /\ d = Leave(sch, t, "SLEEPING")
        OBVIOUS
    <2>. HIDE DEF d
    <2>2. LeftRings(sch, L, t, "SLEEPING", d)
        BY <1>0, <1>1, <2>1, LeaveLive
    <2>. QED BY <2>2 DEF LeftRings
<1>. HIDE DEF d
<1>3. /\ t \notin Sleeping /\ Sleeping \in SUBSET Thread
      /\ \A u \in Sleeping : u \in Thread \ L
    BY <1>0, <1>1 DEF Sleeping, LiveRings, Linked, InRing
<1>4. SortedList(d.next_tcb, SleepScheduleRoot, Sleeping, resume_tick)
    BY <1>2, <1>3, ListFrame DEF SleepInv
<1>5. /\ SortedList(list.next_tcb, list.root, Sleeping \cup {t}, resume_tick)
      /\ list.next_tcb \in [Thread -> Thread \cup {NULL}]
      /\ \A u \in Thread \ (Sleeping \cup {t}) : list.next_tcb[u] = d.next_tcb[u]
      /\ list.root = SleepScheduleRoot \/ list.root = t
    <2>1. d.next_tcb \in [Thread -> Thread \cup {NULL}]
        BY <1>2 DEF SchedType
    <2>2. resume_tick \in [Thread -> Int]
        BY <1>1
    <2>3. list = InsertSorted(d.next_tcb, SleepScheduleRoot, resume_tick, t)
        OBVIOUS
    <2>4. d.next_tcb[t] = NULL
        BY <1>2
    <2>. HIDE DEF list
    <2>5. InPlace(list, d.next_tcb, SleepScheduleRoot, Sleeping, resume_tick, t)
        BY <1>3, <1>4, <2>1, <2>2, <2>3, <2>4, ThreadInserted
    <2>. QED BY <2>5 DEF InPlace
<1>. HIDE DEF list
<1>6. /\ sch' \in SchedType
      /\ sch'.next_tcb = list.next_tcb
      /\ sch'.state = d.state /\ sch'.prev_tcb = d.prev_tcb
      /\ sch'.ThreadSchedule = d.ThreadSchedule
      /\ sch'.ActivePriorityCount = d.ActivePriorityCount
      /\ sch'.RunPt = d.RunPt /\ sch'.NextRunPt = d.NextRunPt /\ sch'.pendsv = d.pendsv
    BY <1>1, <1>2, <1>5 DEF SchedType
<1>7. sch.state \in [Thread -> ThreadState]
    BY <1>1 DEF SchedType
<1>8. Sleeping' = Sleeping \cup {t}
    BY <1>2, <1>6, <1>7 DEF Sleeping
<1>9. PICK M \in SUBSET (L \ {t}) : LiveRings(d, M)
    BY <1>2
<1>10. LiveRings(sch', M)
    <2>1. \A u \in M : u \in Thread \ (Sleeping \cup {t})
        BY <1>3, <1>9
    <2>2. \A u \in M : sch'.next_tcb[u] = d.next_tcb[u] /\ sch'.prev_tcb[u] = d.prev_tcb[u]
        BY <1>5, <1>6, <2>1
    <2>. QED BY <1>6, <1>9, <2>2, LiveFrame
<1>11. SortedList(sch.next_tcb, SleepScheduleRoot, Sleeping, resume_tick)'
    BY <1>1, <1>5, <1>6, <1>8
<1>12. /\ tim2' \in [CNT : 0 .. W - 1, CCR1 : 0 .. W - 1, CC1IF : BOOLEAN, CC1IE : BOOLEAN]
       /\ tim2'.CNT = tim2.CNT /\ tim2'.CC1IF = tim2.CC1IF
       /\ AlarmSet'
    <2>1. tim2 \in [CNT : 0 .. W - 1, CCR1 : 0 .. W - 1, CC1IF : BOOLEAN, CC1IE : BOOLEAN]
        BY DEF SleepInv, TypeOK
    <2>. DEFINE c == (resume_tick[t] * K) % W
    <2>2. c \in 0 .. W - 1
        BY <1>1, Widths, Product, Compare
    <2>3. CASE list.root = t
        <3>. HIDE DEF c
        <3>1. tim2' = [tim2 EXCEPT !.CCR1 = c, !.CC1IE = TRUE]
            BY <1>1, <2>3 DEF ArmTimer, c
        <3>2. /\ tim2'.CCR1 = c /\ tim2'.CC1IE = TRUE
              /\ tim2'.CNT = tim2.CNT /\ tim2'.CC1IF = tim2.CC1IF
              /\ tim2' \in [CNT : 0 .. W - 1, CCR1 : 0 .. W - 1, CC1IF : BOOLEAN, CC1IE : BOOLEAN]
            BY <2>1, <2>2, <3>1
        <3>. QED BY <1>1, <2>3, <3>2 DEF AlarmSet, c
    <2>4. CASE list.root # t
        BY <1>1, <1>5, <2>1, <2>4 DEF SleepInv, AlarmSet
    <2>. QED BY <2>3, <2>4
<1>13. TypeOK'
    <2>1. SleepScheduleRoot' \in Thread \cup {NULL}
        BY <1>1, <1>5, <1>3 DEF SortedList
    <2>2. /\ pc' \in [Thread -> {"user", "arming", "yield"}] /\ left' \in [Thread -> Int]
          /\ stale' \in BOOLEAN /\ ticked' \in BOOLEAN /\ raced' \in BOOLEAN
        BY <1>1 DEF SleepInv, TypeOK
    <2>. QED BY <1>1, <1>6, <1>12, <2>1, <2>2 DEF TypeOK
<1>14. Order' /\ RunsFrom(M)'
    <2>1. sch'.RunPt = t /\ ~sch'.pendsv /\ t # NULL
        BY <1>1, <1>2, <1>6, ThreadsAssumption
    <2>2. sch'.state[t] # "RUNNING"
        BY <1>1, <1>2, <1>6, <1>7
    <2>3. pc \in [Thread -> {"user", "arming", "yield"}]
        BY DEF SleepInv, TypeOK
    <2>4. pc'[t] = "yield" /\ \A u \in Thread : pc'[u] = "arming" => pc[u] = "arming" /\ u # t
        BY <1>1, <2>3
    <2>5. \A u \in Thread : pc'[u] # "arming"
        BY <2>4, <1>1 DEF SleepInv, Order
    <2>. QED BY <1>1, <2>1, <2>2, <2>4, <2>5 DEF Order, RunsFrom, RunningIn, Booting
<1>15. M \in SUBSET Thread
    BY <1>9
<1>16. SleepInv'
    BY <1>10, <1>11, <1>12, <1>13, <1>14, <1>15 DEF SleepInv
<1>17. list.root # t => SleepScheduleRoot' = SleepScheduleRoot /\ SleepScheduleRoot # NULL
    BY <1>1, <1>5, <1>3, ThreadsAssumption DEF SortedList
<1>18. sch'.state = [sch.state EXCEPT ![t] = "SLEEPING"]
    BY <1>2, <1>6
<1>19. Slept(t)
    BY <1>1, <1>3, <1>8, <1>12, <1>17, <1>18 DEF Slept
<1>. QED BY <1>16, <1>19

\* What unsleep and the handler do to the registers.
LEMMA AlarmRegisters ==
    ASSUME SleepInv, TIM2Handler,
           SleepScheduleRoot' \in Thread \cup {NULL},
           SleepScheduleRoot # NULL => SleepScheduleRoot' = sch.next_tcb[SleepScheduleRoot],
           SleepScheduleRoot = NULL => SleepScheduleRoot' = NULL
    PROVE  /\ tim2' \in [CNT : 0 .. W - 1, CCR1 : 0 .. W - 1, CC1IF : BOOLEAN, CC1IE : BOOLEAN]
           /\ tim2'.CC1IF = FALSE /\ tim2'.CNT = tim2.CNT
           /\ AlarmSet'
<1>. DEFINE tm == [tim2 EXCEPT !.CC1IE = FALSE]
            r == Unsleep(tm)
            next == SleepScheduleRoot'
            TimType == [CNT : 0 .. W - 1, CCR1 : 0 .. W - 1, CC1IF : BOOLEAN, CC1IE : BOOLEAN]
<1>1. /\ tim2' = [r.tim2 EXCEPT !.CC1IF = FALSE]
      /\ resume_tick' = resume_tick /\ resume_tick \in [Thread -> Nat]
    BY DEF TIM2Handler, Acknowledge, SleepInv, TypeOK
<1>2. tim2 \in TimType /\ tm \in TimType /\ tm.CNT = tim2.CNT
    BY DEF SleepInv, TypeOK
<1>3. \A x \in TimType : /\ [x EXCEPT !.CC1IF = FALSE] \in TimType
                         /\ [x EXCEPT !.CC1IF = FALSE].CC1IF = FALSE
                         /\ [x EXCEPT !.CC1IF = FALSE].CNT = x.CNT
                         /\ [x EXCEPT !.CC1IF = FALSE].CCR1 = x.CCR1
                         /\ [x EXCEPT !.CC1IF = FALSE].CC1IE = x.CC1IE
    OBVIOUS
<1>. HIDE DEF tm, TimType
<1>4. r.tim2 = IF next = NULL THEN tm ELSE ArmTimer(tm, resume_tick[next])
    BY DEF Unsleep
<1>. HIDE DEF r, next
<1>5. CASE next = NULL
    <2>1. tim2' \in TimType /\ tim2'.CC1IF = FALSE /\ tim2'.CNT = tim2.CNT
        BY <1>1, <1>2, <1>3, <1>4, <1>5
    <2>2. AlarmSet'
        BY <1>5 DEF AlarmSet, next
    <2>. QED BY <2>1, <2>2 DEF TimType
<1>6. CASE next # NULL
    <2>. DEFINE c == (resume_tick[next] * K) % W
    <2>1. c \in 0 .. W - 1
        <3>1. resume_tick[next] \in Nat
            BY <1>1, <1>6 DEF next
        <3>. QED BY <3>1, Widths, Product, Compare
    <2>2. r.tim2 = [tm EXCEPT !.CCR1 = c, !.CC1IE = TRUE]
        BY <1>4, <1>6 DEF ArmTimer
    <2>. HIDE DEF c
    <2>3. r.tim2 \in TimType /\ r.tim2.CCR1 = c /\ r.tim2.CC1IE = TRUE /\ r.tim2.CNT = tim2.CNT
        BY <1>2, <2>1, <2>2 DEF TimType
    <2>4. /\ tim2' \in TimType /\ tim2'.CC1IF = FALSE /\ tim2'.CNT = tim2.CNT
          /\ tim2'.CCR1 = c /\ tim2'.CC1IE = TRUE
        BY <1>1, <1>3, <2>3
    <2>5. AlarmSet'
        BY <1>1, <2>4 DEF AlarmSet, next, c
    <2>. QED BY <2>4, <2>5 DEF TimType
<1>. QED BY <1>5, <1>6

\* The alarm moves the head of the list to its ring and is set for the next.
Woken ==
    /\ tim2.CC1IF /\ tim2'.CC1IF = FALSE
    /\ tim2'.CNT = tim2.CNT
    /\ \/ SleepScheduleRoot = NULL /\ SleepScheduleRoot' = NULL /\ sch' = sch
       \/ /\ SleepScheduleRoot \in Sleeping
          /\ Sleeping' = Sleeping \ {SleepScheduleRoot}
          /\ sch' = EnqueueThread(sch, SleepScheduleRoot)
          /\ sch'.state = [sch.state EXCEPT ![SleepScheduleRoot] = "ACTIVE"]
    /\ UNCHANGED <<resume_tick, pc, masked, left>>

LEMMA AlarmKeeps ==
    ASSUME SleepInv, TIM2Handler
    PROVE  SleepInv' /\ Woken
<1>. DEFINE tm == [tim2 EXCEPT !.CC1IE = FALSE]
            r == Unsleep(tm)
            root == SleepScheduleRoot
<1>0. PICK L \in SUBSET Thread : LiveRings(sch, L) /\ RunsFrom(L)
    BY DEF SleepInv
<1>1. /\ sch \in SchedType /\ masked = 0 /\ tim2.CC1IF
      /\ sch' = r.sch /\ SleepScheduleRoot' = r.root /\ stale' = FALSE
      /\ UNCHANGED <<resume_tick, pc, masked, ticked, left, raced>>
      /\ ~Booting /\ Order
      /\ SortedList(sch.next_tcb, root, Sleeping, resume_tick)
    BY DEF TIM2Handler, Raised, SleepInv, TypeOK
<1>. HIDE DEF tm
<1>2. CASE root = NULL
    <2>1. sch' = sch /\ SleepScheduleRoot' = NULL
        BY <1>1, <1>2 DEF Unsleep
    <2>2. /\ tim2' \in [CNT : 0 .. W - 1, CCR1 : 0 .. W - 1, CC1IF : BOOLEAN, CC1IE : BOOLEAN]
          /\ tim2'.CC1IF = FALSE /\ tim2'.CNT = tim2.CNT /\ AlarmSet'
        BY <1>2, <2>1, AlarmRegisters
    <2>. HIDE DEF r
    <2>3. Sleeping' = Sleeping
        BY <2>1 DEF Sleeping
    <2>4. TypeOK'
        BY <1>1, <2>1, <2>2 DEF SleepInv, TypeOK
    <2>5. /\ Order' /\ RunsFrom(L)' /\ LiveRings(sch', L)
          /\ SortedList(sch.next_tcb, SleepScheduleRoot, Sleeping, resume_tick)'
        BY <1>0, <1>1, <1>2, <2>1, <2>3 DEF Order, RunsFrom, Booting
    <2>. QED BY <1>1, <1>2, <2>1, <2>2, <2>4, <2>5 DEF SleepInv, Woken
<1>3. CASE root # NULL
    <2>. DEFINE next == sch.next_tcb[root]
                e == EnqueueThread(sch, root)
    <2>1. sch' = e /\ SleepScheduleRoot' = next
        BY <1>1, <1>3 DEF Unsleep
    <2>. HIDE DEF r
    <2>2. root \in Sleeping /\ root \in Thread /\ root \notin Linked(sch)
          /\ Sleeping \in SUBSET Thread
        BY <1>1, <1>3 DEF SortedList, Sleeping, Linked, InRing
    <2>3. /\ e \in SchedType /\ LiveRings(e, L \cup {root})
          /\ e.state = [sch.state EXCEPT ![root] = "ACTIVE"]
          /\ \A u \in Thread \ (L \cup {root}) : e.next_tcb[u] = sch.next_tcb[u]
          /\ e.RunPt = sch.RunPt /\ e.NextRunPt = sch.NextRunPt /\ e.pendsv = sch.pendsv
        BY <1>0, <1>1, <2>2, EnqueueLive
    <2>4. sch.state \in [Thread -> ThreadState]
        BY <1>1 DEF SchedType
    <2>5. Sleeping' = Sleeping \ {root}
        <3>. HIDE DEF e
        <3>. QED BY <2>1, <2>2, <2>3, <2>4 DEF Sleeping
    <2>6. \A u \in Sleeping \ {root} : e.next_tcb[u] = sch.next_tcb[u]
        <3>. HIDE DEF e
        <3>. QED BY <1>0, <2>2, <2>3 DEF Sleeping, LiveRings, Linked, InRing
    <2>7. SortedList(e.next_tcb, next, Sleeping \ {root}, resume_tick)
        <3>. DEFINE nx == sch.next_tcb
                    en == e.next_tcb
                    B == Sleeping
        <3>1. B \in SUBSET Thread /\ root \in B /\ SortedList(nx, root, B, resume_tick)
              /\ \A u \in B \ {root} : en[u] = nx[u]
            BY <1>1, <2>2, <2>6
        <3>. HIDE DEF nx, en, B, root
        <3>2. SortedList(en, nx[root], B \ {root}, resume_tick)
            BY <3>1, HeadTaken, Zenon
        <3>. QED BY <3>2 DEF nx, en, B, root
    <2>8. SortedList(sch.next_tcb, SleepScheduleRoot, Sleeping, resume_tick)'
        BY <1>1, <2>1, <2>5, <2>7
    <2>9. SleepScheduleRoot' \in Thread \cup {NULL}
        BY <2>1, <2>7, <2>2 DEF SortedList
    <2>10. /\ tim2' \in [CNT : 0 .. W - 1, CCR1 : 0 .. W - 1, CC1IF : BOOLEAN, CC1IE : BOOLEAN]
           /\ tim2'.CC1IF = FALSE /\ tim2'.CNT = tim2.CNT /\ AlarmSet'
        BY <1>3, <2>1, <2>9, AlarmRegisters
    <2>11. TypeOK'
        BY <1>1, <2>1, <2>3, <2>9, <2>10 DEF SleepInv, TypeOK
    <2>0. PICK M : M = L \cup {root}
        OBVIOUS
    <2>12. Order' /\ RunsFrom(M)' /\ M \in SUBSET Thread
        <3>. HIDE DEF e
        <3>1. \A u \in Thread : sch'.state[u] = "RUNNING" <=> sch.state[u] = "RUNNING"
            BY <2>1, <2>2, <2>3, <2>4 DEF Sleeping
        <3>2. \A u \in Thread : u # root => sch'.state[u] = sch.state[u]
            BY <2>1, <2>3, <2>4
        <3>. QED BY <1>0, <1>1, <2>0, <2>1, <2>2, <2>3, <3>1, <3>2
                 DEF Order, RunsFrom, RunningIn, Booting
    <2>. HIDE DEF e
    <2>13. LiveRings(sch', M)
        BY <2>0, <2>1, <2>3
    <2>14. SleepInv'
        BY <2>8, <2>10, <2>11, <2>12, <2>13 DEF SleepInv
    <2>15. sch' = EnqueueThread(sch, root)
        BY <2>1 DEF e
    <2>16. Woken
        BY <1>1, <2>1, <2>2, <2>3, <2>5, <2>10, <2>15 DEF Woken
    <2>. QED BY <2>14, <2>16
<1>. QED BY <1>2, <1>3

LEMMA SleepInvStep == SleepInv /\ [Next]_vars => SleepInv'
<1>. SUFFICES ASSUME SleepInv, [Next]_vars PROVE SleepInv'
    OBVIOUS
<1>1. CASE \E t \in Thread : AddThread(t)
    BY <1>1, AddThreadKeeps
<1>2. CASE InitScheduler
    BY <1>2, InitSchedulerKeeps
<1>3. CASE \E t \in Thread : GoToSleep(t)
    BY <1>3, GoToSleepKeeps
<1>4. CASE SysTick \/ \E t \in Thread : Yield(t)
    BY <1>4, ScheduleKeeps
<1>5. CASE \E t \in Thread : \E ms \in Duration : CallSleep(t, ms)
    BY <1>5, CallSleepKeeps
<1>6. CASE Count
    BY <1>6, CountKeeps
<1>7. CASE TIM2Handler
    BY <1>7, AlarmKeeps
<1>8. CASE ContextSwitch
    BY <1>8, SwitchKeeps
<1>9. CASE UNCHANGED vars
    BY <1>9 DEF vars, history, SleepInv, TypeOK, Sleeping, Order, RunsFrom, Booting, AlarmSet
<1>. QED BY <1>1, <1>2, <1>3, <1>4, <1>5, <1>6, <1>7, <1>8, <1>9 DEF Next

\* The list, the alarm and the order of things, in every state.
THEOREM SleepInvariant == Spec => []SleepInv
BY SleepInvInit, SleepInvStep, PTL DEF Spec

\* The registers keep their width, and every TCB field its type, when the counter
\* wraps and wherever ticks fall (schedule.c:221-290).
THEOREM Types == Spec => []TypeOK
<1>1. SleepInv => TypeOK
    BY DEF SleepInv
<1>. QED BY <1>1, SleepInvariant, PTL

\* Between any two steps of sleep and unsleep the sleep list holds exactly the
\* threads that sleep, though ticks may spoil the rings that use the same links.
THEOREM SleepListKept == Spec => []SleepListExact
<1>1. SleepInv => SleepListExact
    BY ListWalk DEF SleepInv, TypeOK, Sleeping, SleepListExact
<1>. QED BY <1>1, SleepInvariant, PTL

\* While a thread sleeps, the alarm is enabled and set for the first to be due.
THEOREM AlarmStaysSet == Spec => []AlarmSetForHead
<1>1. SleepInv => AlarmSetForHead
    <2>. SUFFICES ASSUME SleepInv PROVE AlarmSetForHead
        OBVIOUS
    <2>1. \A u \in Sleeping : resume_tick[SleepScheduleRoot] <= resume_tick[u]
        BY ListWalk DEF SleepInv, TypeOK, Sleeping
    <2>. QED BY <2>1 DEF SleepInv, AlarmSet, AlarmSetForHead, Sleeping
<1>. QED BY <1>1, SleepInvariant, PTL

-----------------------------------------------------------------------------
(* The rings, until a tick falls in front of a requested switch.             *)

\* A step from intact rings leaves them intact.
Intact == RingsOK(sch) /\ OneRuns

LEMMA EnqueuedIntact ==
    ASSUME SleepInv, Intact, NEW t \in Thread, t \notin Linked(sch),
           sch' = EnqueueThread(sch, t), pc' = pc
    PROVE  Intact'
<1>1. sch \in SchedType /\ RingsOK(sch) /\ OneRuns
    BY DEF SleepInv, TypeOK, Intact
<1>2. /\ RingsOK(sch') /\ sch'.state = [sch.state EXCEPT ![t] = "ACTIVE"]
      /\ sch'.RunPt = sch.RunPt /\ sch'.NextRunPt = sch.NextRunPt /\ sch'.pendsv = sch.pendsv
    BY <1>1, EnqueueRings
<1>3. sch.state \in [Thread -> ThreadState] /\ sch.state[t] # "RUNNING"
    BY <1>1 DEF SchedType, Linked, InRing
<1>4. \A u \in Thread : sch'.state[u] = "RUNNING" <=> sch.state[u] = "RUNNING"
    BY <1>2, <1>3
<1>. QED BY <1>1, <1>2, <1>4 DEF OneRuns, Intact

LEMMA LaunchedIntact ==
    ASSUME SleepInv, Intact, InitScheduler
    PROVE  Intact'
<1>1. /\ sch \in SchedType /\ RingsOK(sch) /\ ~sch.pendsv
      /\ \A u \in Thread : sch.state[u] # "RUNNING"
      /\ sch' = Launch(sch)
    BY DEF SleepInv, TypeOK, Order, Booting, InitScheduler, Intact
<1>2. /\ RingsOK(sch') /\ sch'.pendsv = sch.pendsv
      /\ \A u \in Thread : sch'.state[u] = "RUNNING" <=> u = sch'.RunPt
    BY <1>1, LaunchRings
<1>. QED BY <1>1, <1>2 DEF OneRuns, Intact

LEMMA ScheduledIntact ==
    ASSUME SleepInv, Intact, SysTick \/ \E t \in Thread : Yield(t), ~sch.pendsv
    PROVE  Intact'
<1>1. /\ sch \in SchedType /\ RingsOK(sch)
      /\ \A u \in Thread : sch.state[u] = "RUNNING" => u = sch.RunPt
      /\ sch' = Schedule(sch)
    BY DEF SleepInv, TypeOK, SysTick, Yield, Intact, OneRuns
<1>2. /\ RingsOK(sch') /\ sch'.pendsv
      /\ \A u \in Thread : sch'.state[u] = "RUNNING" <=> u = sch'.NextRunPt
    BY <1>1, ScheduleRings
<1>. QED BY <1>2 DEF OneRuns, Intact

LEMMA SwitchedIntact ==
    ASSUME SleepInv, Intact, ContextSwitch
    PROVE  Intact'
<1>1. sch \in SchedType /\ RingsOK(sch) /\ OneRuns /\ sch.pendsv /\ pc' = pc
    BY DEF SleepInv, TypeOK, ContextSwitch, Intact
<1>2. /\ sch'.RunPt = sch.NextRunPt /\ sch'.pendsv = FALSE
      /\ sch'.state = sch.state /\ sch'.ThreadSchedule = sch.ThreadSchedule
      /\ sch'.next_tcb = sch.next_tcb /\ sch'.prev_tcb = sch.prev_tcb
      /\ sch'.ActivePriorityCount = sch.ActivePriorityCount
    BY <1>1, SwitchFields
<1>3. RingsOK(sch')
    BY <1>1, <1>2, RingsFrame, ZenonT(60)
<1>. QED BY <1>1, <1>2, <1>3 DEF OneRuns, Intact

LEMMA SleptIntact ==
    ASSUME SleepInv, Intact, NEW t \in Thread, GoToSleep(t)
    PROVE  Intact'
<1>. DEFINE d == Leave(sch, t, "SLEEPING")
            list == InsertSorted(d.next_tcb, SleepScheduleRoot, resume_tick, t)
<1>1. /\ sch \in SchedType /\ RingsOK(sch) /\ OneRuns /\ masked # 0 /\ ~sch.pendsv
      /\ pc[t] = "arming" /\ t = sch.RunPt /\ sch.state[t] = "RUNNING"
      /\ \A u \in Thread : sch.state[u] = "RUNNING" => u = t
      /\ sch' = [d EXCEPT !.next_tcb = list.next_tcb]
      /\ pc' = [pc EXCEPT ![t] = "yield"]
      /\ resume_tick \in [Thread -> Nat]
      /\ pc \in [Thread -> {"user", "arming", "yield"}]
      /\ SortedList(sch.next_tcb, SleepScheduleRoot, Sleeping, resume_tick)
    BY DEF GoToSleep, SleepInv, TypeOK, Order, OneRuns, Intact
<1>2. /\ d \in SchedType /\ RingsOK(d) /\ Linked(d) = Linked(sch) \ {t}
      /\ d.state = [sch.state EXCEPT ![t] = "SLEEPING"]
      /\ d.next_tcb[t] = NULL
      /\ \A u \in Thread \ Linked(sch) : d.next_tcb[u] = sch.next_tcb[u]
      /\ d.RunPt = sch.RunPt /\ d.pendsv = sch.pendsv
    BY <1>1, LeaveRings
<1>. HIDE DEF d
<1>3. /\ t \notin Sleeping /\ Sleeping \in SUBSET Thread
      /\ \A u \in Sleeping : u \in Thread \ Linked(sch)
    BY <1>1 DEF Sleeping, Linked, InRing
<1>4. SortedList(d.next_tcb, SleepScheduleRoot, Sleeping, resume_tick)
    BY <1>1, <1>2, <1>3, ListFrame
<1>5. \A u \in Thread \ (Sleeping \cup {t}) : list.next_tcb[u] = d.next_tcb[u]
    <2>1. d.next_tcb \in [Thread -> Thread \cup {NULL}] /\ resume_tick \in [Thread -> Int]
        BY <1>1, <1>2 DEF SchedType
    <2>2. /\ list = InsertSorted(d.next_tcb, SleepScheduleRoot, resume_tick, t)
          /\ d.next_tcb[t] = NULL
        BY <1>2
    <2>. HIDE DEF list
    <2>3. InPlace(list, d.next_tcb, SleepScheduleRoot, Sleeping, resume_tick, t)
        BY <1>3, <1>4, <2>1, <2>2, ThreadInserted
    <2>. QED BY <2>3 DEF InPlace
<1>. HIDE DEF list
<1>6. /\ sch'.next_tcb = list.next_tcb
      /\ sch'.state = d.state /\ sch'.prev_tcb = d.prev_tcb
      /\ sch'.ThreadSchedule = d.ThreadSchedule
      /\ sch'.ActivePriorityCount = d.ActivePriorityCount
      /\ sch'.RunPt = d.RunPt /\ sch'.pendsv = d.pendsv
    BY <1>1, <1>2 DEF SchedType
<1>7. RingsOK(sch')
    <2>1. \A u \in Linked(d) : u \in Thread \ (Sleeping \cup {t})
        BY <1>2, <1>3 DEF Linked
    <2>2. \A u \in Linked(d) : sch'.next_tcb[u] = d.next_tcb[u]
        BY <1>5, <1>6, <2>1
    <2>. QED BY <1>2, <1>6, <2>2, RingsFrame, ZenonT(60)
<1>8. OneRuns'
    <2>1. sch'.RunPt = t /\ ~sch'.pendsv /\ pc'[t] = "yield"
        BY <1>1, <1>2, <1>6
    <2>2. \A u \in Thread : sch'.state[u] # "RUNNING"
        <3>1. sch.state \in [Thread -> ThreadState]
            BY <1>1 DEF SchedType
        <3>. QED BY <1>1, <1>2, <1>6, <3>1
    <2>. QED BY <2>1, <2>2 DEF OneRuns
<1>. QED BY <1>7, <1>8 DEF Intact

LEMMA RingStep == SleepInv /\ RingInv /\ [Next]_vars => RingInv'
<1>. SUFFICES ASSUME SleepInv, RingInv, [Next]_vars, ~raced' PROVE Intact'
    BY DEF RingInv, Intact
<1>0. ~raced => Intact
    BY DEF RingInv, Intact
<1>1. ASSUME NEW t \in Thread, AddThread(t) PROVE Intact'
    <2>1. /\ ~raced /\ sch' = EnqueueThread(sch, t) /\ pc' = pc
          /\ t \notin Linked(sch)
        BY <1>1 DEF AddThread, history, Linked, InRing
    <2>. QED BY <1>0, <2>1, EnqueuedIntact
<1>2. CASE InitScheduler
    BY <1>0, <1>2, LaunchedIntact DEF InitScheduler, history
<1>3. ASSUME NEW t \in Thread, GoToSleep(t) PROVE Intact'
    BY <1>0, <1>3, SleptIntact DEF GoToSleep
<1>4. CASE SysTick
    <2>1. ~raced /\ ~sch.pendsv
        BY <1>4 DEF SysTick
    <2>. QED BY <1>0, <1>4, <2>1, ScheduledIntact
<1>5. ASSUME NEW t \in Thread, Yield(t) PROVE Intact'
    <2>1. ~raced /\ ~sch.pendsv
        BY <1>5 DEF Yield, Executing, history
    <2>. QED BY <1>0, <1>5, <2>1, ScheduledIntact
<1>6. ASSUME NEW t \in Thread, NEW ms \in Duration, CallSleep(t, ms) PROVE Intact'
    <2>1. /\ ~raced /\ sch' = sch
          /\ \A u \in Thread : pc'[u] # "yield" => u = t \/ pc[u] # "yield"
          /\ pc[t] # "yield"
        BY <1>6 DEF CallSleep, SleepInv, TypeOK
    <2>. QED BY <1>0, <2>1 DEF Intact, OneRuns
<1>7. CASE Count
    BY <1>0, <1>7 DEF Count, Intact, OneRuns
<1>8. CASE TIM2Handler
    <2>1. ~raced /\ pc' = pc
        BY <1>8 DEF TIM2Handler
    <2>2. Woken
        BY <1>8, AlarmKeeps
    <2>3. CASE sch' = sch
        BY <1>0, <2>1, <2>3 DEF Intact, OneRuns
    <2>4. CASE SleepScheduleRoot \in Sleeping /\ sch' = EnqueueThread(sch, SleepScheduleRoot)
        <3>1. SleepScheduleRoot \in Thread /\ SleepScheduleRoot \notin Linked(sch)
            BY <2>4 DEF Sleeping, Linked, InRing
        <3>. QED BY <1>0, <2>1, <2>4, <3>1, EnqueuedIntact
    <2>. QED BY <2>2, <2>3, <2>4 DEF Woken
<1>9. CASE ContextSwitch
    BY <1>0, <1>9, SwitchedIntact DEF ContextSwitch, history
<1>10. CASE UNCHANGED vars
    BY <1>0, <1>10 DEF vars, history, Intact, OneRuns
<1>. QED BY <1>1, <1>2, <1>3, <1>4, <1>5, <1>6, <1>7, <1>8, <1>9, <1>10 DEF Next

\* Going to sleep in two parts and waking up keep the rings and the counts exact
\* until a tick is served between schedule() and its PendSV (schedule.c:83-84).
THEOREM RingsKeptUntilRace == Spec => []RingsUntilRace
<1>1. SleepInv /\ RingInv => RingsUntilRace
    BY RingChain DEF SleepInv, TypeOK, RingInv, RingsOK, RingCounts, RingsUntilRace
<1>. QED BY <1>1, SleepInvInit, SleepInvStep, RingStep, PTL DEF Spec

-----------------------------------------------------------------------------
(* The time. No sleep may be longer than a lap of the counter: the alarm     *)
(* compares the counter, not the time.                                       *)

ShortSleeps == \A ms \in Duration : ms * K < W

LEMMA TimeTypes ==
    ASSUME SleepInv
    PROVE  /\ tim2.CNT \in 0 .. W - 1 /\ tim2.CCR1 \in 0 .. W - 1 /\ MaxLate \in Nat
           /\ \A t \in Thread : /\ resume_tick[t] \in Nat /\ left[t] \in Int
                                 /\ Alarm(t) \in 0 .. W - 1
           /\ SleepScheduleRoot # NULL =>
                 /\ SleepScheduleRoot \in Sleeping /\ SleepScheduleRoot \in Thread
                 /\ tim2.CCR1 = Alarm(SleepScheduleRoot)
<1>1. tim2.CNT \in 0 .. W - 1 /\ tim2.CCR1 \in 0 .. W - 1 /\ MaxLate \in Nat
    BY TimerAssumption DEF SleepInv, TypeOK
<1>2. \A t \in Thread : resume_tick[t] \in Nat /\ left[t] \in Int
    BY DEF SleepInv, TypeOK
<1>3. \A t \in Thread : Alarm(t) \in 0 .. W - 1
    BY <1>2, Widths, Product, Compare DEF Alarm
<1>4. SleepScheduleRoot # NULL =>
         SleepScheduleRoot \in Sleeping /\ SleepScheduleRoot \in Thread
    BY DEF SleepInv, SortedList, Sleeping
<1>. QED BY <1>1, <1>2, <1>3, <1>4 DEF SleepInv, AlarmSet, Alarm

LEMMA TimeInit == Init => TimeInv
BY DEF Init, SchedInit, TimeInv, Waits

\* Steps that neither send a thread to sleep nor wake one.
LEMMA TimeFrame ==
    ASSUME TimeInv, UNCHANGED <<SleepScheduleRoot, resume_tick, tim2, left, stale>>,
           Sleeping' = Sleeping,
           \A u \in Thread : pc'[u] = "arming" => pc[u] = "arming"
    PROVE  TimeInv'
<1>1. \A u \in Thread : Alarm(u)' = Alarm(u)
    BY DEF Alarm
<1>2. \A u \in Thread : Waits(u)' => Waits(u)
    BY DEF Waits, Sleeping
<1>. QED BY <1>1, <1>2 DEF TimeInv

\* sleep notes the time in whole milliseconds, rounded down, and adds its argument.
LEMMA TimeCalled ==
    ASSUME ShortSleeps, SleepInv, TimeInv,
           NEW t \in Thread, NEW ms \in Duration, CallSleep(t, ms)
    PROVE  TimeInv'
<1>. DEFINE now == get_raw_time_ms
            m == (now + ms) * K
<1>1. tim2.CNT \in 0 .. W - 1 /\ ms \in Nat /\ MaxLate \in Nat
    BY TimeTypes, TimerAssumption
<1>2. now \in Nat /\ now * K <= tim2.CNT /\ tim2.CNT < now * K + K
    BY <1>1, Widths, Rounded DEF get_raw_time_ms
<1>3. /\ sch' = sch /\ sch.state[t] = "RUNNING" /\ Sleeping' = Sleeping
      /\ resume_tick' = [resume_tick EXCEPT ![t] = now + ms]
      /\ left' = [left EXCEPT ![t] = m - tim2.CNT]
      /\ pc' = [pc EXCEPT ![t] = "arming"]
      /\ UNCHANGED <<SleepScheduleRoot, tim2, stale>>
      /\ resume_tick \in [Thread -> Nat] /\ left \in [Thread -> Int]
      /\ pc \in [Thread -> {"user", "arming", "yield"}]
    BY CallSleepKeeps DEF CallSleep, SleepInv, TypeOK
<1>. HIDE DEF now
<1>4. m \in Nat /\ m - tim2.CNT < W /\ m < W + W
    <2>1. m = now * K + ms * K
        BY <1>1, <1>2, Distributed
    <2>2. ms * K < W /\ now * K \in Nat /\ ms * K \in Nat
        BY <1>1, <1>2, Widths, Product DEF ShortSleeps
    <2>. HIDE DEF m
    <2>. QED BY <1>1, <1>2, <2>1, <2>2, Widths
<1>5. Alarm(t)' = m % W /\ left'[t] = m - tim2.CNT
    BY <1>3 DEF Alarm
<1>. HIDE DEF m
<1>6. \A u \in Thread : u # t => (Waits(u)' <=> Waits(u)) /\ Alarm(u)' = Alarm(u)
                                 /\ left'[u] = left[u]
    BY <1>3 DEF Waits, Alarm
<1>7. \A u \in Thread : Waits(u)' /\ left'[u] > 0 =>
          /\ left'[u] < W
          /\ tim2'.CNT + left'[u] = Alarm(u)' \/ tim2'.CNT + left'[u] = Alarm(u)' + W
    <2>1. /\ left'[t] < W
          /\ tim2'.CNT + left'[t] = Alarm(t)' \/ tim2'.CNT + left'[t] = Alarm(t)' + W
        <3>1. m = m % W \/ m = (m % W) + W
            BY <1>4, Compare
        <3>2. tim2'.CNT + left'[t] = m
            BY <1>1, <1>3, <1>4, <1>5
        <3>. QED BY <1>4, <1>5, <3>1, <3>2
    <2>. QED BY <1>3, <1>6, <2>1 DEF TimeInv
<1>8. SleepScheduleRoot # NULL => left'[SleepScheduleRoot] = left[SleepScheduleRoot]
    BY <1>3, TimeTypes DEF Sleeping
<1>. QED BY <1>3, <1>7, <1>8 DEF TimeInv

\* The flag rises only when the first to be due is due: nobody has more than a lap
\* to go.
LEMMA TimeCounted ==
    ASSUME SleepInv, TimeInv, Count
    PROVE  TimeInv'
<1>1. /\ left' = [t \in Thread |->
            IF sch.state[t] = "SLEEPING" \/ pc[t] = "arming"
            THEN IF left[t] > -MaxLate THEN left[t] - 1 ELSE left[t]
            ELSE 0]
      /\ UNCHANGED <<sch, SleepScheduleRoot, resume_tick, pc, stale>>
      /\ tim2.CNT \in 0 .. W - 1 /\ MaxLate \in Nat
    BY TimeTypes DEF Count
<1>2. /\ tim2'.CNT = (tim2.CNT + 1) % W
      /\ tim2'.CC1IF => tim2.CC1IF \/ tim2'.CNT = tim2.CCR1
    BY CountKeeps
<1>3. tim2'.CNT \in 0 .. W - 1
      /\ (tim2'.CNT = tim2.CNT + 1 \/ tim2'.CNT = tim2.CNT + 1 - W)
    <2>1. tim2.CNT + 1 \in Nat /\ tim2.CNT + 1 < W + W
        BY <1>1, Widths
    <2>. QED BY <1>1, <1>2, <2>1, Compare, Widths
<1>4. ASSUME NEW u \in Thread
      PROVE  /\ Alarm(u)' = Alarm(u) /\ (Waits(u)' <=> Waits(u))
             /\ Alarm(u) \in 0 .. W - 1 /\ left[u] \in Int
             /\ Waits(u) => /\ left'[u] = left[u] - 1 \/ left'[u] = left[u]
                            /\ left[u] > 0 => left'[u] = left[u] - 1
    <2>1. Alarm(u)' = Alarm(u) /\ (Waits(u)' <=> Waits(u))
        BY <1>1 DEF Alarm, Waits
    <2>2. Alarm(u) \in 0 .. W - 1 /\ left[u] \in Int
        BY TimeTypes
    <2>3. Waits(u) => left'[u] = IF left[u] > -MaxLate THEN left[u] - 1 ELSE left[u]
        BY <1>1 DEF Waits
    <2>. QED BY <1>1, <2>1, <2>2, <2>3
<1>5. ASSUME NEW u \in Thread, Waits(u), left'[u] > 0
      PROVE  /\ left'[u] < W
             /\ tim2'.CNT + left'[u] = Alarm(u) \/ tim2'.CNT + left'[u] = Alarm(u) + W
    <2>1. /\ left[u] \in Int /\ Alarm(u) \in 0 .. W - 1
          /\ left'[u] = left[u] - 1 \/ left'[u] = left[u]
          /\ left[u] > 0 => left'[u] = left[u] - 1
        BY <1>4, <1>5
    <2>2. left[u] > 0 /\ left'[u] = left[u] - 1
        BY <1>5, <2>1
    <2>3. left[u] < W
          /\ (tim2.CNT + left[u] = Alarm(u) \/ tim2.CNT + left[u] = Alarm(u) + W)
        BY <1>5, <2>2 DEF TimeInv
    <2>. QED BY <1>1, <1>3, <1>5, <2>1, <2>2, <2>3, Widths
<1>6. SleepScheduleRoot # NULL /\ tim2'.CC1IF /\ ~stale => left'[SleepScheduleRoot] <= 0
    <2>. SUFFICES ASSUME SleepScheduleRoot # NULL, tim2'.CC1IF, ~stale
                  PROVE  left'[SleepScheduleRoot] <= 0
        OBVIOUS
    <2>. DEFINE u == SleepScheduleRoot
    <2>1. u \in Thread /\ Waits(u) /\ tim2.CCR1 = Alarm(u)
        BY TimeTypes DEF Sleeping, Waits
    <2>. HIDE DEF u
    <2>2. /\ left[u] \in Int /\ Alarm(u) \in 0 .. W - 1
          /\ left'[u] = left[u] - 1 \/ left'[u] = left[u]
        BY <1>4, <2>1
    <2>3. CASE tim2.CC1IF
        <3>1. left[u] <= 0
            BY <2>3 DEF TimeInv, u
        <3>2. left'[u] <= 0
            BY <2>2, <3>1
        <3>. QED BY <3>2 DEF u
    <2>4. CASE tim2'.CNT = tim2.CCR1
        <3>1. left'[u] > 0 => left'[u] < W /\ (tim2'.CNT + left'[u] = Alarm(u)
                                               \/ tim2'.CNT + left'[u] = Alarm(u) + W)
            BY <1>5, <2>1
        <3>2. left'[u] \in Int
            BY <2>2
        <3>3. left'[u] <= 0
            BY <1>3, <2>1, <2>2, <2>4, <3>1, <3>2, Widths
        <3>. QED BY <3>3 DEF u
    <2>. QED BY <1>2, <2>3, <2>4
<1>7. \A u \in Thread : Waits(u)' /\ left'[u] > 0 =>
          /\ left'[u] < W
          /\ tim2'.CNT + left'[u] = Alarm(u)' \/ tim2'.CNT + left'[u] = Alarm(u)' + W
    BY <1>4, <1>5
<1>. QED BY <1>1, <1>6, <1>7 DEF TimeInv

\* Arming leaves the flag as it is: if it was up, that is what `stale` says.
LEMMA TimeSlept ==
    ASSUME SleepInv, TimeInv, NEW t \in Thread, GoToSleep(t)
    PROVE  TimeInv'
<1>1. Slept(t) /\ pc \in [Thread -> {"user", "arming", "yield"}]
      /\ sch.state \in [Thread -> ThreadState]
    BY GoToSleepKeeps DEF SleepInv, TypeOK, SchedType
<1>2. \A u \in Thread : Alarm(u)' = Alarm(u) /\ left'[u] = left[u] /\ tim2'.CNT = tim2.CNT
    BY <1>1 DEF Slept, Alarm
<1>3. \A u \in Thread : Waits(u)' => Waits(u)
    BY <1>1 DEF Slept, Waits
<1>4. \A u \in Thread : Waits(u)' /\ left'[u] > 0 =>
          /\ left'[u] < W
          /\ tim2'.CNT + left'[u] = Alarm(u)' \/ tim2'.CNT + left'[u] = Alarm(u)' + W
    BY <1>2, <1>3 DEF TimeInv
<1>5. SleepScheduleRoot' # NULL /\ tim2'.CC1IF /\ ~stale' => left'[SleepScheduleRoot'] <= 0
    <2>1. tim2.CC1IF \in BOOLEAN
        BY DEF SleepInv, TypeOK
    <2>2. CASE SleepScheduleRoot' = t /\ stale' = tim2.CC1IF /\ tim2'.CC1IF = tim2.CC1IF
        BY <2>1, <2>2
    <2>3. CASE /\ SleepScheduleRoot' = SleepScheduleRoot /\ SleepScheduleRoot # NULL
               /\ tim2' = tim2 /\ stale' = stale
        <3>1. left' = left
            BY <1>1 DEF Slept
        <3>. QED BY <2>3, <3>1 DEF TimeInv
    <2>. QED BY <1>1, <2>2, <2>3 DEF Slept
<1>. QED BY <1>4, <1>5 DEF TimeInv

LEMMA TimeWoken ==
    ASSUME SleepInv, TimeInv, TIM2Handler
    PROVE  TimeInv' /\ \A t \in Thread : WokenEarly(t) => stale
<1>1. Woken /\ sch.state \in [Thread -> ThreadState]
    BY AlarmKeeps DEF SleepInv, TypeOK, SchedType
<1>2. \A t \in Thread : WokenEarly(t) => t = SleepScheduleRoot /\ t \in Thread
    BY <1>1 DEF Woken, WokenEarly
<1>3. \A t \in Thread : left[t] \in Int
    BY TimeTypes
<1>4. SleepScheduleRoot # NULL /\ ~stale => left[SleepScheduleRoot] <= 0
    BY <1>1 DEF Woken, TimeInv
<1>5. \A t \in Thread : WokenEarly(t) => stale
    BY <1>2, <1>3, <1>4, ThreadsAssumption DEF WokenEarly
<1>6. \A u \in Thread : Alarm(u)' = Alarm(u) /\ left'[u] = left[u] /\ tim2'.CNT = tim2.CNT
                         /\ (Waits(u)' => Waits(u))
    BY <1>1 DEF Woken, Alarm, Waits, Sleeping
<1>7. TimeInv'
    BY <1>1, <1>6 DEF Woken, TimeInv
<1>. QED BY <1>5, <1>7

LEMMA TimeStep ==
    ASSUME ShortSleeps, SleepInv, TimeInv, [Next]_vars
    PROVE  TimeInv' /\ \A t \in Thread : WokenEarly(t) => stale
<1>. DEFINE Goal == TimeInv' /\ \A t \in Thread : WokenEarly(t) => stale
<1>0. ASSUME TimeInv', Sleeping \subseteq Sleeping' PROVE Goal
    BY <1>0 DEF Sleeping, WokenEarly
<1>1. ASSUME NEW t \in Thread, AddThread(t) PROVE Goal
    <2>1. Sleeping' = Sleeping
        BY <1>1, AddThreadKeeps
    <2>2. TimeInv'
        BY <1>1, <2>1, TimeFrame DEF AddThread, history
    <2>. QED BY <1>0, <2>1, <2>2
<1>2. ASSUME InitScheduler PROVE Goal
    <2>1. Sleeping' = Sleeping
        BY <1>2, InitSchedulerKeeps
    <2>2. TimeInv'
        BY <1>2, <2>1, TimeFrame DEF InitScheduler, history
    <2>. QED BY <1>0, <2>1, <2>2
<1>3. ASSUME NEW t \in Thread, GoToSleep(t) PROVE Goal
    BY <1>0, <1>3, TimeSlept, GoToSleepKeeps DEF Slept
<1>4. ASSUME SysTick \/ \E t \in Thread : Yield(t) PROVE Goal
    BY <1>0, <1>4, ScheduleKeeps, TimeFrame
<1>5. ASSUME NEW t \in Thread, NEW ms \in Duration, CallSleep(t, ms) PROVE Goal
    BY <1>0, <1>5, CallSleepKeeps, TimeCalled
<1>6. ASSUME Count PROVE Goal
    BY <1>0, <1>6, CountKeeps, TimeCounted
<1>7. ASSUME TIM2Handler PROVE Goal
    BY <1>7, TimeWoken
<1>8. ASSUME ContextSwitch PROVE Goal
    <2>1. Sleeping' = Sleeping
        BY <1>8, SwitchKeeps
    <2>2. TimeInv'
        BY <1>8, <2>1, TimeFrame DEF ContextSwitch, history
    <2>. QED BY <1>0, <2>1, <2>2
<1>9. ASSUME UNCHANGED vars PROVE Goal
    <2>1. Sleeping' = Sleeping
        BY <1>9 DEF vars, Sleeping
    <2>2. TimeInv'
        BY <1>9, <2>1, TimeFrame DEF vars, history
    <2>. QED BY <1>0, <2>1, <2>2
<1>. QED BY <1>1, <1>2, <1>3, <1>4, <1>5, <1>6, <1>7, <1>8, <1>9 DEF Next

\* unsleep wakes a thread before the time it asked for only if the compare flag
\* was up already when sleep armed the alarm for it: one alarm serves all that
\* sleep, a thread that is due earlier may take it over, and it compares a counter
\* that wraps (schedule.c:229-290, timer.c:21-45).
THEOREM OnlyStaleFlagsWakeEarly == ASSUME ShortSleeps PROVE Spec => EarlyOnlyIfStale
<1>1. Init => TimeInv /\ SleepInv
    BY TimeInit, SleepInvInit
<1>2. TimeInv /\ SleepInv /\ [Next]_vars => TimeInv' /\ SleepInv'
    BY TimeStep, SleepInvStep
<1>3. TimeInv /\ SleepInv /\ [Next]_vars => [\A t \in Thread : WokenEarly(t) => stale]_vars
    BY TimeStep
<1>. QED BY <1>1, <1>2, <1>3, PTL DEF Spec, EarlyOnlyIfStale
=============================================================================
