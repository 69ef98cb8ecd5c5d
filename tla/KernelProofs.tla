---------------------------- MODULE KernelProofs ----------------------------
(***************************************************************************)
(* Theorems about Kernel, for any threads, levels and semaphores.          *)
(*                                                                         *)
(* Those about SlottedSpec (no tick between schedule() and its PendSV)     *)
(* rest on KernelInv: a function of the scheduler keeps the lists intact   *)
(* because the caller is the only RUNNING thread, and it stays the only    *)
(* one because the lists are intact. Those about Spec (a tick at any time) *)
(* rest on TickInv, or on MutexInv.                                        *)
(* That the lists implement the queues of RunQueues rests on WalksWell:    *)
(* each ring and each list is a sequence of threads, and every function    *)
(* of the scheduler changes it as a queue changes.                         *)
(***************************************************************************)
EXTENDS KernelRefinement, ListProofs

Inductive == TypeOK /\ KernelInv

\* Nothing is linked, counted or running before the first add_thread.
LEMMA InitInductive == Init => Inductive
<1>. SUFFICES ASSUME Init PROVE Inductive
    OBVIOUS
<1>1. TypeOK
    BY SemAssumption, LevelsAssumption
    DEF Init, TypeOK, SchedInit, SchedType, ThreadState, Level
<1>2. /\ \A st \in {InRing, {"ACTIVE"}}, p \in Level : At(sch, st, p) = {}
      /\ Linked(sch) = {} /\ Blocked(sch) = {}
    BY DEF Init, SchedInit, At, InRing, Linked, Blocked
<1>3. RingsOK(sch)
    <2>1. RingLinks(sch)
        BY <1>2 DEF RingLinks
    <2>2. RingRoots(sch)
        BY <1>2 DEF Init, SchedInit, RingRoots
    <2>3. RingWhole(sch)
        BY <1>2 DEF RingWhole
    <2>4. RingCounts(sch)
        BY <1>2, FS_EmptySet DEF Init, SchedInit, RingCounts
    <2>. QED BY <2>1, <2>2, <2>3, <2>4 DEF RingsOK
<1>4. BlockedLinks(sch) /\ BlockedApart(sch) /\ BlockedEnds(sch) /\ BlockedSorted(sch)
    BY <1>2 DEF Init, SchedInit, BlockedLinks, BlockedApart, BlockedEnds, BlockedSorted
<1>5. KernelInv
    BY <1>3, <1>4, ThreadsAssumption
    DEF Init, SchedInit, KernelInv, ListsOK, Chosen, Booting
<1>. QED BY <1>1, <1>5 DEF Inductive

\* A thread that executes is the RUNNING one.
LEMMA RunsAlone ==
    ASSUME Inductive, ~sch.pendsv
    PROVE  \A t \in Thread : sch.state[t] = "RUNNING" <=> t = sch.RunPt
    BY DEF Inductive, KernelInv, Chosen

\* add_thread links a fresh thread into its ring and counts it.
LEMMA AddThreadStep ==
    ASSUME Inductive, NEW t \in Thread, AddThread(t)
    PROVE  Inductive' /\ sch'.pendsv = sch.pendsv
<1>1. /\ sch \in SchedType /\ ListsOK(sch) /\ BlockedOK(sch)
      /\ sch.RunPt = NULL /\ ~sch.pendsv /\ NULL \notin Thread
      /\ \A u \in Thread : sch.state[u] \in {"NONE", "ACTIVE"}
      /\ sch.state[t] = "NONE" /\ sch' = EnqueueThread(sch, t)
    BY ThreadsAssumption
    DEF Inductive, TypeOK, KernelInv, ListsOK, BlockedOK, AddThread, Booting
<1>2. t \notin Linked(sch) /\ Blocked(sch) = {} /\ RingsOK(sch)
    BY <1>1 DEF Linked, Blocked, InRing, ListsOK
<1>3. /\ sch' \in SchedType /\ RingsOK(sch')
      /\ sch'.state = [sch.state EXCEPT ![t] = "ACTIVE"]
      /\ sch'.bthreads_root = sch.bthreads_root
      /\ sch'.RunPt = sch.RunPt /\ sch'.NextRunPt = sch.NextRunPt
      /\ sch'.pendsv = sch.pendsv
    BY <1>1, <1>2, EnqueueRings
<1>4. sch.state \in [Thread -> ThreadState]
    BY <1>1 DEF SchedType
<1>5. Blocked(sch') = {}
    BY <1>1, <1>3, <1>4 DEF Blocked
<1>6. BlockedOK(sch')
    BY <1>1, <1>2, <1>3, <1>5, BlockedFrame
<1>7. TypeOK'
    BY <1>3 DEF Inductive, TypeOK, AddThread
<1>8. KernelInv'
    BY <1>1, <1>3, <1>4, <1>6
    DEF Inductive, KernelInv, ListsOK, BlockedOK, Chosen, Booting, AddThread
<1>. QED BY <1>3, <1>7, <1>8 DEF Inductive

\* init_scheduler makes the first thread, or idle, the one that runs.
LEMMA InitSchedulerStep ==
    ASSUME Inductive, InitScheduler
    PROVE  Inductive' /\ sch'.pendsv = sch.pendsv
<1>1. /\ sch \in SchedType /\ RingsOK(sch) /\ BlockedOK(sch)
      /\ sch.RunPt = NULL /\ ~sch.pendsv
      /\ \A u \in Thread : sch.state[u] \in {"NONE", "ACTIVE"}
      /\ sch' = Launch(sch)
    BY DEF Inductive, TypeOK, KernelInv, ListsOK, BlockedOK, InitScheduler, Booting
<1>2. /\ sch' \in SchedType /\ RingsOK(sch')
      /\ sch'.pendsv = sch.pendsv
      /\ sch'.RunPt \in Thread \cup {IdleThread}
      /\ sch'.bthreads_root = sch.bthreads_root
      /\ sch'.next_tcb = sch.next_tcb
      /\ \A u \in Thread : sch'.state[u] = "RUNNING" <=> u = sch'.RunPt
      /\ \A u \in Thread : sch'.state[u] \in InRing <=> sch.state[u] \in InRing
      /\ \A u \in Thread : sch.state[u] \notin InRing => sch'.state[u] = sch.state[u]
    BY <1>1, LaunchRings
<1>3. Blocked(sch') = Blocked(sch)
    BY <1>2 DEF Blocked, InRing
<1>4. BlockedOK(sch')
    BY <1>1, <1>2, <1>3, BlockedFrame
<1>5. TypeOK'
    BY <1>2 DEF Inductive, TypeOK, InitScheduler
<1>6. KernelInv'
    BY <1>1, <1>2, <1>4, ThreadsAssumption
    DEF Inductive, KernelInv, ListsOK, BlockedOK, Chosen, Booting, InitScheduler
<1>. QED BY <1>2, <1>5, <1>6 DEF Inductive

\* A tick outside the PendSV window requeues the running thread and chooses again
\* from rings that are whole.
LEMMA TickStep ==
    ASSUME Inductive, SlottedTick
    PROVE  /\ Inductive'
           /\ \A u \in Thread : sch'.state[u] = "ACTIVE" =>
                 /\ sch'.NextRunPt \in Thread
                 /\ Priority[sch'.NextRunPt] <= Priority[u]
<1>1. /\ sch \in SchedType /\ RingsOK(sch) /\ BlockedOK(sch)
      /\ \A u \in Thread : sch.state[u] = "RUNNING" => u = sch.RunPt
      /\ sch.RunPt # NULL
      /\ sch' = Schedule(sch)
    BY RunsAlone
    DEF Inductive, TypeOK, KernelInv, ListsOK, BlockedOK, SlottedTick, SysTick, Booting
<1>2. /\ sch' \in SchedType /\ RingsOK(sch')
      /\ sch'.pendsv /\ sch'.RunPt = sch.RunPt
      /\ sch'.NextRunPt \in Thread \cup {IdleThread}
      /\ sch'.next_tcb = sch.next_tcb
      /\ sch'.bthreads_root = sch.bthreads_root
      /\ \A u \in Thread : sch'.state[u] = "RUNNING" <=> u = sch'.NextRunPt
      /\ \A u \in Thread : sch'.state[u] \in InRing <=> sch.state[u] \in InRing
      /\ \A u \in Thread : sch.state[u] \notin InRing => sch'.state[u] = sch.state[u]
      /\ \A u \in Thread : sch'.state[u] = "ACTIVE" =>
            /\ sch'.NextRunPt \in Thread
            /\ Priority[sch'.NextRunPt] <= Priority[u]
    BY <1>1, ScheduleRings
<1>3. Blocked(sch') = Blocked(sch)
    BY <1>2 DEF Blocked, InRing
<1>4. BlockedOK(sch')
    BY <1>1, <1>2, <1>3, BlockedFrame
<1>5. TypeOK'
    BY <1>2 DEF Inductive, TypeOK, SlottedTick, SysTick
<1>6. KernelInv'
    BY <1>1, <1>2, <1>4, ThreadsAssumption
    DEF Inductive, KernelInv, ListsOK, BlockedOK, Chosen, Booting, SlottedTick, SysTick
<1>. QED BY <1>2, <1>5, <1>6 DEF Inductive

\* pendSV_handler moves RunPt to the thread schedule() chose; no list changes.
LEMMA ContextSwitchStep ==
    ASSUME Inductive, ContextSwitch
    PROVE  Inductive' /\ ~sch'.pendsv
<1>1. /\ sch \in SchedType /\ RingsOK(sch) /\ BlockedOK(sch)
      /\ sch.pendsv /\ sch' = [sch EXCEPT !.RunPt = sch.NextRunPt, !.pendsv = FALSE]
    BY DEF Inductive, TypeOK, KernelInv, ListsOK, BlockedOK, ContextSwitch, PendSV
<1>2. /\ sch' \in SchedType
      /\ sch'.RunPt = sch.NextRunPt /\ sch'.pendsv = FALSE
      /\ sch'.state = sch.state /\ sch'.ThreadSchedule = sch.ThreadSchedule
      /\ sch'.next_tcb = sch.next_tcb /\ sch'.prev_tcb = sch.prev_tcb
      /\ sch'.ActivePriorityCount = sch.ActivePriorityCount
      /\ sch'.bthreads_root = sch.bthreads_root
    BY <1>1 DEF SchedType
<1>3. RingsOK(sch')
    BY <1>1, <1>2, RingsFrame, ZenonT(60)
<1>4. BlockedOK(sch')
    <2>1. Blocked(sch') = Blocked(sch)
        BY <1>2 DEF Blocked
    <2>. QED BY <2>1, <1>1, <1>2, BlockedFrame
<1>5. TypeOK'
    BY <1>2 DEF Inductive, TypeOK, ContextSwitch
<1>6. KernelInv'
    BY <1>1, <1>2, <1>3, <1>4
    DEF Inductive, KernelInv, ListsOK, BlockedOK, Chosen, Booting, ContextSwitch
<1>. QED BY <1>2, <1>5, <1>6 DEF Inductive

\* A wait that blocks moves the running thread from its ring to the blocked list
\* and chooses its successor.
LEMMA BlockStep ==
    ASSUME Inductive, NEW t \in Thread, Block(t)
    PROVE  /\ Inductive'
           /\ \A u \in Thread : sch'.state[u] = "ACTIVE" =>
                 /\ sch'.NextRunPt \in Thread
                 /\ Priority[sch'.NextRunPt] <= Priority[u]
<1>1. /\ sch \in SchedType /\ ListsOK(sch)
      /\ sch.RunPt \in Thread /\ sch.RunPt # NULL
      /\ \A u \in Thread : sch.state[u] = "RUNNING" <=> u = sch.RunPt
      /\ on[t] \in Sem /\ sch' = SchedBlock(sch, on[t])
    BY RunsAlone, ThreadsAssumption DEF Inductive, TypeOK, KernelInv, Block, Executing
<1>2. /\ sch' \in SchedType /\ ListsOK(sch')
      /\ sch'.pendsv /\ sch'.RunPt = sch.RunPt
      /\ sch'.NextRunPt \in Thread \cup {IdleThread}
      /\ \A u \in Thread : sch'.state[u] = "RUNNING" <=> u = sch'.NextRunPt
      /\ \A u \in Thread : sch'.state[u] = "ACTIVE" =>
            /\ sch'.NextRunPt \in Thread
            /\ Priority[sch'.NextRunPt] <= Priority[u]
    BY <1>1, SchedBlockLists
<1>3. TypeOK'
    BY <1>2 DEF Inductive, TypeOK, Block
<1>4. KernelInv'
    <2>1. \A u \in Thread : pc'[u] = "window" => on'[u] \in Sem
        BY DEF Inductive, TypeOK, KernelInv, Block
    <2>. QED BY <2>1, <1>1, <1>2, ThreadsAssumption DEF KernelInv, Chosen, Booting
<1>. QED BY <1>2, <1>3, <1>4 DEF Inductive

\* A signal: whatever it does to the value, the lists stay intact.
LEMMA WakeFirstStep ==
    ASSUME Inductive, NEW sem \in Sem, WakeFirst(sem), ~Booting,
           UNCHANGED <<pc, on, ticked>>,
           value' \in [Sem -> Nat], holders' \in [Mutex -> SUBSET Thread]
    PROVE  Inductive' /\ sch'.pendsv = sch.pendsv
<1>1. /\ sch \in SchedType /\ ListsOK(sch) /\ sch.RunPt # NULL
    BY DEF Inductive, TypeOK, KernelInv, Booting
<1>2. CASE sch.bthreads_root[sem] = NULL
    <2>1. sch' = sch
        BY <1>2 DEF WakeFirst
    <2>2. TypeOK'
        BY <2>1 DEF Inductive, TypeOK
    <2>3. KernelInv'
        BY <2>1 DEF Inductive, KernelInv, Chosen, Booting
    <2>. QED BY <2>1, <2>2, <2>3 DEF Inductive
<1>3. CASE sch.bthreads_root[sem] # NULL
    <2> DEFINE t == sch.bthreads_root[sem]
    <2>1. sch' = SchedUnblock(sch, sem)
        BY <1>3 DEF WakeFirst
    <2>2. /\ sch' \in SchedType /\ ListsOK(sch')
          /\ t \in Blocked(sch)
          /\ sch'.state = [sch.state EXCEPT ![t] = "ACTIVE"]
          /\ sch'.RunPt = sch.RunPt /\ sch'.NextRunPt = sch.NextRunPt
          /\ sch'.pendsv = sch.pendsv
        BY <2>1, <1>1, <1>3, SchedUnblockLists
    <2>3. TypeOK'
        BY <2>2 DEF Inductive, TypeOK
    <2>. HIDE DEF t
    <2>4. \A u \in Thread : sch'.state[u] = "RUNNING" <=> sch.state[u] = "RUNNING"
        BY <2>2, <1>1 DEF SchedType, Blocked
    <2>5. KernelInv'
        BY <2>2, <2>4, <1>1 DEF Inductive, KernelInv, Chosen, Booting
    <2>. QED BY <2>2, <2>3, <2>5 DEF Inductive
<1>. QED BY <1>2, <1>3

\* A wait, up to its acquisition or its failed test, leaves the lists alone.
LEMMA WaitStep ==
    ASSUME Inductive, NEW t \in Thread, NEW sem \in Sem,
           CWait(t, sem) \/ BWait(t, sem)
    PROVE  Inductive' /\ sch' = sch
<1>1. CASE Unavailable(t, sem)
    <2>1. TypeOK' /\ sch' = sch
        BY <1>1 DEF Inductive, TypeOK, Unavailable
    <2>2. KernelInv'
        BY <1>1 DEF Inductive, TypeOK, KernelInv, Chosen, Booting, Unavailable
    <2>. QED BY <2>1, <2>2 DEF Inductive
<1>2. CASE ~Unavailable(t, sem)
    <2>1. PICK v \in Nat : Acquire(t, sem, v)
        BY <1>2 DEF Inductive, TypeOK, CWait, BWait
    <2>2. holders' \in [Mutex -> SUBSET Thread]
        BY <2>1 DEF Inductive, TypeOK, Acquire
    <2>3. TypeOK' /\ sch' = sch
        BY <2>1, <2>2 DEF Inductive, TypeOK, Acquire
    <2>4. KernelInv'
        BY <2>1 DEF Inductive, TypeOK, KernelInv, Chosen, Booting, Acquire
    <2>. QED BY <2>3, <2>4 DEF Inductive
<1>. QED BY <1>1, <1>2

\* A signal, of a thread or of a handler, is WakeFirst and a new value.
LEMMA SignalEffect ==
    ASSUME TypeOK,
           \/ \E t \in Thread, sem \in CSem : ThreadCSignal(t, sem)
           \/ \E t \in Thread, sem \in Mutex : ThreadBSignal(t, sem)
           \/ Handler
    PROVE  \E sem \in Sem :
              /\ WakeFirst(sem) /\ ~Booting /\ UNCHANGED <<pc, on, ticked>>
              /\ value' \in [Sem -> Nat] /\ holders' \in [Mutex -> SUBSET Thread]
<1>1. ASSUME NEW t \in Thread, NEW sem \in CSem, ThreadCSignal(t, sem)
      PROVE  /\ sem \in Sem
             /\ WakeFirst(sem) /\ ~Booting /\ UNCHANGED <<pc, on, ticked>>
             /\ value' \in [Sem -> Nat] /\ holders' \in [Mutex -> SUBSET Thread]
    BY <1>1, SemAssumption, ThreadsAssumption
    DEF ThreadCSignal, CSignal, Executing, Booting, TypeOK
<1>2. ASSUME NEW t \in Thread, NEW sem \in Mutex, ThreadBSignal(t, sem)
      PROVE  /\ sem \in Sem
             /\ WakeFirst(sem) /\ ~Booting /\ UNCHANGED <<pc, on, ticked>>
             /\ value' \in [Sem -> Nat] /\ holders' \in [Mutex -> SUBSET Thread]
    BY <1>2, SemAssumption, ThreadsAssumption
    DEF ThreadBSignal, BSignal, Executing, Booting, TypeOK
<1>3. ASSUME NEW sem \in IsrCSem, IsrCSignal(sem)
      PROVE  /\ sem \in Sem
             /\ WakeFirst(sem) /\ ~Booting /\ UNCHANGED <<pc, on, ticked>>
             /\ value' \in [Sem -> Nat] /\ holders' \in [Mutex -> SUBSET Thread]
    BY <1>3, SemAssumption DEF IsrCSignal, CSignal, TypeOK
<1>4. ASSUME NEW sem \in Event, IsrBSignal(sem)
      PROVE  /\ sem \in Sem
             /\ WakeFirst(sem) /\ ~Booting /\ UNCHANGED <<pc, on, ticked>>
             /\ value' \in [Sem -> Nat] /\ holders' \in [Mutex -> SUBSET Thread]
    BY <1>4, SemAssumption DEF IsrBSignal, BSignal, TypeOK
<1>. QED BY <1>1, <1>2, <1>3, <1>4 DEF Handler

\* Every c_signal and b_signal, of a thread or of a handler, keeps the invariant.
LEMMA SignalStep ==
    ASSUME Inductive,
           \/ \E t \in Thread, sem \in CSem : ThreadCSignal(t, sem)
           \/ \E t \in Thread, sem \in Mutex : ThreadBSignal(t, sem)
           \/ Handler
    PROVE  Inductive' /\ sch'.pendsv = sch.pendsv
<1>1. TypeOK
    BY DEF Inductive
<1>. QED BY <1>1, SignalEffect, WakeFirstStep

\* The disjuncts of SlottedNext, one conclusion for all.
LEMMA NextInductive ==
    ASSUME Inductive, [SlottedNext]_vars
    PROVE  /\ Inductive'
           /\ ~sch.pendsv /\ sch'.pendsv =>
                \A u \in Thread : sch'.state[u] = "ACTIVE" =>
                   /\ sch'.NextRunPt \in Thread
                   /\ Priority[sch'.NextRunPt] <= Priority[u]
<1>1. CASE \E t \in Thread : AddThread(t)
    BY <1>1, AddThreadStep
<1>2. CASE InitScheduler
    BY <1>2, InitSchedulerStep
<1>3. CASE \E t \in Thread, sem \in Sem : CWait(t, sem) \/ BWait(t, sem)
    BY <1>3, WaitStep
<1>4. CASE \/ \E t \in Thread, sem \in CSem : ThreadCSignal(t, sem)
           \/ \E t \in Thread, sem \in Mutex : ThreadBSignal(t, sem)
           \/ Handler
    BY <1>4, SignalStep
<1>5. CASE \E t \in Thread : Block(t)
    BY <1>5, BlockStep
<1>6. CASE ContextSwitch
    BY <1>6, ContextSwitchStep
<1>7. CASE SlottedTick
    BY <1>7, TickStep
<1>8. CASE UNCHANGED vars
    <2>1. TypeOK'
        BY <1>8 DEF Inductive, TypeOK, vars
    <2>2. KernelInv' /\ sch' = sch
        BY <1>8 DEF Inductive, KernelInv, Chosen, Booting, vars
    <2>. QED BY <2>1, <2>2 DEF Inductive
<1>9. CSem \subseteq Sem /\ BSem \subseteq Sem
    BY SemAssumption DEF BSem
<1>. QED BY <1>1, <1>2, <1>3, <1>4, <1>5, <1>6, <1>7, <1>8, <1>9
         DEF SlottedNext, Common, ThreadStep

\* The lists, counts and states agree in every state the slotted kernel reaches.
THEOREM InductiveAlways == SlottedSpec => []Inductive
<1>1. Init => Inductive
    BY InitInductive
<1>2. Inductive /\ [SlottedNext]_vars => Inductive'
    BY NextInductive
<1>. QED BY <1>1, <1>2, PTL DEF SlottedSpec

-----------------------------------------------------------------------------
(* The properties of the runs                                                *)

\* Every global and every field keeps its type (schedule.c, semaphore.c): in
\* particular no count goes below zero and NextRunPt is never loaded from NULL.
THEOREM TypeCorrect == SlottedSpec => []TypeOK
<1>1. Inductive => TypeOK
    BY DEF Inductive
<1>. QED BY <1>1, InductiveAlways, PTL

\* The inductive invariant, as the run checks it.
THEOREM KernelInvariant == SlottedSpec => []KernelInv
<1>1. Inductive => KernelInv
    BY DEF Inductive
<1>. QED BY <1>1, InductiveAlways, PTL

\* ActivePriorityCount is the number of ready threads of the level that are not
\* running, after any sequence of calls and exceptions without a tick race.
THEOREM CountsCorrect == SlottedSpec => []CountsExact
<1>1. Inductive => CountsExact
    BY DEF Inductive, KernelInv, ListsOK, RingsOK, RingCounts, CountsExact
<1>. QED BY <1>1, InductiveAlways, PTL

\* No two threads are ever RUNNING: the one that is has the CPU or is next.
THEOREM OneRunningThread == SlottedSpec => []OneRunning
<1>1. Inductive => OneRunning
    BY DEF Inductive, KernelInv, OneRunning
<1>. QED BY <1>1, InductiveAlways, PTL

\* A walk round the ring of a level meets the threads of that level that are
\* ready or running, all of them and no other, and can be taken backwards.
THEOREM RingsCorrect == SlottedSpec => []RingsExact
<1>1. Inductive => RingsExact
    BY RingChain DEF Inductive, KernelInv, ListsOK, RingsExact
<1>. QED BY <1>1, InductiveAlways, PTL

\* Whichever function requests a switch, sched_block or the tick, the thread
\* switched to is no less urgent than any thread that is left ready.
THEOREM MostUrgentFirst == SlottedSpec => MostUrgentNext
<1>1. Inductive /\ [SlottedNext]_vars =>
         [~sch.pendsv /\ sch'.pendsv =>
            \A t \in Thread : sch'.state[t] = "ACTIVE" =>
               /\ sch'.NextRunPt \in Thread
               /\ Priority[sch'.NextRunPt] <= Priority[t]]_vars
    BY NextInductive
<1>. QED BY <1>1, InductiveAlways, PTL DEF SlottedSpec, MostUrgentNext

-----------------------------------------------------------------------------
(* Mutual exclusion holds with the tick race too: it never depends on the    *)
(* lists.                                                                    *)

MutexInv ==
    /\ value \in [Sem -> Nat]
    /\ holders \in [Mutex -> SUBSET Thread]
    /\ MutualExclusion

\* No step of a thread, handler, tick or switch breaks the mutex: its value reads
\* taken exactly while one thread holds it.
LEMMA MutexStep == MutexInv /\ [Next]_vars => MutexInv'
<1>. SUFFICES ASSUME MutexInv, [Next]_vars
              PROVE  MutexInv'
    OBVIOUS
<1>0. /\ Mutex \subseteq Sem /\ CSem \subseteq Sem /\ Event \subseteq Sem
      /\ IsrCSem \subseteq CSem /\ CSem \cap Mutex = {} /\ Event \cap Mutex = {}
    BY SemAssumption
<1>1. CASE UNCHANGED <<value, holders>>
    BY <1>1 DEF MutexInv, MutualExclusion
<1>2. ASSUME NEW sem \in CSem, NEW v \in Nat,
             value' = [value EXCEPT ![sem] = v], holders' = holders
      PROVE  MutexInv'
    BY <1>0, <1>2 DEF MutexInv, MutualExclusion
<1>3. ASSUME NEW sem \in Event, NEW v \in Nat,
             value' = [value EXCEPT ![sem] = v], holders' = holders
      PROVE  MutexInv'
    BY <1>0, <1>3 DEF MutexInv, MutualExclusion
<1>4. ASSUME NEW t \in Thread, NEW m \in Mutex, value[m] = 0,
             value' = [value EXCEPT ![m] = 1],
             holders' = [holders EXCEPT ![m] = @ \cup {t}]
      PROVE  MutexInv'
    BY <1>0, <1>4 DEF MutexInv, MutualExclusion
<1>5. ASSUME NEW t \in Thread, NEW m \in Mutex, t \in holders[m],
             value' = [value EXCEPT ![m] = 0],
             holders' = [holders EXCEPT ![m] = @ \ {t}]
      PROVE  MutexInv'
    BY <1>0, <1>5 DEF MutexInv, MutualExclusion
<1>6. ASSUME NEW t \in Thread, NEW sem \in CSem, CWait(t, sem)
      PROVE  MutexInv'
    <2>1. CASE Unavailable(t, sem)
        BY <2>1, <1>1 DEF Unavailable
    <2>2. CASE Acquire(t, sem, value[sem] - 1) /\ value[sem] # 0
        <3>1. value[sem] - 1 \in Nat
            BY <1>0, <2>2 DEF MutexInv
        <3>2. /\ value' = [value EXCEPT ![sem] = value[sem] - 1]
              /\ holders' = holders
            BY <1>0, <2>2 DEF Acquire
        <3>. QED BY <3>1, <3>2, <1>2
    <2>. QED BY <2>1, <2>2, <1>6 DEF CWait
<1>7. ASSUME NEW t \in Thread, NEW sem \in BSem, BWait(t, sem)
      PROVE  MutexInv'
    <2>1. CASE Unavailable(t, sem)
        BY <2>1, <1>1 DEF Unavailable
    <2>2. CASE Acquire(t, sem, 1) /\ value[sem] = 0 /\ sem \in Mutex
        BY <2>2, <1>4 DEF Acquire
    <2>3. CASE Acquire(t, sem, 1) /\ sem \in Event
        <3>1. value' = [value EXCEPT ![sem] = 1] /\ holders' = holders
            BY <1>0, <2>3 DEF Acquire
        <3>. QED BY <3>1, <2>3, <1>3
    <2>. QED BY <2>1, <2>2, <2>3, <1>7 DEF BWait, BSem
<1>8. ASSUME NEW sem \in CSem, CSignal(sem), holders' = holders
      PROVE  MutexInv'
    <2>1. value[sem] + 1 \in Nat /\ value' = [value EXCEPT ![sem] = value[sem] + 1]
        BY <1>0, <1>8 DEF CSignal, MutexInv
    <2>. QED BY <2>1, <1>2, <1>8
<1>9. ASSUME NEW t \in Thread, NEW m \in Mutex, ThreadBSignal(t, m)
      PROVE  MutexInv'
    BY <1>9, <1>5 DEF ThreadBSignal, BSignal
<1>10. ASSUME NEW sem \in Event, IsrBSignal(sem)
       PROVE  MutexInv'
    BY <1>10, <1>3 DEF IsrBSignal, BSignal
<1>11. ASSUME \/ \E t \in Thread : AddThread(t) \/ Block(t)
              \/ InitScheduler \/ SysTick \/ ContextSwitch \/ UNCHANGED vars
       PROVE  MutexInv'
    BY <1>11, <1>1 DEF AddThread, Block, InitScheduler, SysTick, ContextSwitch, vars
<1>12. ASSUME \/ \E t \in Thread, sem \in CSem : ThreadCSignal(t, sem)
              \/ \E sem \in IsrCSem : IsrCSignal(sem)
       PROVE  MutexInv'
    BY <1>12, <1>8, <1>0 DEF ThreadCSignal, IsrCSignal
<1>. QED BY <1>6, <1>7, <1>9, <1>10, <1>11, <1>12 DEF Next, Common, ThreadStep, Handler

\* b_wait and b_signal: at most one thread holds a mutex, and its value tells
\* whether one does, although a thread blocks outside the critical section of
\* its test, a woken thread tests again, and others may get in before it.
THEOREM MutexCorrect == Spec => []MutualExclusion
<1>1. Init => MutexInv
    BY SemAssumption DEF Init, MutexInv, MutualExclusion
<1>2. MutexInv => MutualExclusion
    BY DEF MutexInv
<1>. QED BY <1>1, <1>2, MutexStep, PTL DEF Spec

-----------------------------------------------------------------------------
(* With the tick race: some ready threads may have dropped out of the rings  *)
(* and several may read RUNNING, so that KernelInv fails. What is left of it *)
(* is enough for the blocked lists.                                          *)

TickInv ==
    /\ TypeOK
    /\ BlockedOK(sch) /\ WaitsOn(sch, on)
    /\ \E L \in SUBSET Thread : LiveRings(sch, L) /\ RunsIn(sch, L)
    /\ \A t \in Thread : pc[t] = "window" => on[t] \in Sem

\* Before the first add_thread the set is empty.
LEMMA InitTick == Init => TickInv
<1>. SUFFICES ASSUME Init PROVE TickInv
    OBVIOUS
<1>1. Inductive
    BY InitInductive
<1>2. Blocked(sch) = {} /\ Linked(sch) = {}
    BY DEF Init, SchedInit, Blocked, Linked, InRing
<1>3. WaitsOn(sch, on)
    BY <1>2 DEF Init, SchedInit, WaitsOn, Waiting
<1>4. RingsOn(sch, {})
    BY <1>1, <1>2, RingsFrom DEF Inductive, KernelInv, ListsOK
<1>5. LiveRings(sch, {})
    <2>1. \A p \in Level : sch.ActivePriorityCount[p] = 0
        BY DEF Init, SchedInit
    <2>2. \A p \in Level : Backing(sch, {}, p) = {}
        BY DEF Backing, OfLevel
    <2>3. CountsBacked(sch, {})
        BY <2>1, <2>2, FS_EmptySet DEF CountsBacked
    <2>. QED BY <1>4, <2>3 DEF LiveRings
<1>6. RunsIn(sch, {})
    BY ThreadsAssumption DEF Init, SchedInit, RunsIn
<1>. QED BY <1>1, <1>3, <1>5, <1>6 DEF Inductive, KernelInv, ListsOK, BlockedOK, TickInv

\* A step that touches neither the lists nor what a blocked thread waits for.
LEMMA SchedulerKept ==
    ASSUME TickInv, sch' = sch, TypeOK',
           \A u \in Blocked(sch) : on'[u] = on[u],
           \A u \in Thread : pc'[u] = "window" => on'[u] \in Sem
    PROVE  TickInv'
<1>1. WaitsOn(sch, on')
    <2>1. /\ \A u \in Blocked(sch) : sch.next_tcb[u] \in Blocked(sch) \cup {NULL}
          /\ \A i \in Sem : sch.bthreads_root[i] \in Blocked(sch) \cup {NULL}
        BY DEF TickInv, BlockedOK, BlockedLinks
    <2>. QED BY <2>1 DEF TickInv, WaitsOn, Waiting
<1>. QED BY <1>1 DEF TickInv

\* add_thread adds its thread to the set that is linked.
LEMMA TickAddThread ==
    ASSUME TickInv, NEW t \in Thread, AddThread(t)
    PROVE  TickInv'
<1>1. PICK L \in SUBSET Thread : LiveRings(sch, L) /\ RunsIn(sch, L)
    BY DEF TickInv
<1>2. /\ sch \in SchedType /\ BlockedOK(sch) /\ WaitsOn(sch, on)
      /\ sch.RunPt = NULL /\ NULL \notin Thread
      /\ sch.state[t] = "NONE" /\ t \notin Linked(sch)
      /\ L \subseteq Linked(sch)
      /\ sch.state \in [Thread -> ThreadState]
      /\ sch' = EnqueueThread(sch, t) /\ on' = on /\ pc' = pc
    BY <1>1, ThreadsAssumption
    DEF TickInv, TypeOK, AddThread, Booting, LiveRings, Linked, InRing, SchedType
<1>3. /\ sch' \in SchedType /\ LiveRings(sch', L \cup {t})
      /\ sch'.state = [sch.state EXCEPT ![t] = "ACTIVE"]
      /\ \A u \in Thread \ (L \cup {t}) : sch'.next_tcb[u] = sch.next_tcb[u]
      /\ sch'.bthreads_root = sch.bthreads_root
      /\ sch'.RunPt = sch.RunPt /\ sch'.NextRunPt = sch.NextRunPt
      /\ sch'.pendsv = sch.pendsv
    BY <1>1, <1>2, EnqueueLive
<1>4. Blocked(sch') = Blocked(sch)
    BY <1>2, <1>3 DEF Blocked
<1>5. \A u \in Blocked(sch) : sch'.next_tcb[u] = sch.next_tcb[u]
    BY <1>2, <1>3 DEF Blocked, Linked, InRing
<1>6. BlockedOK(sch') /\ WaitsOn(sch', on)
    BY <1>2, <1>3, <1>4, <1>5, WaitsFrame
<1>7. RunsIn(sch', L \cup {t})
    BY <1>1, <1>2, <1>3 DEF RunsIn
<1>8. L \cup {t} \in SUBSET Thread
    OBVIOUS
<1>9. TypeOK'
    BY <1>3 DEF TickInv, TypeOK, AddThread
<1>. QED BY <1>2, <1>3, <1>6, <1>7, <1>8, <1>9 DEF TickInv

\* init_scheduler, a tick wherever it falls, and the switch.
LEMMA TickExceptions ==
    ASSUME TickInv, InitScheduler \/ SysTick \/ ContextSwitch
    PROVE  TickInv'
<1>1. PICK L \in SUBSET Thread : LiveRings(sch, L) /\ RunsIn(sch, L)
    BY DEF TickInv
<1>2. sch \in SchedType /\ BlockedOK(sch) /\ WaitsOn(sch, on) /\ on' = on /\ pc' = pc
    BY DEF TickInv, TypeOK, InitScheduler, SysTick, ContextSwitch
<1>3. sch' \in SchedType /\ LiveRings(sch', L) /\ RunsIn(sch', L) /\ ListsKept(sch, sch')
    <2>1. CASE InitScheduler
        BY <1>1, <1>2, <2>1, LaunchLive DEF InitScheduler
    <2>2. CASE SysTick
        <3>1. RunningIn(sch, L)
            BY <1>1 DEF RunsIn, RunningIn
        <3>. QED BY <1>1, <1>2, <2>2, <3>1, ScheduleLive DEF SysTick
    <2>3. CASE ContextSwitch
        <3>1. sch.pendsv /\ sch' = [sch EXCEPT !.RunPt = sch.NextRunPt, !.pendsv = FALSE]
            BY <2>3 DEF ContextSwitch, PendSV
        <3>2. /\ sch' \in SchedType
              /\ sch'.RunPt = sch.NextRunPt /\ sch'.pendsv = FALSE
              /\ sch'.state = sch.state /\ sch'.ThreadSchedule = sch.ThreadSchedule
              /\ sch'.next_tcb = sch.next_tcb /\ sch'.prev_tcb = sch.prev_tcb
              /\ sch'.ActivePriorityCount = sch.ActivePriorityCount
              /\ sch'.bthreads_root = sch.bthreads_root
            BY <1>2, <3>1 DEF SchedType
        <3>3. LiveRings(sch', L)
            BY <1>1, <3>2, LiveFrame
        <3>4. RunsIn(sch', L)
            BY <1>1, <3>1, <3>2 DEF RunsIn
        <3>. QED BY <3>2, <3>3, <3>4 DEF ListsKept
    <2>. QED BY <2>1, <2>2, <2>3
<1>4. BlockedOK(sch') /\ WaitsOn(sch', on)
    BY <1>2, <1>3, KeptWaits
<1>5. TypeOK'
    BY <1>3 DEF TickInv, TypeOK, InitScheduler, SysTick, ContextSwitch
<1>. QED BY <1>2, <1>3, <1>4, <1>5 DEF TickInv

\* A wait that blocks, with part of the ready threads linked.
LEMMA TickBlock ==
    ASSUME TickInv, NEW t \in Thread, Block(t)
    PROVE  TickInv'
<1>1. PICK L \in SUBSET Thread : LiveRings(sch, L) /\ RunsIn(sch, L)
    BY DEF TickInv
<1>2. /\ sch \in SchedType /\ BlockedOK(sch) /\ WaitsOn(sch, on)
      /\ ~sch.pendsv /\ sch.RunPt \in Thread
      /\ on[t] \in Sem /\ on[sch.RunPt] = on[t]
      /\ sch' = SchedBlock(sch, on[t])
    BY DEF TickInv, TypeOK, Block, Executing
<1>3. /\ sch' \in SchedType /\ BlockedOK(sch') /\ WaitsOn(sch', on)
      /\ \E M \in SUBSET Thread : LiveRings(sch', M) /\ RunsIn(sch', M)
    BY <1>1, <1>2, SchedBlockLive
<1>4. TypeOK'
    BY <1>3 DEF TickInv, TypeOK, Block
<1>5. \A u \in Thread : pc'[u] = "window" => on'[u] \in Sem
    BY DEF TickInv, TypeOK, Block
<1>6. on' = on
    BY DEF Block
<1>. QED BY <1>3, <1>4, <1>5, <1>6 DEF TickInv

\* A signal, with part of the ready threads linked.
LEMMA TickWakeFirst ==
    ASSUME TickInv, NEW sem \in Sem, WakeFirst(sem),
           UNCHANGED <<pc, on, ticked>>,
           value' \in [Sem -> Nat], holders' \in [Mutex -> SUBSET Thread]
    PROVE  TickInv'
<1>1. PICK L \in SUBSET Thread : LiveRings(sch, L) /\ RunsIn(sch, L)
    BY DEF TickInv
<1>2. CASE sch.bthreads_root[sem] = NULL
    <2>1. sch' = sch
        BY <1>2 DEF WakeFirst
    <2>2. TypeOK'
        BY <2>1 DEF TickInv, TypeOK
    <2>. QED BY <2>1, <2>2, SchedulerKept DEF TickInv
<1>3. CASE sch.bthreads_root[sem] # NULL
    <2>1. sch' = SchedUnblock(sch, sem)
        BY <1>3 DEF WakeFirst
    <2>2. sch \in SchedType /\ BlockedOK(sch) /\ WaitsOn(sch, on)
        BY DEF TickInv, TypeOK
    <2>3. /\ sch' \in SchedType /\ BlockedOK(sch') /\ WaitsOn(sch', on)
          /\ \E M \in SUBSET Thread : LiveRings(sch', M) /\ RunsIn(sch', M)
        BY <1>1, <1>3, <2>1, <2>2, SchedUnblockLive
    <2>4. TypeOK'
        BY <2>3 DEF TickInv, TypeOK
    <2>. QED BY <2>3, <2>4 DEF TickInv
<1>. QED BY <1>2, <1>3

\* A wait up to its end or its failed test: only the caller, which is not
\* blocked, changes what it waits for.
LEMMA TickWait ==
    ASSUME TickInv, NEW t \in Thread, NEW sem \in Sem,
           CWait(t, sem) \/ BWait(t, sem)
    PROVE  TickInv'
<1>1. t \notin Blocked(sch)
    BY DEF TickInv, RunsIn, CWait, BWait, AtTest, Executing, Blocked
<1>2. CASE Unavailable(t, sem)
    <2>1. TypeOK' /\ sch' = sch
        BY <1>2 DEF TickInv, TypeOK, Unavailable
    <2>2. \A u \in Blocked(sch) : on'[u] = on[u]
        BY <1>1, <1>2 DEF TickInv, TypeOK, Unavailable, Blocked
    <2>3. \A u \in Thread : pc'[u] = "window" => on'[u] \in Sem
        BY <1>2 DEF TickInv, TypeOK, Unavailable
    <2>. QED BY <2>1, <2>2, <2>3, SchedulerKept
<1>3. CASE ~Unavailable(t, sem)
    <2>1. PICK v \in Nat : Acquire(t, sem, v)
        BY <1>3 DEF TickInv, TypeOK, CWait, BWait
    <2>2. holders' \in [Mutex -> SUBSET Thread]
        BY <2>1 DEF TickInv, TypeOK, Acquire
    <2>3. TypeOK' /\ sch' = sch
        BY <2>1, <2>2 DEF TickInv, TypeOK, Acquire
    <2>4. \A u \in Blocked(sch) : on'[u] = on[u]
        BY <1>1, <2>1 DEF TickInv, TypeOK, Acquire, Blocked
    <2>5. \A u \in Thread : pc'[u] = "window" => on'[u] \in Sem
        BY <2>1 DEF TickInv, TypeOK, Acquire
    <2>. QED BY <2>3, <2>4, <2>5, SchedulerKept
<1>. QED BY <1>2, <1>3

\* Every step of the kernel as it is, a tick at any moment included.
LEMMA NextTick == TickInv /\ [Next]_vars => TickInv'
<1>. SUFFICES ASSUME TickInv, [Next]_vars PROVE TickInv'
    OBVIOUS
<1>1. CASE \E t \in Thread : AddThread(t)
    BY <1>1, TickAddThread
<1>2. CASE \E t \in Thread, sem \in Sem : CWait(t, sem) \/ BWait(t, sem)
    BY <1>2, TickWait
<1>3. CASE \/ \E t \in Thread, sem \in CSem : ThreadCSignal(t, sem)
           \/ \E t \in Thread, sem \in Mutex : ThreadBSignal(t, sem)
           \/ Handler
    BY <1>3, SignalEffect, TickWakeFirst DEF TickInv
<1>4. CASE \E t \in Thread : Block(t)
    BY <1>4, TickBlock
<1>5. CASE InitScheduler \/ SysTick \/ ContextSwitch
    BY <1>5, TickExceptions
<1>6. CASE UNCHANGED vars
    <2>1. TypeOK' /\ sch' = sch /\ on' = on /\ pc' = pc
        BY <1>6 DEF TickInv, TypeOK, vars
    <2>. QED BY <2>1, SchedulerKept DEF TickInv
<1>7. CSem \subseteq Sem /\ BSem \subseteq Sem
    BY SemAssumption DEF BSem
<1>. QED BY <1>1, <1>2, <1>3, <1>4, <1>5, <1>6, <1>7 DEF Next, Common, ThreadStep

\* What is left of the lists, counts and states when a tick may be served in
\* front of a switch that schedule() has just requested.
THEOREM TickInvariant == Spec => []TickInv
<1>. QED BY InitTick, NextTick, PTL DEF Spec

\* The types hold there too: no count wraps below zero, although threads that
\* are linked go uncounted, and nothing is loaded through a NULL root.
THEOREM TypesWithTicks == Spec => []TypeOK
<1>1. TickInv => TypeOK
    BY DEF TickInv
<1>. QED BY <1>1, TickInvariant, PTL

\* sched_block and sched_unblock keep each semaphore's list exact, sorted and
\* ended wherever a tick falls: the tick loses ready threads, never blocked ones.
THEOREM BlockedListsCorrect == Spec => []BlockedListsExact
<1>1. ASSUME TickInv, NEW sem \in Sem
      PROVE  LET list == Chain(sch.next_tcb, sch.bthreads_root[sem])
             IN  /\ list = {t \in Thread : sch.state[t] = "BLOCKED" /\ on[t] = sem}
                 /\ \A t \in list : sch.next_tcb[t] # NULL =>
                       Priority[t] <= Priority[sch.next_tcb[t]]
                 /\ list # {} => \E t \in list : sch.next_tcb[t] = NULL
    <2>. DEFINE list == Chain(sch.next_tcb, sch.bthreads_root[sem])
    <2>1. /\ list = {t \in Blocked(sch) : on[t] = sem}
          /\ \A t \in list : sch.next_tcb[t] # NULL =>
                Priority[t] <= Priority[sch.next_tcb[t]]
          /\ list # {} => \E t \in list : sch.next_tcb[t] = NULL
        BY <1>1, BlockedChain DEF TickInv, TypeOK
    <2>2. {t \in Blocked(sch) : on[t] = sem}
             = {t \in Thread : sch.state[t] = "BLOCKED" /\ on[t] = sem}
        BY DEF Blocked
    <2>. HIDE DEF list
    <2>3. /\ list = {t \in Thread : sch.state[t] = "BLOCKED" /\ on[t] = sem}
          /\ \A t \in list : sch.next_tcb[t] # NULL =>
                Priority[t] <= Priority[sch.next_tcb[t]]
          /\ list # {} => \E t \in list : sch.next_tcb[t] = NULL
        BY <2>1, <2>2
    <2>. QED BY <2>3 DEF list
<1>2. TickInv => BlockedListsExact
    BY <1>1 DEF BlockedListsExact
<1>. QED BY <1>2, TickInvariant, PTL

\* schedule() and init_scheduler never load a NULL root (schedule.c): a level
\* whose count is positive has a ring, although after a tick race the thread
\* they load from it need not be one that was counted.
THEOREM CountsHaveRoots == Spec => []CountHasRoot
<1>1. TickInv => CountHasRoot
    <2>. SUFFICES ASSUME TickInv, NEW p \in Level, sch.ActivePriorityCount[p] > 0
                  PROVE  sch.ThreadSchedule[p] # NULL
        BY DEF CountHasRoot
    <2>1. PICK L \in SUBSET Thread : LiveRings(sch, L)
        BY DEF TickInv
    <2>2. /\ sch.ActivePriorityCount[p] <= Cardinality(Backing(sch, L, p))
          /\ sch.ActivePriorityCount[p] \in Nat
        BY <2>1 DEF LiveRings, CountsBacked, TickInv, TypeOK, SchedType
    <2>3. Backing(sch, L, p) # {}
        BY <2>2, FS_EmptySet
    <2>4. sch.ThreadSchedule[p] \in OfLevel(L, p)
        BY <2>1, <2>3 DEF LiveRings, RingsOn, Backing
    <2>. QED BY <2>4, ThreadsAssumption DEF OfLevel
<1>. QED BY <1>1, TickInvariant, PTL

-----------------------------------------------------------------------------
(* Sequences that a walk along next_tcb reads, and how they change.           *)

\* w is what a walk along next meets from its first thread until it comes to end.
Path(next, w, end) ==
    /\ w \in Seq(Thread)
    /\ \A i, j \in 1 .. Len(w) : w[i] = w[j] => i = j
    /\ \A i \in 1 .. Len(w) : next[w[i]] = IF i < Len(w) THEN w[i + 1] ELSE end

\* The pointer that such a walk starts from.
RootOf(w) == IF w = <<>> THEN NULL ELSE w[1]

\* The threads such a walk meets, along a ring or along a list.
LEMMA PathChain ==
    ASSUME NEW next, NEW w, NEW end \in {RootOf(w), NULL}, Path(next, w, end)
    PROVE  Chain(next, RootOf(w)) = {w[i] : i \in 1 .. Len(w)}
<1> DEFINE n == Len(w)
           root == RootOf(w)
           R == {w[i] : i \in 1 .. n}
           C == Chain(next, root)
<1>1. /\ w \in Seq(Thread) /\ n \in Nat
      /\ \A i, j \in 1 .. n : w[i] = w[j] => i = j
      /\ \A i \in 1 .. n : w[i] \in Thread
      /\ \A i \in 1 .. n : next[w[i]] = IF i < n THEN w[i + 1] ELSE end
    BY DEF Path
<1>2. NULL \notin Thread
    BY ThreadsAssumption
<1>3. C = R
    <2>1. CASE w = <<>>
        BY <2>1 DEF Chain, RootOf
    <2>2. CASE w # <<>>
        <3>1. n >= 1 /\ root = w[1] /\ root \in Thread /\ root # NULL
            BY <1>1, <1>2, <2>2 DEF RootOf
        <3>2. R \in SUBSET Thread /\ root \in R /\ \A u \in R : next[u] \in R \cup {NULL}
            <4>1. ASSUME NEW i \in 1 .. n PROVE next[w[i]] \in R \cup {NULL}
                <5>1. CASE i < n
                    <6>1. i + 1 \in 1 .. n
                        BY <5>1, <1>1
                    <6>. QED BY <6>1, <5>1, <1>1
                <5>2. CASE ~(i < n)
                    <6>1. end \in {root, NULL} /\ 1 \in 1 .. n
                        BY <3>1, <1>1
                    <6>. QED BY <6>1, <5>2, <3>1, <1>1
                <5>. QED BY <5>1, <5>2
            <4>2. 1 \in 1 .. n
                BY <3>1, <1>1
            <4>. QED BY <4>1, <4>2, <3>1, <1>1
        <3>3. ASSUME NEW S \in SUBSET Thread, root \in S, \A u \in S : next[u] \in S \cup {NULL},
                     NEW i \in 1 .. n, w[i] \notin S
              PROVE  FALSE
            <4> DEFINE B == {k \in 1 .. n : w[k] \notin S}
            <4>1. B \in SUBSET Nat /\ B # {}
                BY <3>3, <1>1
            <4>2. PICK m \in B : \A k \in B : m <= k
                BY <4>1, LeastNatural
            <4>3. m \in 1 .. n /\ w[m] \notin S /\ m # 1
                BY <4>2, <3>1, <3>3
            <4>4. m - 1 \in 1 .. n /\ w[m - 1] \in S
                BY <4>2, <4>3, <1>1
            <4>5. next[w[m - 1]] = w[m] /\ w[m] \in Thread
                BY <4>3, <4>4, <1>1
            <4>. QED BY <4>3, <4>4, <4>5, <3>3, <1>2
        <3>4. C \subseteq R
            BY <3>1, <3>2 DEF Chain
        <3>5. R \subseteq C
            <4>. SUFFICES ASSUME NEW i \in 1 .. n PROVE w[i] \in C
                OBVIOUS
            <4>1. w[i] \in Thread
                BY <1>1
            <4>2. \A S \in SUBSET Thread :
                     (root \in S /\ \A u \in S : next[u] \in S \cup {NULL}) => w[i] \in S
                BY <3>3
            <4>. QED BY <4>1, <4>2, <3>1 DEF Chain
        <3>. QED BY <3>4, <3>5
    <2>. QED BY <2>1, <2>2
<1>. QED BY <1>3

\* A ring is read once round, a list to its end.
LEMMA WalkIs ==
    ASSUME NEW next, NEW w, NEW end \in {RootOf(w), NULL}, Path(next, w, end)
    PROVE  Walk(next, RootOf(w)) = w
<1> DEFINE n == Len(w)
           root == RootOf(w)
           R == {w[i] : i \in 1 .. n}
           C == Chain(next, root)
<1>1. /\ w \in Seq(Thread) /\ n \in Nat
      /\ \A i, j \in 1 .. n : w[i] = w[j] => i = j
      /\ \A i \in 1 .. n : w[i] \in Thread
      /\ \A i \in 1 .. n : next[w[i]] = IF i < n THEN w[i + 1] ELSE end
    BY DEF Path
<1>2. NULL \notin Thread
    BY ThreadsAssumption
<1>3. C = R
    BY PathChain
<1>4. Cardinality(C) = n
    <2>1. w \in Bijection(1 .. n, R)
        <3>1. w \in [1 .. n -> R]
            BY <1>1
        <3>. QED BY <3>1, <1>1 DEF Bijection, Injection, IsInjective, Surjection
    <2>2. ExistsBijection(1 .. n, R)
        BY <2>1 DEF ExistsBijection
    <2>. HIDE DEF R, C
    <2>. QED BY <2>2, <1>1, <1>3, FS_CountingElements
<1> DEFINE Rest(g) == [i \in 1 .. n |-> IF i = 1 THEN root ELSE next[g[i - 1]]]
           g == CHOOSE f : f = Rest(f)
<1>5. Walk(next, root) = g
    <2>. HIDE DEF C
    <2>. QED BY <1>4 DEF Walk, C
<1>6. w = Rest(w)
    <2>1. \A i \in 1 .. n : w[i] = IF i = 1 THEN root ELSE next[w[i - 1]]
        <3>. SUFFICES ASSUME NEW i \in 1 .. n
                      PROVE  w[i] = IF i = 1 THEN root ELSE next[w[i - 1]]
            OBVIOUS
        <3>1. CASE i = 1
            BY <3>1, <1>1 DEF RootOf
        <3>2. CASE i # 1
            <4>1. i - 1 \in 1 .. n /\ i - 1 < n /\ (i - 1) + 1 = i
                BY <3>2, <1>1
            <4>. QED BY <4>1, <3>2, <1>1
        <3>. QED BY <3>1, <3>2
    <2>2. w = [i \in 1 .. n |-> w[i]]
        BY <1>1
    <2>. HIDE DEF root
    <2>. QED BY <2>1, <2>2
<1>7. g = Rest(g)
    <2>. HIDE DEF Rest
    <2>. QED BY <1>6
<1>. HIDE DEF g
<1>8. \A i \in 1 .. n : g[i] = w[i]
    <2>. SUFFICES ASSUME NEW j \in 1 .. n, g[j] # w[j] PROVE FALSE
        OBVIOUS
    <2> DEFINE B == {k \in 1 .. n : g[k] # w[k]}
    <2>1. B \in SUBSET Nat /\ B # {}
        BY <1>1
    <2>2. PICK m \in B : \A k \in B : m <= k
        BY <2>1, LeastNatural
    <2>3. m \in 1 .. n /\ g[m] # w[m]
        BY <2>2
    <2>4. g[m] = IF m = 1 THEN root ELSE next[g[m - 1]]
        BY <1>7, <2>3
    <2>5. w[m] = IF m = 1 THEN root ELSE next[w[m - 1]]
        BY <1>6, <2>3
    <2>6. m # 1
        BY <2>3, <2>4, <2>5
    <2>7. m - 1 \in 1 .. n
        BY <2>3, <2>6, <1>1
    <2>8. m - 1 \notin B
        BY <2>2, <2>3
    <2>. QED BY <2>3, <2>4, <2>5, <2>6, <2>7, <2>8
<1>9. g = w
    <2>1. DOMAIN g = 1 .. n /\ g = [i \in 1 .. n |-> g[i]]
        BY <1>7
    <2>2. w = [i \in 1 .. n |-> w[i]]
        BY <1>1
    <2>. QED BY <2>1, <2>2, <1>8
<1>. QED BY <1>5, <1>9

\* A walk looks at the links of the threads it meets.
LEMMA PathFrame ==
    ASSUME NEW next, NEW w, NEW end, Path(next, w, end),
           NEW nx, \A i \in 1 .. Len(w) : nx[w[i]] = next[w[i]]
    PROVE  Path(nx, w, end)
    BY DEF Path

\* Where the places of a sequence come from, for the ways in which lists change.
LEMMA Prepended ==
    ASSUME NEW w \in Seq(Thread), NEW t \in Thread
    PROVE  LET x == <<t>> \o w
           IN  /\ x \in Seq(Thread) /\ Len(x) = Len(w) + 1 /\ x # <<>> /\ RootOf(x) = t
               /\ x[1] = t /\ \A i \in 1 .. Len(w) : x[i + 1] = w[i]
<1> DEFINE x == <<t>> \o w
<1>1. /\ x \in Seq(Thread) /\ Len(x) = Len(w) + 1 /\ x[1] = t
      /\ \A i \in 1 .. Len(w) : x[i + 1] = w[i]
    OBVIOUS
<1>. HIDE DEF x
<1>2. x # <<>>
    BY <1>1
<1>. QED BY <1>1, <1>2 DEF RootOf, x

\* The same without its last place (a thread leaves the end of its ring).
LEMMA WithoutLast ==
    ASSUME NEW w \in Seq(Thread), w # <<>>
    PROVE  LET x == Front(w)
           IN  /\ x \in Seq(Thread) /\ Len(x) = Len(w) - 1
               /\ RootOf(x) = IF Len(w) = 1 THEN NULL ELSE w[1]
               /\ \A i \in 1 .. Len(w) - 1 : x[i] = w[i]
               /\ Append(x, w[Len(w)]) = w
<1> DEFINE x == Front(w)
           y == Append(x, w[Len(w)])
<1>0. Len(w) \in Nat \ {0} /\ w[Len(w)] \in Thread
    OBVIOUS
<1>1. /\ x \in Seq(Thread) /\ Len(x) = Len(w) - 1
      /\ \A i \in 1 .. Len(w) - 1 : x[i] = w[i]
    <2>1. PICK k : k = Len(w) - 1
        OBVIOUS
    <2>2. k \in Nat /\ k <= Len(w)
        BY <1>0, <2>1
    <2>3. /\ SubSeq(w, 1, k) \in Seq(Thread) /\ Len(SubSeq(w, 1, k)) = k
          /\ \A i \in 1 .. k : SubSeq(w, 1, k)[i] = w[i]
        BY <2>2
    <2>. QED BY <2>1, <2>2, <2>3 DEF Front
<1>. HIDE DEF x
<1>2. /\ y \in Seq(Thread) /\ Len(y) = Len(w) /\ y[Len(w)] = w[Len(w)]
      /\ \A i \in 1 .. Len(w) - 1 : y[i] = x[i]
    BY <1>0, <1>1
<1>. HIDE DEF y
<1>3. y = w
    BY <1>0, <1>1, <1>2
<1>4. RootOf(x) = IF Len(w) = 1 THEN NULL ELSE w[1]
    BY <1>0, <1>1 DEF RootOf
<1>. QED BY <1>1, <1>3, <1>4 DEF x, y

\* The same without its first place (a waiter is served).
LEMMA WithoutFirst ==
    ASSUME NEW w \in Seq(Thread), w # <<>>
    PROVE  LET x == Tail(w)
           IN  /\ x \in Seq(Thread) /\ Len(x) = Len(w) - 1
               /\ RootOf(x) = IF Len(w) = 1 THEN NULL ELSE w[2]
               /\ \A i \in 1 .. Len(w) - 1 : x[i] = w[i + 1]
               /\ Head(w) = w[1] /\ w[1] \in Thread
<1> DEFINE x == Tail(w)
<1>1. /\ x \in Seq(Thread) /\ Len(x) = Len(w) - 1 /\ Len(w) \in Nat \ {0}
      /\ \A i \in 1 .. Len(w) - 1 : x[i] = w[i + 1]
      /\ Head(w) = w[1] /\ w[1] \in Thread
    OBVIOUS
<1>. HIDE DEF x
<1>2. RootOf(x) = IF Len(w) = 1 THEN NULL ELSE w[2]
    BY <1>1 DEF RootOf
<1>. QED BY <1>1, <1>2 DEF x

\* The first place goes to the end (the root of a ring moves on by one).
LEMMA Turned ==
    ASSUME NEW w \in Seq(Thread), w # <<>>
    PROVE  LET x == Append(Tail(w), w[1])
           IN  /\ x \in Seq(Thread) /\ Len(x) = Len(w) /\ x # <<>>
               /\ x[Len(w)] = w[1] /\ \A i \in 1 .. Len(w) - 1 : x[i] = w[i + 1]
               /\ Front(x) = Tail(w)
<1> DEFINE y == Tail(w)
           x == Append(y, w[1])
           z == Front(x)
<1>1. /\ y \in Seq(Thread) /\ Len(y) = Len(w) - 1 /\ Len(w) \in Nat \ {0}
      /\ \A i \in 1 .. Len(w) - 1 : y[i] = w[i + 1]
      /\ w[1] \in Thread
    OBVIOUS
<1>. HIDE DEF y
<1>2. /\ x \in Seq(Thread) /\ Len(x) = Len(w) /\ x[Len(w)] = w[1]
      /\ \A i \in 1 .. Len(w) - 1 : x[i] = y[i]
    BY <1>1
<1>. HIDE DEF x
<1>3. x # <<>>
    BY <1>1, <1>2
<1>4. /\ z \in Seq(Thread) /\ Len(z) = Len(w) - 1
      /\ \A i \in 1 .. Len(w) - 1 : z[i] = x[i]
    BY <1>1, <1>2 DEF Front
<1>. HIDE DEF z
<1>5. z = y
    BY <1>1, <1>2, <1>4
<1>. QED BY <1>1, <1>2, <1>3, <1>5 DEF x, y, z

\* x is w with t behind its first k threads.
Widened(x, w, k, t) ==
    /\ x \in Seq(Thread) /\ Len(x) = Len(w) + 1
    /\ RootOf(x) = IF k = 0 THEN t ELSE w[1]
    /\ x[k + 1] = t
    /\ \A i \in 1 .. k : x[i] = w[i]
    /\ \A i \in k + 1 .. Len(w) : x[i + 1] = w[i]

\* InsertAt puts t behind the first k.
LEMMA PutIn ==
    ASSUME NEW w \in Seq(Thread), NEW t \in Thread, NEW k \in 0 .. Len(w)
    PROVE  Widened(InsertAt(w, k + 1, t), w, k, t)
<1> DEFINE a == SubSeq(w, 1, k)
           b == SubSeq(w, k + 1, Len(w))
           c == a \o <<t>>
           x == c \o b
<1>0. Len(w) \in Nat /\ k \in Nat /\ k <= Len(w)
    OBVIOUS
<1>1. a \in Seq(Thread) /\ Len(a) = k /\ \A i \in 1 .. k : a[i] = w[i]
    BY <1>0
<1>2. /\ b \in Seq(Thread) /\ Len(b) = Len(w) - k
      /\ \A i \in 1 .. Len(w) - k : b[i] = w[k + i]
    BY <1>0
<1>. HIDE DEF a, b
<1>3. /\ c \in Seq(Thread) /\ Len(c) = k + 1 /\ c[k + 1] = t
      /\ \A i \in 1 .. k : c[i] = w[i]
    BY <1>0, <1>1
<1>. HIDE DEF c
<1>4. /\ x \in Seq(Thread) /\ Len(x) = Len(w) + 1
      /\ \A i \in 1 .. k + 1 : x[i] = c[i]
      /\ \A i \in 1 .. Len(w) - k : x[k + 1 + i] = b[i]
    BY <1>0, <1>2, <1>3
<1>5. x = InsertAt(w, k + 1, t)
    <2>1. (k + 1) - 1 = k
        BY <1>0
    <2>. QED BY <2>1 DEF InsertAt, a, b, c
<1>. HIDE DEF x
<1>6. /\ x[k + 1] = t
      /\ \A i \in 1 .. k : x[i] = w[i]
    BY <1>0, <1>3, <1>4
<1>7. ASSUME NEW i \in k + 1 .. Len(w) PROVE x[i + 1] = w[i]
    <2>1. PICK j \in 1 .. Len(w) - k : i = k + j
        <3>1. i - k \in 1 .. Len(w) - k /\ i = k + (i - k)
            BY <1>0
        <3>. QED BY <3>1
    <2>2. k + 1 + j = i + 1
        BY <2>1, <1>0
    <2>3. x[k + 1 + j] = b[j] /\ b[j] = w[k + j]
        BY <1>2, <1>4
    <2>. QED BY <2>1, <2>2, <2>3
<1>8. RootOf(x) = IF k = 0 THEN t ELSE w[1]
    <2>1. x # <<>>
        BY <1>0, <1>4
    <2>2. CASE k = 0
        BY <2>1, <2>2, <1>6 DEF RootOf
    <2>3. CASE k # 0
        <3>1. 1 \in 1 .. k
            BY <2>3, <1>0
        <3>. QED BY <2>1, <2>3, <3>1, <1>6 DEF RootOf
    <2>. QED BY <2>2, <2>3
<1>. QED BY <1>4, <1>5, <1>6, <1>7, <1>8 DEF Widened

\* A thread goes in at the root of a ring.
LEMMA PathPrepend ==
    ASSUME NEW next, NEW w, Path(next, w, RootOf(w)), NEW t \in Thread,
           \A i \in 1 .. Len(w) : w[i] # t,
           NEW nx, nx[t] = IF w = <<>> THEN t ELSE w[1],
           \A i \in 1 .. Len(w) : nx[w[i]] = IF i < Len(w) THEN next[w[i]] ELSE t
    PROVE  Path(nx, <<t>> \o w, t)
<1> DEFINE x == <<t>> \o w
           n == Len(w)
<1>1. /\ w \in Seq(Thread) /\ n \in Nat /\ (w = <<>> <=> n = 0)
      /\ \A i, j \in 1 .. n : w[i] = w[j] => i = j
      /\ \A i \in 1 .. n : i < n => next[w[i]] = w[i + 1]
    BY DEF Path
<1>2. /\ x \in Seq(Thread) /\ Len(x) = n + 1 /\ x[1] = t
      /\ \A i \in 1 .. n : x[i + 1] = w[i]
    BY <1>1, Prepended
<1>. HIDE DEF x
<1>3. \A i \in 1 .. n + 1 : i # 1 => i - 1 \in 1 .. n /\ x[i] = w[i - 1]
    <2>. SUFFICES ASSUME NEW i \in 1 .. n + 1, i # 1 PROVE i - 1 \in 1 .. n /\ x[i] = w[i - 1]
        OBVIOUS
    <2>1. PICK j \in 1 .. n : i = j + 1
        <3>1. i - 1 \in 1 .. n /\ i = (i - 1) + 1
            BY <1>1
        <3>. QED BY <3>1
    <2>2. i - 1 = j
        BY <2>1
    <2>. QED BY <2>1, <2>2, <1>2
<1>4. \A i, j \in 1 .. n + 1 : x[i] = x[j] => i = j
    <2>. SUFFICES ASSUME NEW i \in 1 .. n + 1, NEW j \in 1 .. n + 1, x[i] = x[j] PROVE i = j
        OBVIOUS
    <2>1. CASE i = 1 \/ j = 1
        BY <2>1, <1>2, <1>3
    <2>2. CASE i # 1 /\ j # 1
        <3>1. w[i - 1] = w[j - 1] /\ i - 1 \in 1 .. n /\ j - 1 \in 1 .. n
            BY <2>2, <1>3
        <3>2. i - 1 = j - 1
            BY <3>1, <1>1
        <3>. QED BY <3>2, <1>1
    <2>. QED BY <2>1, <2>2
<1>5. ASSUME NEW i \in 1 .. n + 1 PROVE nx[x[i]] = IF i < n + 1 THEN x[i + 1] ELSE t
    <2>1. CASE i = 1 /\ n = 0
        BY <2>1, <1>1, <1>2
    <2>2. CASE i = 1 /\ n # 0
        <3>1. 1 \in 1 .. n /\ x[1 + 1] = w[1] /\ 1 < n + 1
            BY <2>2, <1>1, <1>2
        <3>. QED BY <3>1, <2>2, <1>1, <1>2
    <2>3. CASE i # 1
        <3>1. PICK j \in 1 .. n : j = i - 1 /\ i = j + 1 /\ x[i] = w[j]
            BY <2>3, <1>1, <1>3
        <3>2. CASE j < n
            <4>1. j + 1 \in 1 .. n
                BY <3>2, <1>1
            <4>2. x[(j + 1) + 1] = w[j + 1]
                BY <4>1, <1>2
            <4>3. nx[w[j]] = w[j + 1]
                BY <3>2, <1>1
            <4>. QED BY <4>2, <4>3, <3>1, <3>2, <1>1
        <3>3. CASE ~(j < n)
            BY <3>1, <3>3, <1>1
        <3>. QED BY <3>2, <3>3
    <2>. QED BY <2>1, <2>2, <2>3
<1>. QED BY <1>2, <1>4, <1>5 DEF Path, x

\* The last thread of a ring, which is not alone in it, goes out.
LEMMA PathShorten ==
    ASSUME NEW next, NEW w, Path(next, w, RootOf(w)), Len(w) > 1,
           NEW nx, nx[w[Len(w) - 1]] = w[1],
           \A i \in 1 .. Len(w) - 2 : nx[w[i]] = next[w[i]]
    PROVE  Path(nx, Front(w), w[1])
<1> DEFINE x == Front(w)
           n == Len(w)
<1>1. /\ w \in Seq(Thread) /\ n \in Nat /\ n > 1 /\ w # <<>>
      /\ \A i, j \in 1 .. n : w[i] = w[j] => i = j
      /\ \A i \in 1 .. n : i < n => next[w[i]] = w[i + 1]
    BY DEF Path
<1>2. /\ x \in Seq(Thread) /\ Len(x) = n - 1
      /\ \A i \in 1 .. n - 1 : x[i] = w[i]
    BY <1>1, WithoutLast
<1>. HIDE DEF x
<1>3. \A i, j \in 1 .. n - 1 : x[i] = x[j] => i = j
    BY <1>1, <1>2
<1>4. ASSUME NEW i \in 1 .. n - 1 PROVE nx[x[i]] = IF i < n - 1 THEN x[i + 1] ELSE w[1]
    <2>1. CASE i < n - 1
        <3>1. i \in 1 .. n - 2 /\ i + 1 \in 1 .. n - 1 /\ i < n /\ i \in 1 .. n
            BY <2>1, <1>1
        <3>. QED BY <3>1, <2>1, <1>1, <1>2
    <2>2. CASE ~(i < n - 1)
        <3>1. i = n - 1
            BY <2>2, <1>1
        <3>. QED BY <3>1, <1>2
    <2>. QED BY <2>1, <2>2
<1>. QED BY <1>2, <1>3, <1>4 DEF Path, x

\* The root of a ring moves on by one.
LEMMA PathTurn ==
    ASSUME NEW next, NEW w, Path(next, w, RootOf(w)), w # <<>>
    PROVE  LET x == Append(Tail(w), w[1])
           IN  Path(next, x, RootOf(x)) /\ RootOf(x) = next[w[1]]
<1> DEFINE x == Append(Tail(w), w[1])
           n == Len(w)
<1>1. /\ w \in Seq(Thread) /\ n \in Nat \ {0} /\ RootOf(w) = w[1]
      /\ \A i, j \in 1 .. n : w[i] = w[j] => i = j
      /\ \A i \in 1 .. n : next[w[i]] = IF i < n THEN w[i + 1] ELSE w[1]
    BY DEF Path, RootOf
<1>2. /\ x \in Seq(Thread) /\ Len(x) = n /\ x # <<>>
      /\ x[n] = w[1] /\ \A i \in 1 .. n - 1 : x[i] = w[i + 1]
    BY <1>1, Turned
<1>. HIDE DEF x
<1> DEFINE At1(i) == IF i = n THEN 1 ELSE i + 1
<1>3. \A i \in 1 .. n : At1(i) \in 1 .. n /\ x[i] = w[At1(i)]
    BY <1>1, <1>2
<1>4. \A i, j \in 1 .. n : At1(i) = At1(j) => i = j
    BY <1>1
<1>5. \A i, j \in 1 .. n : x[i] = x[j] => i = j
    <2>. SUFFICES ASSUME NEW i \in 1 .. n, NEW j \in 1 .. n, x[i] = x[j] PROVE i = j
        OBVIOUS
    <2>1. At1(i) = At1(j)
        <3>. HIDE DEF At1
        <3>1. At1(i) \in 1 .. n /\ At1(j) \in 1 .. n /\ w[At1(i)] = w[At1(j)]
            BY <1>3
        <3>2. \A a, b \in 1 .. n : w[a] = w[b] => a = b
            BY <1>1
        <3>. QED BY <3>1, <3>2
    <2>. QED BY <2>1, <1>4
<1>6. ASSUME NEW i \in 1 .. n PROVE next[x[i]] = IF i < n THEN x[i + 1] ELSE x[1]
    <2>1. CASE i = n
        <3>1. x[i] = w[1] /\ 1 \in 1 .. n
            BY <2>1, <1>1, <1>2
        <3>2. CASE n = 1
            BY <2>1, <3>1, <3>2, <1>1
        <3>3. CASE n # 1
            <4>1. 1 < n /\ 1 \in 1 .. n - 1 /\ x[1] = w[1 + 1] /\ next[w[1]] = w[1 + 1]
                BY <3>1, <3>3, <1>1, <1>2
            <4>. QED BY <4>1, <2>1, <3>1
        <3>. QED BY <3>2, <3>3
    <2>2. CASE i < n
        <3>1. i \in 1 .. n - 1 /\ i + 1 \in 1 .. n /\ x[i] = w[i + 1]
            BY <2>2, <1>1, <1>2
        <3>2. CASE i + 1 = n
            BY <3>1, <3>2, <2>2, <1>1, <1>2
        <3>3. CASE i + 1 # n
            <4>1. i + 1 \in 1 .. n - 1 /\ i + 1 < n
                BY <3>1, <3>3, <1>1
            <4>2. x[i + 1] = w[(i + 1) + 1] /\ next[w[i + 1]] = w[(i + 1) + 1]
                BY <4>1, <3>1, <1>1, <1>2
            <4>. QED BY <4>2, <3>1, <2>2
        <3>. QED BY <3>2, <3>3
    <2>. QED BY <2>1, <2>2, <1>1
<1>7. RootOf(x) = x[1]
    BY <1>2 DEF RootOf
<1>8. x[1] = next[w[1]]
    <2>1. CASE n = 1
        BY <2>1, <1>1, <1>2
    <2>2. CASE n # 1
        <3>0. n \in Nat \ {0}
            BY <1>1
        <3>1. 1 \in 1 .. n - 1 /\ 1 \in 1 .. n /\ 1 < n
            BY <3>0, <2>2
        <3>. QED BY <3>1, <1>1, <1>2
    <2>. QED BY <2>1, <2>2
<1>. QED BY <1>2, <1>5, <1>6, <1>7, <1>8 DEF Path, x

\* A thread goes into a list behind the first k.
LEMMA PathInsert ==
    ASSUME NEW next, NEW w, Path(next, w, NULL), NEW t \in Thread,
           \A i \in 1 .. Len(w) : w[i] # t,
           NEW k \in 0 .. Len(w),
           NEW nx, nx[t] = IF k < Len(w) THEN w[k + 1] ELSE NULL,
           \A i \in 1 .. Len(w) : nx[w[i]] = IF i = k THEN t ELSE next[w[i]]
    PROVE  Path(nx, InsertAt(w, k + 1, t), NULL)
<1> DEFINE x == InsertAt(w, k + 1, t)
           n == Len(w)
           From(i) == IF i <= k THEN i ELSE i - 1
<1>1. /\ w \in Seq(Thread) /\ n \in Nat /\ k \in Nat /\ k <= n
      /\ \A i, j \in 1 .. n : w[i] = w[j] => i = j
      /\ \A i \in 1 .. n : next[w[i]] = IF i < n THEN w[i + 1] ELSE NULL
    BY DEF Path
<1>2. /\ x \in Seq(Thread) /\ Len(x) = n + 1 /\ x[k + 1] = t
      /\ \A i \in 1 .. k : x[i] = w[i]
      /\ \A i \in k + 1 .. n : x[i + 1] = w[i]
    <2>1. w \in Seq(Thread)
        BY <1>1
    <2>2. Widened(x, w, k, t)
        BY <2>1, PutIn
    <2>. HIDE DEF x
    <2>. QED BY <2>2 DEF Widened
<1>. HIDE DEF x
<1>3. \A i \in 1 .. n + 1 : i # k + 1 => From(i) \in 1 .. n /\ x[i] = w[From(i)]
    <2>. SUFFICES ASSUME NEW i \in 1 .. n + 1, i # k + 1 PROVE From(i) \in 1 .. n /\ x[i] = w[From(i)]
        OBVIOUS
    <2>1. CASE i <= k
        BY <2>1, <1>1, <1>2
    <2>2. CASE ~(i <= k)
        <3>1. PICK j \in k + 1 .. n : i = j + 1
            <4>1. i - 1 \in k + 1 .. n /\ i = (i - 1) + 1
                BY <2>2, <1>1
            <4>. QED BY <4>1
        <3>2. x[j + 1] = w[j] /\ i - 1 = j /\ j \in 1 .. n
            BY <3>1, <1>1, <1>2
        <3>. QED BY <3>1, <3>2, <2>2
    <2>. QED BY <2>1, <2>2
<1>4. \A i, j \in 1 .. n + 1 : x[i] = x[j] => i = j
    <2>. SUFFICES ASSUME NEW i \in 1 .. n + 1, NEW j \in 1 .. n + 1, x[i] = x[j] PROVE i = j
        OBVIOUS
    <2>1. CASE i = k + 1 /\ j = k + 1
        BY <2>1
    <2>2. CASE i = k + 1 /\ j # k + 1
        BY <2>2, <1>2, <1>3
    <2>3. CASE i # k + 1 /\ j = k + 1
        BY <2>3, <1>2, <1>3
    <2>4. CASE i # k + 1 /\ j # k + 1
        <3>1. From(i) = From(j)
            <4>. HIDE DEF From
            <4>. QED BY <2>4, <1>1, <1>3
        <3>. QED BY <3>1, <2>4, <1>1
    <2>. QED BY <2>1, <2>2, <2>3, <2>4
<1>5. ASSUME NEW i \in 1 .. n + 1 PROVE nx[x[i]] = IF i < n + 1 THEN x[i + 1] ELSE NULL
    <2>1. CASE i = k + 1
        <3>1. CASE k < n
            <4>1. k + 1 \in k + 1 .. n
                BY <3>1, <1>1
            <4>2. x[(k + 1) + 1] = w[k + 1] /\ nx[x[i]] = w[k + 1]
                BY <4>1, <2>1, <3>1, <1>2
            <4>. QED BY <4>2, <2>1, <3>1, <1>1
        <3>2. CASE ~(k < n)
            <4>1. ~(i < n + 1)
                BY <2>1, <3>2, <1>1
            <4>. QED BY <4>1, <2>1, <3>2, <1>2
        <3>. QED BY <3>1, <3>2
    <2>2. CASE i = k
        <3>1. i \in 1 .. n /\ i \in 1 .. k
            BY <2>2, <1>1
        <3>2. x[i] = w[i] /\ nx[w[i]] = t /\ i < n + 1
            BY <3>1, <2>2, <1>1, <1>2
        <3>. QED BY <3>2, <2>2, <1>2
    <2>3. CASE i < k
        <3>1. i \in 1 .. n /\ i \in 1 .. k /\ i + 1 \in 1 .. k /\ i < n /\ i # k /\ i < n + 1
            BY <2>3, <1>1
        <3>2. x[i] = w[i] /\ x[i + 1] = w[i + 1] /\ nx[w[i]] = next[w[i]] /\ next[w[i]] = w[i + 1]
            BY <3>1, <1>1, <1>2
        <3>. QED BY <3>1, <3>2
    <2>4. CASE i > k + 1
        <3>1. PICK j \in k + 1 .. n : i = j + 1
            <4>1. i - 1 \in k + 1 .. n /\ i = (i - 1) + 1
                BY <2>4, <1>1
            <4>. QED BY <4>1
        <3>2. j \in 1 .. n /\ j # k
            BY <1>1
        <3>3. x[i] = w[j] /\ nx[w[j]] = next[w[j]]
            BY <3>1, <3>2, <1>2
        <3>4. CASE j < n
            <4>1. j + 1 \in k + 1 .. n
                BY <3>1, <3>4, <1>1
            <4>2. x[(j + 1) + 1] = w[j + 1] /\ next[w[j]] = w[j + 1]
                BY <4>1, <3>2, <3>4, <1>1, <1>2
            <4>. QED BY <4>2, <3>1, <3>3, <3>4, <1>1
        <3>5. CASE ~(j < n)
            BY <3>1, <3>2, <3>3, <3>5, <1>1
        <3>. QED BY <3>4, <3>5
    <2>. QED BY <2>1, <2>2, <2>3, <2>4, <1>1
<1>. QED BY <1>2, <1>4, <1>5 DEF Path, x

\* The first thread of a list goes out.
LEMMA PathTail ==
    ASSUME NEW next, NEW w, Path(next, w, NULL), w # <<>>
    PROVE  Path(next, Tail(w), NULL) /\ RootOf(Tail(w)) = next[w[1]]
<1> DEFINE x == Tail(w)
           n == Len(w)
<1>1. /\ w \in Seq(Thread) /\ n \in Nat /\ n >= 1
      /\ \A i, j \in 1 .. n : w[i] = w[j] => i = j
      /\ \A i \in 1 .. n : next[w[i]] = IF i < n THEN w[i + 1] ELSE NULL
    <2>1. Len(w) \in Nat /\ Len(w) >= 1 /\ w \in Seq(Thread)
        BY DEF Path
    <2>. QED BY <2>1 DEF Path
<1>2. /\ x \in Seq(Thread) /\ Len(x) = n - 1
      /\ RootOf(x) = IF n = 1 THEN NULL ELSE w[2]
      /\ \A i \in 1 .. n - 1 : x[i] = w[i + 1]
    BY <1>1, WithoutFirst
<1>. HIDE DEF x
<1>3. \A i, j \in 1 .. n - 1 : x[i] = x[j] => i = j
    <2>. SUFFICES ASSUME NEW i \in 1 .. n - 1, NEW j \in 1 .. n - 1, x[i] = x[j] PROVE i = j
        OBVIOUS
    <2>1. i + 1 \in 1 .. n /\ j + 1 \in 1 .. n /\ w[i + 1] = w[j + 1]
        BY <1>1, <1>2
    <2>2. i + 1 = j + 1
        BY <2>1, <1>1
    <2>. QED BY <2>2, <1>1
<1>4. ASSUME NEW i \in 1 .. n - 1 PROVE next[x[i]] = IF i < n - 1 THEN x[i + 1] ELSE NULL
    <2>1. i + 1 \in 1 .. n /\ x[i] = w[i + 1]
        BY <1>1, <1>2
    <2>2. CASE i < n - 1
        <3>1. i + 1 \in 1 .. n - 1 /\ i + 1 < n
            BY <2>2, <1>1
        <3>. QED BY <3>1, <2>1, <2>2, <1>1, <1>2
    <2>3. CASE ~(i < n - 1)
        <3>1. ~(i + 1 < n)
            BY <2>3, <1>1
        <3>. QED BY <3>1, <2>1, <2>3, <1>1
    <2>. QED BY <2>2, <2>3
<1>5. RootOf(x) = next[w[1]]
    <2>0. n = 1 \/ n > 1
        <3>1. n \in Nat /\ n >= 1
            BY <1>1
        <3>. HIDE DEF n
        <3>. QED BY <3>1
    <2>1. CASE n = 1
        BY <2>1, <1>1, <1>2
    <2>2. CASE n > 1
        <3>1. 1 \in 1 .. n
            BY <2>2, <1>1
        <3>. QED BY <3>1, <2>2, <1>1, <1>2
    <2>. QED BY <2>0, <2>1, <2>2
<1>. QED BY <1>2, <1>3, <1>4, <1>5 DEF Path, x

-----------------------------------------------------------------------------
(* What the functions of the scheduler do to the rings, as sequences.        *)

\* w is the ring of level p from its root on: the threads that are ready and, if
\* it has the running one, that as the last.
RingOf(s, p, w) ==
    /\ Path(s.next_tcb, w, RootOf(w))
    /\ s.ThreadSchedule[p] = RootOf(w)
    /\ \A i \in 1 .. Len(w) : Priority[w[i]] = p /\ s.state[w[i]] \in InRing
    /\ \A i \in 1 .. Len(w) : s.state[w[i]] = "RUNNING" => i = Len(w)
    /\ \A t \in At(s, InRing, p) : \E i \in 1 .. Len(w) : t = w[i]

\* A ring is a sequence of threads.
LEMMA RingPlain ==
    ASSUME NEW s, NEW p, NEW w, RingOf(s, p, w)
    PROVE  /\ w \in Seq(Thread) /\ Len(w) \in Nat /\ (w = <<>> <=> Len(w) = 0)
           /\ \A i \in 1 .. Len(w) : w[i] \in Thread
    BY DEF RingOf, Path

\* What is done to other threads leaves a ring as it is.
LEMMA RingOfFrame ==
    ASSUME NEW s, NEW p, NEW w, RingOf(s, p, w),
           NEW r, r.ThreadSchedule[p] = s.ThreadSchedule[p],
           \A i \in 1 .. Len(w) : r.next_tcb[w[i]] = s.next_tcb[w[i]],
           \A i \in 1 .. Len(w) : r.state[w[i]] \in InRing,
           \A i \in 1 .. Len(w) : r.state[w[i]] = "RUNNING" => s.state[w[i]] = "RUNNING",
           At(r, InRing, p) \subseteq At(s, InRing, p)
    PROVE  RingOf(r, p, w)
<1>1. Path(r.next_tcb, w, RootOf(w))
    BY PathFrame DEF RingOf
<1>. QED BY <1>1 DEF RingOf

\* enqueue_thread puts a thread in front of its ring.
LEMMA EnqueueWalks ==
    ASSUME NEW s \in SchedType, RingsOK(s), NEW t \in Thread, t \notin Linked(s),
           NEW W, \A q \in Level : RingOf(s, q, W[q])
    PROVE  LET r == EnqueueThread(s, t)
               p == Priority[t]
           IN  /\ RingOf(r, p, <<t>> \o W[p])
               /\ \A q \in Level : q # p => RingOf(r, q, W[q])
<1> DEFINE r == EnqueueThread(s, t)
           p == Priority[t]
           w == W[p]
           n == Len(w)
           root == s.ThreadSchedule[p]
           tail == s.prev_tcb[root]
<1>1. p \in Level /\ NULL \notin Thread
    BY ThreadsAssumption
<1>2. /\ RingOf(s, p, w) /\ w \in Seq(Thread) /\ n \in Nat /\ (w = <<>> <=> n = 0)
      /\ \A i \in 1 .. n : w[i] \in Thread
    BY <1>1, RingPlain
<1>3. root = RootOf(w) /\ (root = NULL <=> w = <<>>)
    <2>1. w # <<>> => w[1] \in Thread
        BY <1>2
    <2>. QED BY <2>1, <1>1, <1>2 DEF RingOf, RootOf
<1>4. \A q \in Level : \A i \in 1 .. Len(W[q]) :
         W[q][i] \in Linked(s) /\ W[q][i] # t /\ Priority[W[q][i]] = q
    <2>. SUFFICES ASSUME NEW q \in Level, NEW i \in 1 .. Len(W[q])
                  PROVE  W[q][i] \in Linked(s) /\ W[q][i] # t /\ Priority[W[q][i]] = q
        OBVIOUS
    <2>1. RingOf(s, q, W[q]) /\ W[q][i] \in Thread
        BY RingPlain
    <2>. QED BY <2>1 DEF RingOf, Linked
<1>5. w # <<>> => /\ n \in 1 .. n /\ tail = w[n] /\ tail \in Thread /\ root = w[1]
                  /\ \A i \in 1 .. n : w[i] = w[n] => i = n
    <2>. SUFFICES ASSUME w # <<>>
                  PROVE  /\ n \in 1 .. n /\ tail = w[n] /\ tail \in Thread /\ root = w[1]
                         /\ \A i \in 1 .. n : w[i] = w[n] => i = n
        OBVIOUS
    <2>1. n \in 1 .. n
        BY <1>2
    <2>2. s.next_tcb[w[n]] = root
        BY <2>1, <1>2, <1>3 DEF RingOf, Path
    <2>3. s.prev_tcb[s.next_tcb[w[n]]] = w[n]
        BY <2>1, <1>1, <1>4 DEF RingsOK, RingLinks
    <2>4. \A i \in 1 .. n : w[i] = w[n] => i = n
        BY <2>1, <1>2 DEF RingOf, Path
    <2>. QED BY <2>1, <2>2, <2>3, <2>4, <1>2, <1>3 DEF RootOf
<1>6. /\ r.next_tcb = IF root = NULL THEN [s.next_tcb EXCEPT ![t] = t]
                      ELSE [s.next_tcb EXCEPT ![t] = root, ![tail] = t]
      /\ r.state = [s.state EXCEPT ![t] = "ACTIVE"]
      /\ r.ThreadSchedule = [s.ThreadSchedule EXCEPT ![p] = t]
    <2>1. root # NULL => tail \in Thread
        BY <1>3, <1>5
    <2>. HIDE DEF r
    <2>. QED BY <2>1, EnqueueFields DEF r
<1>7. /\ s.next_tcb \in [Thread -> Thread \cup {NULL}]
      /\ s.state \in [Thread -> ThreadState]
      /\ s.ThreadSchedule \in [Level -> Thread \cup {NULL}]
    BY DEF SchedType
<1>. HIDE DEF r, root, tail
<1>8. ASSUME NEW q \in Level, q # p PROVE RingOf(r, q, W[q])
    <2>1. RingOf(s, q, W[q]) /\ \A i \in 1 .. Len(W[q]) : W[q][i] \in Thread
        BY RingPlain
    <2>2. r.ThreadSchedule[q] = s.ThreadSchedule[q]
        BY <1>6, <1>7, <1>8
    <2>3. ASSUME NEW i \in 1 .. Len(W[q])
          PROVE  r.next_tcb[W[q][i]] = s.next_tcb[W[q][i]] /\ r.state[W[q][i]] = s.state[W[q][i]]
        <3>1. W[q][i] # t /\ W[q][i] \in Thread /\ Priority[W[q][i]] = q
            BY <2>1, <1>4
        <3>2. root # NULL => W[q][i] # tail
            <4>1. root # NULL => Priority[tail] = p
                BY <1>1, <1>3, <1>4, <1>5
            <4>. QED BY <4>1, <3>1, <1>8
        <3>. QED BY <3>1, <3>2, <1>6, <1>7
    <2>4. At(r, InRing, q) \subseteq At(s, InRing, q)
        BY <1>6, <1>7, <1>8 DEF At
    <2>5. \A i \in 1 .. Len(W[q]) : s.state[W[q][i]] \in InRing
        BY <2>1 DEF RingOf
    <2>. QED BY <2>1, <2>2, <2>3, <2>4, <2>5, RingOfFrame
<1>9. RingOf(r, p, <<t>> \o w)
    <2> DEFINE x == <<t>> \o w
    <2>1. /\ x \in Seq(Thread) /\ Len(x) = n + 1 /\ RootOf(x) = t /\ x[1] = t
          /\ \A i \in 1 .. n : x[i + 1] = w[i]
        BY <1>2, Prepended
    <2>2. Path(r.next_tcb, x, t)
        <3>1. Path(s.next_tcb, w, RootOf(w)) /\ \A i \in 1 .. n : w[i] # t
            BY <1>1, <1>2, <1>4 DEF RingOf
        <3>2. r.next_tcb[t] = IF w = <<>> THEN t ELSE w[1]
            BY <1>3, <1>4, <1>1, <1>5, <1>6, <1>7
        <3>3. ASSUME NEW i \in 1 .. n
              PROVE  r.next_tcb[w[i]] = IF i < n THEN s.next_tcb[w[i]] ELSE t
            <4>1. /\ w # <<>> /\ root # NULL /\ w[i] # t /\ w[i] \in Thread
                  /\ tail = w[n] /\ tail \in Thread /\ (w[i] = w[n] => i = n)
                  /\ (i < n \/ i = n) /\ ~(n < n)
                BY <1>1, <1>2, <1>3, <1>4, <1>5
            <4>2. r.next_tcb = [s.next_tcb EXCEPT ![t] = root, ![tail] = t]
                BY <4>1, <1>6
            <4>. QED BY <4>1, <4>2, <1>7
        <3>. HIDE DEF x
        <3>. QED BY <3>1, <3>2, <3>3, PathPrepend DEF x
    <2>. HIDE DEF x
    <2>3. r.ThreadSchedule[p] = t
        BY <1>1, <1>6, <1>7
    <2>4. \A i \in 1 .. n + 1 : i # 1 => i - 1 \in 1 .. n /\ x[i] = w[i - 1]
        <3>. SUFFICES ASSUME NEW i \in 1 .. n + 1, i # 1 PROVE i - 1 \in 1 .. n /\ x[i] = w[i - 1]
            OBVIOUS
        <3>1. PICK j \in 1 .. n : i = j + 1 /\ j = i - 1
            <4>1. i - 1 \in 1 .. n /\ i = (i - 1) + 1
                BY <1>2
            <4>. QED BY <4>1
        <3>. QED BY <3>1, <2>1
    <2>5. /\ r.state[t] = "ACTIVE"
          /\ \A i \in 1 .. n : r.state[w[i]] = s.state[w[i]] /\ Priority[w[i]] = p
        BY <1>1, <1>2, <1>4, <1>6, <1>7
    <2>6. ASSUME NEW i \in 1 .. n + 1
          PROVE  /\ Priority[x[i]] = p /\ r.state[x[i]] \in InRing
                 /\ r.state[x[i]] = "RUNNING" => i = n + 1
        <3>1. CASE i = 1
            BY <3>1, <2>1, <2>5 DEF InRing
        <3>2. CASE i # 1
            <4>1. PICK j \in 1 .. n : i = j + 1 /\ x[i] = w[j]
                BY <3>2, <2>4, <1>2
            <4>2. s.state[w[j]] \in InRing /\ (s.state[w[j]] = "RUNNING" => j = n)
                BY <1>2 DEF RingOf
            <4>. QED BY <4>1, <4>2, <2>5
        <3>. QED BY <3>1, <3>2
    <2>7. ASSUME NEW u \in At(r, InRing, p) PROVE \E i \in 1 .. n + 1 : u = x[i]
        <3>1. CASE u = t
            BY <3>1, <2>1, <1>2
        <3>2. CASE u # t
            <4>1. u \in At(s, InRing, p)
                BY <3>2, <1>6, <1>7 DEF At
            <4>2. PICK j \in 1 .. n : u = w[j]
                BY <4>1, <1>2 DEF RingOf
            <4>3. j + 1 \in 1 .. n + 1 /\ x[j + 1] = w[j]
                BY <1>2, <2>1
            <4>. QED BY <4>2, <4>3
        <3>. QED BY <3>1, <3>2
    <2>8. RingOf(r, p, x)
        BY <2>1, <2>2, <2>3, <2>6, <2>7 DEF RingOf
    <2>. QED BY <2>8 DEF x
<1>. QED BY <1>8, <1>9 DEF r

\* The RUNNING thread is the last of its ring.
LEMMA RunningLast ==
    ASSUME NEW s, NEW p, NEW w, RingOf(s, p, w),
           NEW t \in Thread, Priority[t] = p, s.state[t] = "RUNNING"
    PROVE  Len(w) \in 1 .. Len(w) /\ w # <<>> /\ t = w[Len(w)]
<1>1. t \in At(s, InRing, p)
    BY DEF At, InRing
<1>2. PICK i \in 1 .. Len(w) : t = w[i]
    BY <1>1 DEF RingOf
<1>3. i = Len(w) /\ Len(w) \in Nat /\ (w = <<>> <=> Len(w) = 0)
    BY <1>2, RingPlain DEF RingOf
<1>. QED BY <1>2, <1>3

\* The fields of dequeue_thread that the walks look at.
LEMMA LeaveShape ==
    ASSUME NEW s \in SchedType, NEW t \in Thread,
           s.next_tcb[t] \in Thread, s.prev_tcb[t] \in Thread
    PROVE  LET p == Priority[t]
               h == s.next_tcb[t]
               v == s.prev_tcb[t]
               alone == s.ActivePriorityCount[p] = 0
               r == Leave(s, t, "BLOCKED")
           IN  /\ r.next_tcb = IF alone THEN [s.next_tcb EXCEPT ![t] = NULL]
                               ELSE [s.next_tcb EXCEPT ![v] = h, ![t] = NULL]
               /\ r.ThreadSchedule = [s.ThreadSchedule EXCEPT ![p] = IF alone THEN NULL ELSE h]
               /\ r.state = [s.state EXCEPT ![t] = "BLOCKED"]
<1> DEFINE p == Priority[t]
           n == s.next_tcb[t]
           v == s.prev_tcb[t]
           last == s.ActivePriorityCount[p] = 0
           r == Leave(s, t, "BLOCKED")
<1>3. /\ r \in SchedType
      /\ r.next_tcb = IF last THEN [s.next_tcb EXCEPT ![t] = NULL]
                      ELSE [s.next_tcb EXCEPT ![v] = n, ![t] = NULL]
      /\ r.prev_tcb = IF last THEN s.prev_tcb ELSE [s.prev_tcb EXCEPT ![n] = v]
      /\ r.ThreadSchedule = [s.ThreadSchedule EXCEPT ![p] = IF last THEN NULL ELSE n]
      /\ r.state = [s.state EXCEPT ![t] = "BLOCKED"]
      /\ r.ActivePriorityCount = s.ActivePriorityCount
      /\ r.bthreads_root = s.bthreads_root
      /\ r.RunPt = s.RunPt /\ r.NextRunPt = s.NextRunPt /\ r.pendsv = s.pendsv
    <2>1. s.next_tcb[t] \in Thread /\ s.prev_tcb[t] \in Thread /\ "BLOCKED" \in ThreadState
        BY DEF ThreadState
    <2>. QED BY <2>1, LeaveFields, SMTT(30)
<1>. HIDE DEF p, n, v, last, r
<1>. QED BY <1>3 DEF p, n, v, last, r

\* A thread that stops running and waits leaves the end of its ring.
LEMMA LeaveWalks ==
    ASSUME NEW s \in SchedType, RingsOK(s), NEW t \in Thread,
           \A u \in Thread : s.state[u] = "RUNNING" <=> u = t,
           NEW W, \A q \in Level : RingOf(s, q, W[q])
    PROVE  LET r == Leave(s, t, "BLOCKED")
               p == Priority[t]
           IN  /\ RingOf(r, p, Front(W[p]))
               /\ \A q \in Level : q # p => RingOf(r, q, W[q])
<1> DEFINE r == Leave(s, t, "BLOCKED")
           p == Priority[t]
           w == W[p]
           n == Len(w)
           h == s.next_tcb[t]
           v == s.prev_tcb[t]
           alone == s.ActivePriorityCount[p] = 0
<1>1. p \in Level /\ NULL \notin Thread
    BY ThreadsAssumption
<1>2. /\ RingOf(s, p, w) /\ w \in Seq(Thread) /\ n \in Nat /\ w # <<>>
      /\ n \in 1 .. n /\ t = w[n]
      /\ \A i \in 1 .. n : w[i] \in Thread
      /\ \A i \in 1 .. n : w[i] = t => i = n
    <2>1. RingOf(s, p, w)
        BY <1>1
    <2>2. n \in 1 .. n /\ w # <<>> /\ t = w[n]
        BY <2>1, RunningLast
    <2>3. /\ w \in Seq(Thread) /\ n \in Nat
          /\ \A i \in 1 .. n : w[i] \in Thread
        BY <2>1, RingPlain
    <2>4. \A i \in 1 .. n : w[i] = t => i = n
        BY <2>1, <2>2 DEF RingOf, Path
    <2>. QED BY <2>1, <2>2, <2>3, <2>4
<1>2a. n \in Nat /\ n >= 1
    BY <1>2
<1>3. \A q \in Level : \A i \in 1 .. Len(W[q]) :
         W[q][i] \in Linked(s) /\ W[q][i] \in Thread /\ Priority[W[q][i]] = q
    <2>. SUFFICES ASSUME NEW q \in Level, NEW i \in 1 .. Len(W[q])
                  PROVE  W[q][i] \in Linked(s) /\ W[q][i] \in Thread /\ Priority[W[q][i]] = q
        OBVIOUS
    <2>1. RingOf(s, q, W[q]) /\ W[q][i] \in Thread
        BY RingPlain
    <2>. QED BY <2>1 DEF RingOf, Linked
<1>4. h = w[1] /\ h \in Thread /\ 1 \in 1 .. n /\ RootOf(w) = w[1]
    BY <1>2 DEF RingOf, Path, RootOf
<1>5. n > 1 => /\ n - 1 \in 1 .. n /\ v = w[n - 1]
    <2>. SUFFICES ASSUME n > 1 PROVE n - 1 \in 1 .. n /\ v = w[n - 1]
        OBVIOUS
    <2>1. n - 1 \in 1 .. n /\ n - 1 < n /\ (n - 1) + 1 = n
        BY <1>2
    <2>2. s.next_tcb[w[n - 1]] = w[n]
        <3>1. \A i \in 1 .. n : i < n => s.next_tcb[w[i]] = w[i + 1]
            BY <1>2 DEF RingOf, Path
        <3>. QED BY <2>1, <3>1
    <2>3. s.prev_tcb[s.next_tcb[w[n - 1]]] = w[n - 1]
        BY <2>1, <1>1, <1>3 DEF RingsOK, RingLinks
    <2>. QED BY <2>1, <2>2, <2>3, <1>2
<1>6. v \in Thread
    <2>1. t \in Linked(s)
        BY <1>1, <1>2, <1>3
    <2>. QED BY <2>1 DEF RingsOK, RingLinks, Linked
<1>7. alone <=> n = 1
    <2>1. s.ActivePriorityCount[p] = Cardinality(At(s, {"ACTIVE"}, p)) /\ IsFiniteSet(At(s, {"ACTIVE"}, p))
        BY <1>1, AtFinite DEF RingsOK, RingCounts
    <2>2. alone <=> At(s, {"ACTIVE"}, p) = {}
        BY <2>1, FS_EmptySet
    <2>3. CASE n = 1
        <3>1. \A u \in At(s, {"ACTIVE"}, p) : u \in At(s, InRing, p) /\ u # t
            BY DEF At, InRing
        <3>2. \A u \in At(s, InRing, p) : u = t
            BY <2>3, <1>2 DEF RingOf
        <3>. QED BY <3>1, <3>2, <2>2, <2>3
    <2>4. CASE n # 1
        <3>1. w[1] \in Thread /\ Priority[w[1]] = p /\ s.state[w[1]] \in InRing /\ w[1] # t
            BY <2>4, <1>2, <1>4 DEF RingOf
        <3>2. w[1] \in At(s, {"ACTIVE"}, p)
            BY <3>1 DEF At, InRing
        <3>. QED BY <3>2, <2>2, <2>4
    <2>. QED BY <2>3, <2>4
<1>8. /\ r.next_tcb = IF alone THEN [s.next_tcb EXCEPT ![t] = NULL]
                      ELSE [s.next_tcb EXCEPT ![v] = h, ![t] = NULL]
      /\ r.ThreadSchedule = [s.ThreadSchedule EXCEPT ![p] = IF alone THEN NULL ELSE h]
      /\ r.state = [s.state EXCEPT ![t] = "BLOCKED"]
    <2>1. s.next_tcb[t] \in Thread /\ s.prev_tcb[t] \in Thread
        BY <1>4, <1>6
    <2>. HIDE DEF w
    <2>. QED BY <2>1, LeaveShape
<1>9. /\ s.next_tcb \in [Thread -> Thread \cup {NULL}]
      /\ s.state \in [Thread -> ThreadState]
      /\ s.ThreadSchedule \in [Level -> Thread \cup {NULL}]
    BY DEF SchedType
<1>. HIDE DEF r, h, v
<1>10. ASSUME NEW q \in Level, q # p PROVE RingOf(r, q, W[q])
    <2>1. RingOf(s, q, W[q])
        OBVIOUS
    <2>2. r.ThreadSchedule[q] = s.ThreadSchedule[q]
        BY <1>8, <1>9, <1>10
    <2>3. ASSUME NEW i \in 1 .. Len(W[q])
          PROVE  r.next_tcb[W[q][i]] = s.next_tcb[W[q][i]] /\ r.state[W[q][i]] = s.state[W[q][i]]
        <3>1. W[q][i] # t /\ W[q][i] \in Thread /\ Priority[W[q][i]] = q
            BY <1>3, <1>10
        <3>2. ~alone => W[q][i] # v
            <4>1. ~alone => n > 1
                <5>. HIDE DEF alone, n
                <5>. QED BY <1>2a, <1>7
            <4>2. ~alone => Priority[v] = p
                BY <4>1, <1>1, <1>3, <1>5
            <4>. QED BY <4>2, <3>1, <1>10
        <3>. QED BY <3>1, <3>2, <1>8, <1>9
    <2>4. At(r, InRing, q) \subseteq At(s, InRing, q)
        BY <1>8, <1>9, <1>10 DEF At
    <2>5. \A i \in 1 .. Len(W[q]) : s.state[W[q][i]] \in InRing
        BY <2>1 DEF RingOf
    <2>. QED BY <2>1, <2>2, <2>3, <2>4, <2>5, RingOfFrame
<1>11. RingOf(r, p, Front(w))
    <2> DEFINE x == Front(w)
    <2>1. /\ x \in Seq(Thread) /\ Len(x) = n - 1
          /\ RootOf(x) = IF n = 1 THEN NULL ELSE w[1]
          /\ \A i \in 1 .. n - 1 : x[i] = w[i]
        BY <1>2, WithoutLast
    <2>2. Path(r.next_tcb, x, RootOf(x))
        <3>1. CASE n = 1
            <4>1. Len(x) = 0
                BY <3>1, <2>1
            <4>. HIDE DEF x
            <4>. QED BY <4>1, <2>1 DEF Path
        <3>2. CASE n # 1
            <4>1. n > 1 /\ ~alone
                <5>. HIDE DEF alone, n
                <5>. QED BY <3>2, <1>2a, <1>7
            <4>2. v = w[n - 1] /\ n - 1 \in 1 .. n /\ v # t
                BY <4>1, <1>2, <1>5
            <4>3. r.next_tcb = [s.next_tcb EXCEPT ![v] = h, ![t] = NULL]
                BY <4>1, <1>8
            <4>4. r.next_tcb[w[n - 1]] = w[1]
                BY <4>2, <4>3, <1>4, <1>6, <1>9
            <4>5. ASSUME NEW i \in 1 .. n - 2 PROVE r.next_tcb[w[i]] = s.next_tcb[w[i]]
                <5>1. i \in 1 .. n /\ i # n /\ i # n - 1
                    BY <1>2
                <5>2. w[i] # t /\ w[i] # v /\ w[i] \in Thread
                    BY <5>1, <4>2, <1>2 DEF RingOf, Path
                <5>. QED BY <5>2, <4>3, <1>9
            <4>6. Path(s.next_tcb, w, RootOf(w))
                BY <1>2 DEF RingOf
            <4>7. RootOf(x) = w[1]
                BY <2>1, <3>2
            <4>. HIDE DEF x
            <4>. QED BY <4>1, <4>4, <4>5, <4>6, <4>7, PathShorten DEF x
        <3>. QED BY <3>1, <3>2
    <2>. HIDE DEF x
    <2>3. r.ThreadSchedule[p] = RootOf(x)
        BY <2>1, <1>1, <1>4, <1>7, <1>8, <1>9
    <2>4. ASSUME NEW i \in 1 .. n - 1
          PROVE  Priority[x[i]] = p /\ r.state[x[i]] \in InRing /\ r.state[x[i]] # "RUNNING"
        <3>1. i \in 1 .. n /\ i # n /\ x[i] = w[i]
            BY <2>1, <1>2
        <3>2. w[i] # t /\ w[i] \in Thread /\ Priority[w[i]] = p /\ s.state[w[i]] \in InRing
            BY <3>1, <1>2 DEF RingOf
        <3>3. r.state[w[i]] = s.state[w[i]] /\ s.state[w[i]] # "RUNNING"
            BY <3>2, <1>8, <1>9
        <3>. QED BY <3>1, <3>2, <3>3
    <2>5. ASSUME NEW u \in At(r, InRing, p) PROVE \E i \in 1 .. n - 1 : u = x[i]
        <3>1. u # t /\ u \in At(s, InRing, p)
            BY <1>8, <1>9 DEF At, InRing
        <3>2. PICK i \in 1 .. n : u = w[i]
            BY <3>1, <1>2 DEF RingOf
        <3>3. i \in 1 .. n - 1
            BY <3>1, <3>2, <1>2
        <3>. QED BY <3>2, <3>3, <2>1
    <2>6. RingOf(r, p, x)
        BY <2>1, <2>2, <2>3, <2>4, <2>5 DEF RingOf
    <2>. QED BY <2>6 DEF x
<1>. QED BY <1>10, <1>11 DEF r

\* From s to r one thread, if there is one, was chosen: the root of ring p, which
\* is at its end from then on.
Picked(s, r, p) ==
    /\ r.next_tcb = s.next_tcb
    /\ r.state = [s.state EXCEPT ![s.ThreadSchedule[p]] = "RUNNING"]
    /\ r.ThreadSchedule = [s.ThreadSchedule EXCEPT ![p] = s.next_tcb[s.ThreadSchedule[p]]]

\* The rings were W; x is what ring p is now, the chosen thread apart.
TurnedTo(r, p, W, x) ==
    /\ RingOf(r, p, x) /\ WaitingTurn(r.state, x) = Tail(W[p])
    /\ \A q \in Level : q # p => RingOf(r, q, W[q]) /\ WaitingTurn(r.state, W[q]) = W[q]

\* Who is picked was first and is last: what waits is the ring without it.
LEMMA PickedWalks ==
    ASSUME NEW s \in SchedType, \A u \in Thread : s.state[u] # "RUNNING",
           NEW p \in Level, NEW W, \A q \in Level : RingOf(s, q, W[q]), W[p] # <<>>,
           NEW r, Picked(s, r, p),
           NEW x, x = Append(Tail(W[p]), W[p][1])
    PROVE  TurnedTo(r, p, W, x)
<1> DEFINE w == W[p]
           n == Len(w)
           t == w[1]
<1>1. /\ RingOf(s, p, w) /\ w \in Seq(Thread) /\ n \in Nat /\ n > 0 /\ 1 \in 1 .. n
      /\ \A i \in 1 .. n : w[i] \in Thread
    BY RingPlain
<1>2. s.ThreadSchedule[p] = t /\ t \in Thread /\ RootOf(w) = t /\ Priority[t] = p /\ s.state[t] \in InRing
    BY <1>1 DEF RingOf, RootOf
<1>3. /\ r.next_tcb = s.next_tcb
      /\ r.state = [s.state EXCEPT ![t] = "RUNNING"]
      /\ r.ThreadSchedule = [s.ThreadSchedule EXCEPT ![p] = s.next_tcb[t]]
      /\ s.state \in [Thread -> ThreadState]
      /\ s.ThreadSchedule \in [Level -> Thread \cup {NULL}]
    BY <1>2 DEF Picked, SchedType
<1>4. /\ x \in Seq(Thread) /\ Len(x) = n /\ x # <<>>
      /\ x[n] = t /\ \A i \in 1 .. n - 1 : x[i] = w[i + 1]
      /\ Front(x) = Tail(w)
    BY <1>1, Turned
<1>5. Path(s.next_tcb, x, RootOf(x)) /\ RootOf(x) = s.next_tcb[t]
    BY <1>1, PathTurn DEF RingOf
<1>6. ASSUME NEW q \in Level, q # p
      PROVE  RingOf(r, q, W[q]) /\ WaitingTurn(r.state, W[q]) = W[q]
    <2>1. /\ RingOf(s, q, W[q]) /\ Len(W[q]) \in Nat /\ (W[q] = <<>> <=> Len(W[q]) = 0)
          /\ \A i \in 1 .. Len(W[q]) : W[q][i] \in Thread
        BY RingPlain
    <2>2. r.ThreadSchedule[q] = s.ThreadSchedule[q]
        BY <1>3, <1>6
    <2>3. ASSUME NEW i \in 1 .. Len(W[q])
          PROVE  /\ r.next_tcb[W[q][i]] = s.next_tcb[W[q][i]]
                 /\ r.state[W[q][i]] = s.state[W[q][i]] /\ r.state[W[q][i]] # "RUNNING"
                 /\ s.state[W[q][i]] \in InRing
        <3>1. W[q][i] \in Thread /\ Priority[W[q][i]] = q /\ s.state[W[q][i]] \in InRing
            BY <2>1 DEF RingOf
        <3>2. W[q][i] # t
            BY <3>1, <1>2, <1>6
        <3>. QED BY <3>1, <3>2, <1>3
    <2>4. At(r, InRing, q) \subseteq At(s, InRing, q)
        BY <1>2, <1>3, <1>6 DEF At
    <2>5. RingOf(r, q, W[q])
        BY <2>1, <2>2, <2>3, <2>4, RingOfFrame
    <2>6. WaitingTurn(r.state, W[q]) = W[q]
        <3>1. W[q] # <<>> => Len(W[q]) \in 1 .. Len(W[q])
            BY <2>1
        <3>. QED BY <3>1, <2>3 DEF WaitingTurn, Last
    <2>. QED BY <2>5, <2>6
<1>7. RingOf(r, p, x)
    <2>1. r.ThreadSchedule[p] = RootOf(x)
        BY <1>3, <1>5
    <2>2. ASSUME NEW i \in 1 .. n
          PROVE  /\ Priority[x[i]] = p /\ r.state[x[i]] \in InRing
                 /\ r.state[x[i]] = "RUNNING" => i = n
        <3>1. CASE i = n
            BY <3>1, <1>2, <1>3, <1>4 DEF InRing
        <3>2. CASE i # n
            <4>1. i \in 1 .. n - 1 /\ i + 1 \in 1 .. n /\ i + 1 # 1
                BY <3>2, <1>1
            <4>2. x[i] = w[i + 1] /\ w[i + 1] # t /\ w[i + 1] \in Thread
                BY <4>1, <1>1, <1>4 DEF RingOf, Path
            <4>3. Priority[w[i + 1]] = p /\ s.state[w[i + 1]] \in InRing
                BY <4>1, <1>1 DEF RingOf
            <4>. QED BY <4>2, <4>3, <1>3
        <3>. QED BY <3>1, <3>2
    <2>3. ASSUME NEW u \in At(r, InRing, p) PROVE \E i \in 1 .. n : u = x[i]
        <3>1. u \in At(s, InRing, p)
            BY <1>2, <1>3 DEF At
        <3>2. PICK i \in 1 .. n : u = w[i]
            BY <3>1, <1>1 DEF RingOf
        <3>3. CASE i = 1
            BY <3>2, <3>3, <1>1, <1>4
        <3>4. CASE i # 1
            <4>1. PICK j \in 1 .. n - 1 : i = j + 1
                <5>1. i - 1 \in 1 .. n - 1 /\ i = (i - 1) + 1
                    BY <3>4, <1>1
                <5>. QED BY <5>1
            <4>2. j \in 1 .. n /\ x[j] = w[j + 1]
                BY <1>1, <1>4
            <4>. QED BY <4>1, <4>2, <3>2
        <3>. QED BY <3>3, <3>4
    <2>. QED BY <2>1, <2>2, <2>3, <1>3, <1>4, <1>5 DEF RingOf
<1>8. WaitingTurn(r.state, x) = Tail(w)
    BY <1>2, <1>3, <1>4 DEF WaitingTurn, Last
<1>. QED BY <1>6, <1>7, <1>8 DEF TurnedTo

\* What waits for its turn at a level is its ring without the running thread.
LEMMA TurnIs ==
    ASSUME NEW s, NEW p, NEW w, RingOf(s, p, w), NEW t,
           \A u \in Thread : s.state[u] = "RUNNING" <=> u = t
    PROVE  /\ t \in Thread /\ Priority[t] = p =>
                WaitingTurn(s.state, w) = Front(w) /\ Append(Front(w), t) = w
           /\ ~(t \in Thread /\ Priority[t] = p) => WaitingTurn(s.state, w) = w
<1>1. /\ w \in Seq(Thread) /\ Len(w) \in Nat /\ (w = <<>> <=> Len(w) = 0)
      /\ \A i \in 1 .. Len(w) : w[i] \in Thread
    BY RingPlain
<1>2. CASE t \in Thread /\ Priority[t] = p
    <2>1. w # <<>> /\ t = w[Len(w)]
        BY <1>2, RunningLast
    <2>2. WaitingTurn(s.state, w) = Front(w)
        BY <2>1, <1>2 DEF WaitingTurn, Last
    <2>3. Append(Front(w), w[Len(w)]) = w
        BY <2>1, <1>1, WithoutLast
    <2>. QED BY <1>2, <2>1, <2>2, <2>3
<1>3. CASE ~(t \in Thread /\ Priority[t] = p)
    <2>1. w # <<>> => Len(w) \in 1 .. Len(w)
        BY <1>1
    <2>2. \A i \in 1 .. Len(w) : s.state[w[i]] # "RUNNING"
        BY <1>1, <1>3 DEF RingOf
    <2>3. WaitingTurn(s.state, w) = w
        BY <2>1, <2>2 DEF WaitingTurn, Last
    <2>. QED BY <1>3, <2>3
<1>. QED BY <1>2, <1>3

\* The running thread is ready again; the rings are what they were.
LEMMA RequeueWalks ==
    ASSUME NEW s \in SchedType, RingsOK(s),
           \A u \in Thread : s.state[u] = "RUNNING" => u = s.RunPt,
           NEW q \in Level, NEW w, RingOf(s, q, w)
    PROVE  RingOf(Requeue(s), q, w)
<1> DEFINE r == Requeue(s)
<1>1. /\ r.state = [u \in Thread |->
                       IF s.state[u] = "RUNNING" THEN "ACTIVE" ELSE s.state[u]]
      /\ r.next_tcb = s.next_tcb
    BY RequeueRings
<1>2. r.ThreadSchedule = s.ThreadSchedule
    BY DEF Requeue, SchedType
<1>. HIDE DEF r
<1>3. \A i \in 1 .. Len(w) : w[i] \in Thread /\ s.state[w[i]] \in InRing
    BY RingPlain DEF RingOf
<1>4. \A i \in 1 .. Len(w) : r.state[w[i]] \in InRing /\ r.state[w[i]] # "RUNNING"
    BY <1>1, <1>3 DEF InRing
<1>5. At(r, InRing, q) \subseteq At(s, InRing, q)
    BY <1>1 DEF At, InRing
<1>6. RingOf(r, q, w)
    BY <1>1, <1>2, <1>4, <1>5, RingOfFrame
<1>. QED BY <1>6 DEF r

\* schedule() and init_scheduler look for the first level whose count is not zero,
\* which is the first that has a thread.
LEMMA FirstRing ==
    ASSUME NEW s \in SchedType, RingsOK(s), \A u \in Thread : s.state[u] # "RUNNING",
           NEW W, \A q \in Level : RingOf(s, q, W[q])
    PROVE  LET p == TopLevel(s)
           IN  /\ p = PRIORITY_LVL_CNT => \A q \in Level : W[q] = <<>>
               /\ p # PRIORITY_LVL_CNT =>
                     /\ p \in Level /\ W[p] # <<>>
                     /\ \A q \in Level : W[q] # <<>> => p <= q
<1> DEFINE p == TopLevel(s)
<1>1. /\ p \in Level => s.ActivePriorityCount[p] > 0
      /\ p \in Level \cup {PRIORITY_LVL_CNT}
      /\ \A q \in Level : s.ActivePriorityCount[q] > 0 => p \in Level /\ p <= q
    BY TopLevelLeast
<1>2. ASSUME NEW q \in Level
      PROVE  s.ActivePriorityCount[q] > 0 <=> W[q] # <<>>
    <2> DEFINE A == At(s, {"ACTIVE"}, q)
    <2>1. IsFiniteSet(A) /\ s.ActivePriorityCount[q] = Cardinality(A) /\ Cardinality(A) \in Nat
        BY AtFinite, FS_CardinalityType DEF RingsOK, RingCounts
    <2>2. s.ActivePriorityCount[q] > 0 <=> A # {}
        BY <2>1, FS_EmptySet
    <2>3. A = At(s, InRing, q)
        BY DEF At, InRing
    <2>4. RingOf(s, q, W[q]) /\ Len(W[q]) \in Nat /\ (W[q] = <<>> <=> Len(W[q]) = 0)
        BY RingPlain
    <2>5. \A i \in 1 .. Len(W[q]) : W[q][i] \in At(s, InRing, q)
        <3>1. \A i \in 1 .. Len(W[q]) : W[q][i] \in Thread
            BY <2>4, RingPlain
        <3>. QED BY <2>4, <3>1 DEF RingOf, At
    <2>6. W[q] # <<>> => 1 \in 1 .. Len(W[q])
        BY <2>4
    <2>7. A # {} => W[q] # <<>>
        BY <2>3, <2>4 DEF RingOf
    <2>. QED BY <2>2, <2>3, <2>5, <2>6, <2>7
<1>3. PRIORITY_LVL_CNT \notin Level
    BY LevelsAssumption DEF Level
<1>. HIDE DEF p
<1>4. p = PRIORITY_LVL_CNT => \A q \in Level : W[q] = <<>>
    BY <1>1, <1>2, <1>3
<1>5. p # PRIORITY_LVL_CNT =>
         /\ p \in Level /\ W[p] # <<>>
         /\ \A q \in Level : W[q] # <<>> => p <= q
    BY <1>1, <1>2
<1>. QED BY <1>4, <1>5 DEF p

\* From s to r the most urgent thread, or idle, was chosen.
Dispatched(s, r, best) ==
    LET p == TopLevel(s)
    IN  \/ /\ p = PRIORITY_LVL_CNT /\ best = IdleThread
           /\ r.next_tcb = s.next_tcb /\ r.state = s.state
           /\ r.ThreadSchedule = s.ThreadSchedule
        \/ /\ p # PRIORITY_LVL_CNT /\ best = s.ThreadSchedule[p]
           /\ Picked(s, r, p)

\* The rings of s, and what waits there.
RingsAre(s, W) == W \in [Level -> Seq(Thread)] /\ \A q \in Level : RingOf(s, q, W[q])

\* Per level, the threads that wait for their turn.
Turns(s, W) == [q \in Level |-> WaitingTurn(s.state, W[q])]

\* best is the best of the queues W, and r has the queues without it.
ChoiceMade(r, W, best) ==
    /\ best = Queues!Best(W)
    /\ \E V : RingsAre(r, V) /\ Turns(r, V) = Queues!Without(W, best)

\* The choice is the best of the queues, which go on without it.
LEMMA DispatchedWalks ==
    ASSUME NEW s \in SchedType, RingsOK(s), \A u \in Thread : s.state[u] # "RUNNING",
           NEW W, RingsAre(s, W), NEW r, NEW best, Dispatched(s, r, best)
    PROVE  ChoiceMade(r, W, best)
<1>. SUFFICES /\ best = Queues!Best(W)
              /\ \E V : RingsAre(r, V) /\ Turns(r, V) = Queues!Without(W, best)
    BY DEF ChoiceMade
<1> DEFINE p == TopLevel(s)
<1>1. W \in [Level -> Seq(Thread)] /\ \A q \in Level : RingOf(s, q, W[q])
    BY DEF RingsAre
<1>2. /\ p = PRIORITY_LVL_CNT => \A q \in Level : W[q] = <<>>
      /\ p # PRIORITY_LVL_CNT =>
            /\ p \in Level /\ W[p] # <<>>
            /\ \A q \in Level : W[q] # <<>> => p <= q
    BY <1>1, FirstRing
<1>3. Queues!Levels = Level
    BY DEF Queues!Levels, Level
<1>4. CASE p = PRIORITY_LVL_CNT
    <2>1. /\ best = IdleThread
          /\ r.next_tcb = s.next_tcb /\ r.state = s.state
          /\ r.ThreadSchedule = s.ThreadSchedule
        BY <1>4 DEF Dispatched
    <2>2. Queues!Best(W) = IdleThread /\ Queues!Without(W, best) = W
        BY <1>2, <1>3, <1>4, <2>1 DEF Queues!Best, Queues!Without
    <2>3. RingsAre(r, W)
        BY <1>1, <2>1 DEF RingsAre, RingOf, At
    <2>4. \A q \in Level : WaitingTurn(r.state, W[q]) = W[q]
        BY <1>2, <1>4 DEF WaitingTurn
    <2>5. Turns(r, W) = W
        BY <1>1, <2>4 DEF Turns
    <2>. QED BY <2>1, <2>2, <2>3, <2>5
<1>5. CASE p # PRIORITY_LVL_CNT
    <2> DEFINE t == W[p][1]
               V == [W EXCEPT ![p] = Append(Tail(W[p]), t)]
    <2>1. p \in Level /\ W[p] # <<>> /\ \A q \in Level : W[q] # <<>> => p <= q
        BY <1>2, <1>5
    <2>2. best = s.ThreadSchedule[p] /\ Picked(s, r, p)
        BY <1>5 DEF Dispatched
    <2>. HIDE DEF p
    <2>3. /\ RingOf(s, p, W[p]) /\ W[p] \in Seq(Thread)
          /\ t \in Thread /\ Head(W[p]) = t
        BY <1>1, <2>1, WithoutFirst
    <2>4. best = t /\ Priority[t] = p /\ t # IdleThread
        <3>1. 1 \in 1 .. Len(W[p])
            BY <2>1, <2>3
        <3>. QED BY <2>1, <2>2, <2>3, <3>1, ThreadsAssumption DEF RingOf, RootOf
    <2>5. PICK x : x = Append(Tail(W[p]), W[p][1])
        OBVIOUS
    <2>5a. TurnedTo(r, p, W, x)
        BY <1>1, <2>1, <2>2, <2>5, PickedWalks
    <2>6. Append(Tail(W[p]), t) \in Seq(Thread)
        BY <2>1, <2>3, Turned
    <2>7. /\ V \in [Level -> Seq(Thread)]
          /\ V[p] = Append(Tail(W[p]), t)
          /\ \A q \in Level : q # p => V[q] = W[q]
        BY <1>1, <2>1, <2>6
    <2>. HIDE DEF V, t
    <2>8. RingsAre(r, V)
        BY <2>5, <2>5a, <2>7 DEF TurnedTo, RingsAre, t
    <2>9. Turns(r, V) = [W EXCEPT ![p] = Tail(@)]
        <3>1. \A q \in Level : WaitingTurn(r.state, V[q]) = IF q = p THEN Tail(W[p]) ELSE W[q]
            BY <2>5, <2>5a, <2>7 DEF TurnedTo, t
        <3>. QED BY <1>1, <3>1 DEF Turns
    <2>10. Queues!Without(W, best) = [W EXCEPT ![p] = Tail(@)]
        BY <2>4 DEF Queues!Without
    <2>11. Queues!Best(W) = t
        <3> DEFINE nonempty == {q \in Level : W[q] # <<>>}
        <3>1. p \in nonempty /\ \A q \in nonempty : p <= q
            BY <2>1
        <3>2. ASSUME NEW c \in nonempty, \A q \in nonempty : c <= q PROVE c = p
            <4>1. c <= p /\ p <= c /\ c \in Int /\ p \in Int
                BY <3>1, <3>2, <2>1, LevelsAssumption DEF Level
            <4>. QED BY <4>1
        <3>. HIDE DEF nonempty
        <3>3. (CHOOSE c \in nonempty : \A q \in nonempty : c <= q) = p
            BY <3>1, <3>2
        <3>4. nonempty # {}
            BY <3>1
        <3>5. Queues!Best(W) = Head(W[CHOOSE c \in nonempty : \A q \in nonempty : c <= q])
            BY <1>3, <3>4 DEF Queues!Best, nonempty
        <3>. QED BY <3>3, <3>5, <2>3
    <2>. QED BY <2>4, <2>8, <2>9, <2>10, <2>11
<1>. QED BY <1>4, <1>5

\* schedule() chooses among the ready threads and the one that was running.
LEMMA ScheduleWalks ==
    ASSUME NEW s \in SchedType, RingsOK(s),
           \A u \in Thread : s.state[u] = "RUNNING" => u = s.RunPt,
           NEW W, RingsAre(s, W), NEW r, r = Schedule(s)
    PROVE  ChoiceMade(r, W, r.NextRunPt)
<1> DEFINE q == Requeue(s)
           p == TopLevel(q)
           t == q.ThreadSchedule[p]
           k == TakeRoot(q, p)
<1>1. /\ q \in SchedType /\ RingsOK(q)
      /\ q.state = [u \in Thread |->
                       IF s.state[u] = "RUNNING" THEN "ACTIVE" ELSE s.state[u]]
    BY RequeueRings
<1>2. \A u \in Thread : q.state[u] # "RUNNING"
    BY <1>1
<1>3. RingsAre(q, W)
    BY RequeueWalks DEF RingsAre
<1>4. Dispatched(q, r, r.NextRunPt)
    <2>1. CASE p = PRIORITY_LVL_CNT
        <3>1. r = [q EXCEPT !.NextRunPt = IdleThread, !.pendsv = TRUE]
            BY <2>1 DEF Schedule
        <3>. HIDE DEF q
        <3>2. /\ r.NextRunPt = IdleThread
              /\ r.next_tcb = q.next_tcb /\ r.state = q.state
              /\ r.ThreadSchedule = q.ThreadSchedule
            BY <3>1, <1>1 DEF SchedType
        <3>. QED BY <2>1, <3>2 DEF Dispatched
    <2>2. CASE p # PRIORITY_LVL_CNT
        <3>1. r = [k EXCEPT !.NextRunPt = t, !.pendsv = TRUE]
            BY <2>2 DEF Schedule
        <3> DEFINE a == [q.ThreadSchedule EXCEPT ![p] = q.next_tcb[t]]
                   b == [q.state EXCEPT ![t] = "RUNNING"]
                   c == [q.ActivePriorityCount EXCEPT ![p] = @ - 1]
        <3>2. k = [q EXCEPT !.ThreadSchedule = a, !.state = b, !.ActivePriorityCount = c]
            <4>. HIDE DEF q
            <4>. QED BY DEF TakeRoot
        <3>. HIDE DEF q, t, k, a, b, c
        <3>3. /\ k.ThreadSchedule = [q.ThreadSchedule EXCEPT ![p] = q.next_tcb[t]]
              /\ k.state = [q.state EXCEPT ![t] = "RUNNING"]
              /\ k.next_tcb = q.next_tcb
              /\ r.ThreadSchedule = k.ThreadSchedule /\ r.state = k.state
              /\ r.next_tcb = k.next_tcb /\ r.NextRunPt = t
            BY <3>1, <3>2, <1>1 DEF SchedType, a, b
        <3>. HIDE DEF p
        <3>4. Picked(q, r, p) /\ r.NextRunPt = q.ThreadSchedule[p]
            BY <3>3 DEF Picked, t
        <3>. QED BY <2>2, <3>4 DEF Dispatched, p
    <2>. QED BY <2>1, <2>2
<1>. HIDE DEF q
<1>. QED BY <1>1, <1>2, <1>3, <1>4, DispatchedWalks

\* init_scheduler chooses among the ready threads.
LEMMA LaunchWalks ==
    ASSUME NEW s \in SchedType, RingsOK(s), \A u \in Thread : s.state[u] # "RUNNING",
           NEW W, RingsAre(s, W), NEW r, r = Launch(s)
    PROVE  ChoiceMade(r, W, r.RunPt)
<1> DEFINE p == TopLevel(s)
           t == s.ThreadSchedule[p]
           k == TakeRoot(s, p)
<1>1. Dispatched(s, r, r.RunPt)
    <2>1. CASE p = PRIORITY_LVL_CNT
        <3>1. r = [s EXCEPT !.RunPt = IdleThread]
            BY <2>1 DEF Launch
        <3>2. /\ r.RunPt = IdleThread
              /\ r.next_tcb = s.next_tcb /\ r.state = s.state
              /\ r.ThreadSchedule = s.ThreadSchedule
            BY <3>1 DEF SchedType
        <3>. QED BY <2>1, <3>2 DEF Dispatched
    <2>2. CASE p # PRIORITY_LVL_CNT
        <3>1. r = [k EXCEPT !.RunPt = t]
            BY <2>2 DEF Launch
        <3> DEFINE a == [s.ThreadSchedule EXCEPT ![p] = s.next_tcb[t]]
                   b == [s.state EXCEPT ![t] = "RUNNING"]
                   c == [s.ActivePriorityCount EXCEPT ![p] = @ - 1]
        <3>2. k = [s EXCEPT !.ThreadSchedule = a, !.state = b, !.ActivePriorityCount = c]
            BY DEF TakeRoot
        <3>. HIDE DEF t, k, a, b, c
        <3>3. /\ k.ThreadSchedule = [s.ThreadSchedule EXCEPT ![p] = s.next_tcb[t]]
              /\ k.state = [s.state EXCEPT ![t] = "RUNNING"]
              /\ k.next_tcb = s.next_tcb
              /\ r.ThreadSchedule = k.ThreadSchedule /\ r.state = k.state
              /\ r.next_tcb = k.next_tcb /\ r.RunPt = t
            BY <3>1, <3>2 DEF SchedType, a, b
        <3>. HIDE DEF p
        <3>4. Picked(s, r, p) /\ r.RunPt = s.ThreadSchedule[p]
            BY <3>3 DEF Picked, t
        <3>. QED BY <2>2, <3>4 DEF Dispatched, p
    <2>. QED BY <2>1, <2>2
<1>. QED BY <1>1, DispatchedWalks

-----------------------------------------------------------------------------
(* What they do to the blocked lists, as sequences.                          *)

\* w holds the waiters of sem in the order of the list; each waits for own[t].
ListOf(s, own, sem, w) ==
    /\ Path(s.next_tcb, w, NULL)
    /\ s.bthreads_root[sem] = RootOf(w)
    /\ \A i \in 1 .. Len(w) : s.state[w[i]] = "BLOCKED" /\ own[w[i]] = sem
    /\ \A i, j \in 1 .. Len(w) : i <= j => Priority[w[i]] <= Priority[w[j]]

\* What is done to other threads leaves a list as it is.
LEMMA ListOfFrame ==
    ASSUME NEW s, NEW own, NEW sem, NEW w, ListOf(s, own, sem, w),
           NEW r, NEW now, r.bthreads_root[sem] = s.bthreads_root[sem],
           \A i \in 1 .. Len(w) : r.next_tcb[w[i]] = s.next_tcb[w[i]],
           \A i \in 1 .. Len(w) : r.state[w[i]] = "BLOCKED" /\ now[w[i]] = own[w[i]]
    PROVE  ListOf(r, now, sem, w)
<1>1. Path(r.next_tcb, w, NULL)
    BY PathFrame DEF ListOf
<1>. QED BY <1>1 DEF ListOf

\* x is w with t at its place: behind the threads that are no less urgent.
Placed(x, w, t) ==
    \E k \in 0 .. Len(w) :
        /\ \A i \in 1 .. k : Priority[w[i]] <= Priority[t]
        /\ \A i \in k + 1 .. Len(w) : Priority[t] < Priority[w[i]]
        /\ x = InsertAt(w, k + 1, t)

\* r is the list w with t at its place; nothing else was linked.
Joined(r, next, w, t) ==
    /\ \E x : Placed(x, w, t) /\ Path(r.next_tcb, x, NULL) /\ r.root = RootOf(x)
    /\ \A u \in Thread : u # t /\ (\A i \in 1 .. Len(w) : u # w[i]) =>
          r.next_tcb[u] = next[u]

\* InsertSorted finds the place and makes the links.
LEMMA InsertWalks ==
    ASSUME NEW next \in [Thread -> Thread \cup {NULL}],
           NEW w, Path(next, w, NULL),
           \A i, j \in 1 .. Len(w) : i <= j => Priority[w[i]] <= Priority[w[j]],
           NEW t \in Thread, \A i \in 1 .. Len(w) : w[i] # t, next[t] = NULL,
           NEW r, r = InsertSorted(next, RootOf(w), Priority, t)
    PROVE  Joined(r, next, w, t)
<1> DEFINE n == Len(w)
           root == RootOf(w)
<1>1. /\ w \in Seq(Thread) /\ n \in Nat /\ (w = <<>> <=> n = 0)
      /\ \A i, j \in 1 .. n : w[i] = w[j] => i = j
      /\ \A i \in 1 .. n : w[i] \in Thread
      /\ \A i \in 1 .. n : next[w[i]] = IF i < n THEN w[i + 1] ELSE NULL
    BY DEF Path
<1>2. NULL \notin Thread /\ \A u \in Thread : Priority[u] \in Int
    BY ThreadsAssumption, LevelsAssumption DEF Level
<1> DEFINE Elsewhere == \A u \in Thread : u # t /\ (\A i \in 1 .. n : u # w[i]) =>
                            r.next_tcb[u] = next[u]
<1>3. SUFFICES Elsewhere /\ \E k \in 0 .. n :
          /\ \A i \in 1 .. k : Priority[w[i]] <= Priority[t]
          /\ \A i \in k + 1 .. n : Priority[t] < Priority[w[i]]
          /\ r.next_tcb[t] = IF k < n THEN w[k + 1] ELSE NULL
          /\ \A i \in 1 .. n : r.next_tcb[w[i]] = IF i = k THEN t ELSE next[w[i]]
          /\ r.root = IF k = 0 THEN t ELSE w[1]
    <2>1. PICK k \in 0 .. n :
              /\ \A i \in 1 .. k : Priority[w[i]] <= Priority[t]
              /\ \A i \in k + 1 .. n : Priority[t] < Priority[w[i]]
              /\ r.next_tcb[t] = IF k < n THEN w[k + 1] ELSE NULL
              /\ \A i \in 1 .. n : r.next_tcb[w[i]] = IF i = k THEN t ELSE next[w[i]]
              /\ r.root = IF k = 0 THEN t ELSE w[1]
        BY <1>3
    <2> DEFINE x == InsertAt(w, k + 1, t)
    <2>2. Path(r.next_tcb, x, NULL)
        BY <2>1, PathInsert
    <2>3. RootOf(x) = IF k = 0 THEN t ELSE w[1]
        BY <1>1, PutIn DEF Widened
    <2>4. Placed(x, w, t)
        BY <2>1 DEF Placed
    <2>. HIDE DEF x
    <2>. QED BY <1>3, <2>1, <2>2, <2>3, <2>4 DEF Joined
<1>4. CASE root = NULL
    <2>1. n = 0 /\ w = <<>>
        <3>1. w # <<>> => 1 \in 1 .. n
            BY <1>1
        <3>. QED BY <3>1, <1>1, <1>2, <1>4 DEF RootOf
    <2>2. r.next_tcb = next /\ r.root = t
        BY <1>4 DEF InsertSorted
    <2>3. 0 \in 0 .. n /\ \A i \in 1 .. 0 : FALSE
        BY <2>1
    <2>4. \A i \in 1 .. n : FALSE
        BY <2>1
    <2>. QED BY <2>1, <2>2, <2>3, <2>4
<1>5. CASE root # NULL /\ Priority[t] < Priority[root]
    <2>1. n >= 1 /\ 1 \in 1 .. n /\ root = w[1] /\ w # <<>>
        BY <1>1, <1>5 DEF RootOf
    <2>2. r.root = t /\ r.next_tcb = [next EXCEPT ![t] = root]
        BY <1>5 DEF InsertSorted
    <2>3. \A i \in 1 .. n : Priority[t] < Priority[w[i]]
        <3>. SUFFICES ASSUME NEW i \in 1 .. n PROVE Priority[t] < Priority[w[i]]
            OBVIOUS
        <3>1. 1 <= i
            BY <1>1
        <3>2. Priority[w[1]] <= Priority[w[i]]
            BY <2>1, <3>1
        <3>3. /\ Priority[w[1]] \in Int /\ Priority[w[i]] \in Int /\ Priority[t] \in Int
            BY <1>1, <1>2, <2>1
        <3>. QED BY <3>2, <3>3, <1>5, <2>1
    <2>4. r.next_tcb[t] = w[1] /\ \A i \in 1 .. n : r.next_tcb[w[i]] = next[w[i]]
        BY <2>1, <2>2, <1>1
    <2>5. 0 \in 0 .. n /\ 0 < n /\ 0 + 1 = 1
        BY <2>1, <1>1
    <2>6. \A i \in 1 .. 0 : FALSE
        OBVIOUS
    <2>7. \A i \in 1 .. n : i # 0
        BY <1>1
    <2>. QED BY <2>2, <2>3, <2>4, <2>5, <2>6, <2>7
<1>6. CASE root # NULL /\ ~(Priority[t] < Priority[root])
    <2> DEFINE C == Chain(next, root)
               Before(u) == /\ Priority[u] <= Priority[t]
                            /\ next[u] # NULL => Priority[t] < Priority[next[u]]
               node == CHOOSE u \in C : Before(u)
    <2>1. n >= 1 /\ 1 \in 1 .. n /\ root = w[1] /\ Priority[w[1]] <= Priority[t]
        <3>1. n >= 1 /\ 1 \in 1 .. n /\ root = w[1]
            BY <1>1, <1>6 DEF RootOf
        <3>2. Priority[w[1]] \in Int /\ Priority[t] \in Int
            BY <1>1, <1>2, <3>1
        <3>. QED BY <1>6, <3>1, <3>2
    <2>2. C = {w[i] : i \in 1 .. n}
        BY PathChain
    <2>3. \E i \in 1 .. n : Before(w[i])
        <3> DEFINE S == {j \in 1 .. n : Priority[t] < Priority[w[j]]}
        <3>1. CASE S = {}
            <4>1. n \in 1 .. n /\ next[w[n]] = NULL
                BY <1>1, <2>1
            <4>2. Priority[w[n]] <= Priority[t]
                BY <4>1, <3>1, <1>1, <1>2
            <4>. QED BY <4>1, <4>2
        <3>2. CASE S # {}
            <4>1. S \in SUBSET Nat
                BY <1>1
            <4>2. PICK m \in S : \A j \in S : m <= j
                BY <3>2, <4>1, LeastNatural
            <4>3. m \in 1 .. n /\ Priority[t] < Priority[w[m]] /\ m # 1
                <5>1. m \in 1 .. n /\ Priority[t] < Priority[w[m]]
                    BY <4>2
                <5>2. Priority[w[1]] \in Int /\ Priority[t] \in Int
                    BY <1>1, <1>2, <2>1
                <5>. QED BY <5>1, <5>2, <2>1
            <4>4. m - 1 \in 1 .. n /\ m - 1 < n /\ (m - 1) + 1 = m /\ ~(m <= m - 1)
                BY <4>3, <1>1
            <4>5. Priority[w[m - 1]] <= Priority[t]
                <5>1. ~(Priority[t] < Priority[w[m - 1]])
                    BY <4>2, <4>4
                <5>2. Priority[w[m - 1]] \in Int /\ Priority[t] \in Int
                    BY <1>1, <1>2, <4>4
                <5>. QED BY <5>1, <5>2
            <4>6. next[w[m - 1]] = w[m]
                BY <4>4, <1>1
            <4>. QED BY <4>3, <4>4, <4>5, <4>6
        <3>. QED BY <3>1, <3>2
    <2>4. node \in C /\ Before(node)
        BY <2>2, <2>3
    <2>5. r.root = root /\ r.next_tcb = [next EXCEPT ![t] = next[node], ![node] = t]
        <3>1. InsertSorted(next, root, Priority, t)
                 = [next_tcb |-> [next EXCEPT ![t] = next[node], ![node] = t], root |-> root]
            BY <1>6 DEF InsertSorted
        <3>. HIDE DEF node
        <3>. QED BY <3>1
    <2>. HIDE DEF node
    <2>6. PICK k \in 1 .. n : node = w[k]
        BY <2>2, <2>4
    <2>6a. Elsewhere
        <3>. SUFFICES ASSUME NEW u \in Thread, u # t, \A i \in 1 .. n : u # w[i]
                      PROVE  r.next_tcb[u] = next[u]
            OBVIOUS
        <3>1. u # node
            BY <2>6
        <3>. QED BY <3>1, <2>5
    <2>7. k \in 0 .. n /\ k # 0 /\ k \in Nat /\ n \in Nat
        BY <1>1
    <2>8. ASSUME NEW i \in 1 .. k PROVE Priority[w[i]] <= Priority[t]
        <3>1. i \in 1 .. n /\ i <= k
            BY <2>7
        <3>2. Priority[w[i]] <= Priority[w[k]]
            BY <3>1
        <3>3. Priority[w[i]] \in Int /\ Priority[w[k]] \in Int /\ Priority[t] \in Int
            BY <1>1, <1>2, <3>1
        <3>. QED BY <3>2, <3>3, <2>4, <2>6
    <2>9. ASSUME NEW i \in k + 1 .. n PROVE Priority[t] < Priority[w[i]]
        <3>1. i \in 1 .. n /\ k < n /\ k + 1 \in 1 .. n /\ k + 1 <= i
            BY <2>7
        <3>2. next[w[k]] = w[k + 1] /\ w[k + 1] \in Thread
            BY <1>1, <3>1
        <3>3. Priority[t] < Priority[w[k + 1]]
            BY <3>2, <2>4, <2>6, <1>2
        <3>4. Priority[w[k + 1]] <= Priority[w[i]]
            BY <3>1
        <3>5. Priority[w[i]] \in Int /\ Priority[w[k + 1]] \in Int /\ Priority[t] \in Int
            BY <1>1, <1>2, <3>1
        <3>. QED BY <3>3, <3>4, <3>5
    <2>10. r.next_tcb[t] = IF k < n THEN w[k + 1] ELSE NULL
        <3>1. w[k] # t /\ w[k] \in Thread
            BY <1>1
        <3>2. next[w[k]] = IF k < n THEN w[k + 1] ELSE NULL
            BY <1>1
        <3>. QED BY <3>1, <3>2, <2>5, <2>6
    <2>11. ASSUME NEW i \in 1 .. n PROVE r.next_tcb[w[i]] = IF i = k THEN t ELSE next[w[i]]
        <3>1. w[i] # t /\ w[i] \in Thread /\ (w[i] = w[k] => i = k)
            BY <1>1
        <3>. QED BY <3>1, <2>5, <2>6
    <2>. QED BY <2>1, <2>5, <2>6a, <2>7, <2>8, <2>9, <2>10, <2>11
<1>. QED BY <1>4, <1>5, <1>6

\* A thread at its place keeps the list sorted.
LEMMA PlacedSorted ==
    ASSUME NEW w \in Seq(Thread), NEW t \in Thread, NEW x, Placed(x, w, t),
           \A i, j \in 1 .. Len(w) : i <= j => Priority[w[i]] <= Priority[w[j]]
    PROVE  /\ x \in Seq(Thread)
           /\ \A i \in 1 .. Len(x) : x[i] = t \/ \E j \in 1 .. Len(w) : x[i] = w[j]
           /\ \A i, j \in 1 .. Len(x) : i <= j => Priority[x[i]] <= Priority[x[j]]
<1> DEFINE n == Len(w)
<1>1. PICK k \in 0 .. n :
          /\ \A i \in 1 .. k : Priority[w[i]] <= Priority[t]
          /\ \A i \in k + 1 .. n : Priority[t] < Priority[w[i]]
          /\ x = InsertAt(w, k + 1, t)
    BY DEF Placed
<1>2. n \in Nat /\ \A i \in 1 .. n : w[i] \in Thread
    OBVIOUS
<1>3. /\ x \in Seq(Thread) /\ Len(x) = n + 1 /\ x[k + 1] = t
      /\ \A i \in 1 .. k : x[i] = w[i]
      /\ \A i \in k + 1 .. n : x[i + 1] = w[i]
    <2>1. Widened(x, w, k, t)
        BY <1>1, PutIn
    <2>. QED BY <2>1 DEF Widened
<1>4. \A u \in Thread : Priority[u] \in Int
    BY ThreadsAssumption, LevelsAssumption DEF Level
<1>5. ASSUME NEW i \in 1 .. n + 1
      PROVE  \/ i <= k /\ i \in 1 .. n /\ x[i] = w[i] /\ Priority[w[i]] <= Priority[t]
             \/ i = k + 1 /\ x[i] = t
             \/ /\ i > k + 1 /\ i - 1 \in 1 .. n /\ x[i] = w[i - 1]
                /\ Priority[t] < Priority[w[i - 1]]
    <2>1. CASE i <= k
        <3>1. i \in 1 .. k /\ i \in 1 .. n
            BY <2>1, <1>2
        <3>. QED BY <2>1, <3>1, <1>1, <1>3
    <2>2. CASE i = k + 1
        BY <2>2, <1>3
    <2>3. CASE ~(i <= k) /\ i # k + 1
        <3>1. i > k + 1 /\ i - 1 \in k + 1 .. n /\ i - 1 \in 1 .. n /\ (i - 1) + 1 = i
            BY <2>3, <1>2
        <3>2. x[(i - 1) + 1] = w[i - 1]
            BY <3>1, <1>3
        <3>. QED BY <3>1, <3>2, <1>1
    <2>. QED BY <2>1, <2>2, <2>3
<1>. HIDE DEF n
<1>6. ASSUME NEW i \in 1 .. n + 1, NEW j \in 1 .. n + 1, i <= j
      PROVE  Priority[x[i]] <= Priority[x[j]]
    <2>0. i \in Int /\ j \in Int /\ k \in Int
        BY <1>2
    <2>1. CASE i <= k /\ j <= k
        <3>1. i \in 1 .. n /\ j \in 1 .. n /\ x[i] = w[i] /\ x[j] = w[j]
            BY <1>5, <2>0, <2>1
        <3>. QED BY <3>1, <1>6 DEF n
    <2>2. CASE i > k + 1
        <3>1. /\ i - 1 \in 1 .. n /\ j - 1 \in 1 .. n /\ i - 1 <= j - 1
              /\ x[i] = w[i - 1] /\ x[j] = w[j - 1]
            BY <1>5, <1>6, <2>0, <2>2
        <3>. QED BY <3>1 DEF n
    <2>3. CASE i <= k + 1 /\ ~(j <= k)
        <3>1. Priority[x[i]] <= Priority[t]
            <4>1. CASE i <= k
                BY <4>1, <1>5, <2>0
            <4>2. CASE i = k + 1
                BY <4>2, <1>3, <1>4
            <4>. QED BY <4>1, <4>2, <2>0, <2>3
        <3>2. Priority[t] <= Priority[x[j]]
            <4>1. CASE j = k + 1
                BY <4>1, <1>3, <1>4
            <4>2. CASE j # k + 1
                <5>1. j - 1 \in 1 .. n /\ x[j] = w[j - 1] /\ Priority[t] < Priority[w[j - 1]]
                    BY <4>2, <1>5, <2>0, <2>3
                <5>2. Priority[t] \in Int /\ Priority[w[j - 1]] \in Int
                    BY <5>1, <1>2, <1>4
                <5>. QED BY <5>1, <5>2
            <4>. QED BY <4>1, <4>2
        <3>3. Priority[t] \in Int /\ Priority[x[i]] \in Int /\ Priority[x[j]] \in Int
            BY <1>3, <1>4
        <3>. QED BY <3>1, <3>2, <3>3
    <2>. QED BY <1>6, <2>0, <2>1, <2>2, <2>3
<1>7. \A i \in 1 .. n + 1 : x[i] = t \/ \E j \in 1 .. n : x[i] = w[j]
    BY <1>5
<1>. QED BY <1>3, <1>6, <1>7 DEF n

\* The waiters of s.
ListsAre(s, own, L) ==
    L \in [Sem -> Seq(Thread)] /\ \A sem \in Sem : ListOf(s, own, sem, L[sem])

\* A blocked list is a sequence of threads.
LEMMA ListPlain ==
    ASSUME NEW s, NEW own, NEW sem, NEW w, ListOf(s, own, sem, w)
    PROVE  /\ w \in Seq(Thread) /\ Len(w) \in Nat /\ (w = <<>> <=> Len(w) = 0)
           /\ \A i \in 1 .. Len(w) : w[i] \in Thread
    BY DEF ListOf, Path

\* t goes in front of the ring of its level.
PutFirst(W, t) == [W EXCEPT ![Priority[t]] = <<t>> \o @]

\* The first waiter of sem goes.
Served(L, sem) == [L EXCEPT ![sem] = Tail(@)]

\* sched_unblock takes the first waiter from the list to the front of its ring.
LEMMA UnblockWalks ==
    ASSUME NEW s \in SchedType, ListsOK(s), NEW sem \in Sem,
           s.bthreads_root[sem] # NULL,
           NEW own, NEW W, RingsAre(s, W), NEW L, ListsAre(s, own, L),
           NEW r, r = SchedUnblock(s, sem),
           NEW t, t = s.bthreads_root[sem]
    PROVE  /\ t \in Thread /\ L[sem] # <<>> /\ Head(L[sem]) = t
           /\ RingsAre(r, PutFirst(W, t)) /\ ListsAre(r, own, Served(L, sem))
           /\ r.state = [s.state EXCEPT ![t] = "ACTIVE"]
           /\ r.RunPt = s.RunPt /\ r.NextRunPt = s.NextRunPt /\ r.pendsv = s.pendsv
<1> DEFINE w == L[sem]
           p == Priority[t]
           heads == [s.bthreads_root EXCEPT ![sem] = s.next_tcb[t]]
           x == [s EXCEPT !.bthreads_root = heads]
<1>1. /\ t \in Blocked(s) /\ t \in Thread /\ p \in Level /\ t \notin Linked(s)
      /\ r.state = [s.state EXCEPT ![t] = "ACTIVE"]
      /\ r.RunPt = s.RunPt /\ r.NextRunPt = s.NextRunPt /\ r.pendsv = s.pendsv
    BY SchedUnblockLists, ThreadsAssumption DEF Blocked, Linked, InRing
<1>2. /\ ListOf(s, own, sem, w) /\ w \in Seq(Thread) /\ Len(w) \in Nat
      /\ W \in [Level -> Seq(Thread)] /\ L \in [Sem -> Seq(Thread)]
      /\ w # <<>> /\ 1 \in 1 .. Len(w) /\ t = w[1] /\ Head(w) = t
    <2>1. ListOf(s, own, sem, w) /\ W \in [Level -> Seq(Thread)] /\ L \in [Sem -> Seq(Thread)]
        BY DEF ListsAre, RingsAre
    <2>2. w \in Seq(Thread) /\ Len(w) \in Nat /\ (w = <<>> <=> Len(w) = 0)
        BY <2>1, ListPlain
    <2>3. w # <<>> /\ t = w[1]
        BY <2>1 DEF ListOf, RootOf
    <2>. HIDE DEF w
    <2>4. Head(w) = w[1] /\ 1 \in 1 .. Len(w)
        BY <2>2, <2>3
    <2>. QED BY <2>1, <2>2, <2>3, <2>4
<1>3. /\ s.next_tcb \in [Thread -> Thread \cup {NULL}]
      /\ s.bthreads_root \in [Sem -> Thread \cup {NULL}]
      /\ s.state \in [Thread -> ThreadState]
    BY DEF SchedType
<1>4. heads \in [Sem -> Thread \cup {NULL}]
    BY <1>1, <1>3
<1>5. heads[sem] = s.next_tcb[t] /\ \A i \in Sem : i # sem => heads[i] = s.bthreads_root[i]
    BY <1>3
<1>6. r = EnqueueThread(x, t)
    BY DEF SchedUnblock
<1>. HIDE DEF heads
<1>7. /\ x \in SchedType
      /\ x.bthreads_root = heads
      /\ x.next_tcb = s.next_tcb /\ x.prev_tcb = s.prev_tcb
      /\ x.state = s.state /\ x.ThreadSchedule = s.ThreadSchedule
      /\ x.ActivePriorityCount = s.ActivePriorityCount
    BY <1>4 DEF SchedType
<1>. HIDE DEF x
<1>8. RingsOK(x) /\ Linked(x) = Linked(s)
    BY <1>7, RingsFrame DEF ListsOK
<1>9. \A q \in Level : RingOf(x, q, W[q])
    <2>1. \A q \in Level : RingOf(s, q, W[q])
        BY DEF RingsAre
    <2>. QED BY <2>1, <1>7 DEF RingOf, At
<1>10. /\ RingOf(r, p, <<t>> \o W[p])
       /\ \A q \in Level : q # p => RingOf(r, q, W[q])
    BY <1>1, <1>6, <1>7, <1>8, <1>9, EnqueueWalks
<1>11. /\ \A u \in Thread : u # t /\ u \notin Linked(s) => r.next_tcb[u] = s.next_tcb[u]
       /\ r.bthreads_root = heads
    BY <1>1, <1>6, <1>7, <1>8, EnqueueRings
<1>12. RingsAre(r, [W EXCEPT ![p] = <<t>> \o @])
    <2> DEFINE y == <<t>> \o W[p]
               V == [W EXCEPT ![p] = y]
    <2>1. y \in Seq(Thread)
        <3>1. W[p] \in Seq(Thread)
            BY <1>1, <1>2
        <3>. QED BY <3>1, <1>1, Prepended
    <2>2. RingOf(r, p, y)
        BY <1>10
    <2>. HIDE DEF y
    <2>3. V \in [Level -> Seq(Thread)] /\ \A q \in Level : RingOf(r, q, V[q])
        BY <2>1, <2>2, <1>1, <1>2, <1>10
    <2>4. V = [W EXCEPT ![p] = <<t>> \o @]
        BY DEF y
    <2>. HIDE DEF V
    <2>5. RingsAre(r, V)
        BY <2>3 DEF RingsAre
    <2>. QED BY <2>4, <2>5
<1>13. ASSUME NEW i \in Sem, i # sem PROVE ListOf(r, own, i, L[i])
    <2>1. ListOf(s, own, i, L[i])
        BY DEF ListsAre
    <2>2. ASSUME NEW j \in 1 .. Len(L[i])
          PROVE  /\ r.next_tcb[L[i][j]] = s.next_tcb[L[i][j]]
                 /\ r.state[L[i][j]] = "BLOCKED"
        <3>1. L[i][j] \in Thread /\ s.state[L[i][j]] = "BLOCKED" /\ own[L[i][j]] = i
            BY <2>1, ListPlain DEF ListOf
        <3>2. L[i][j] # t
            BY <3>1, <1>2, <1>13 DEF ListOf
        <3>3. L[i][j] \notin Linked(s)
            BY <3>1 DEF Linked, InRing
        <3>. QED BY <3>1, <3>2, <3>3, <1>1, <1>3, <1>11
    <2>3. r.bthreads_root[i] = s.bthreads_root[i]
        BY <1>5, <1>11, <1>13
    <2>. QED BY <2>1, <2>2, <2>3, ListOfFrame
<1>14. ListOf(r, own, sem, Tail(w)) /\ Tail(w) \in Seq(Thread)
    <2> DEFINE z == Tail(w)
               n == Len(w)
    <2>1. Path(s.next_tcb, z, NULL) /\ RootOf(z) = s.next_tcb[t]
        BY <1>2, PathTail DEF ListOf
    <2>2. /\ z \in Seq(Thread) /\ Len(z) = n - 1
          /\ \A i \in 1 .. n - 1 : z[i] = w[i + 1]
        BY <1>2, WithoutFirst
    <2>. HIDE DEF z
    <2>3. \A i \in 1 .. n - 1 : i + 1 \in 1 .. n /\ i + 1 # 1
        <3>. HIDE DEF w
        <3>. QED BY <1>2
    <2>4. ASSUME NEW i \in 1 .. n - 1
          PROVE  /\ z[i] \in Thread /\ z[i] # t
                 /\ s.state[z[i]] = "BLOCKED" /\ own[z[i]] = sem
        <3>1. i + 1 \in 1 .. n /\ i + 1 # 1 /\ z[i] = w[i + 1]
            BY <2>2, <2>3
        <3>2. w[i + 1] \in Thread /\ w[i + 1] # w[1]
            BY <3>1, <1>2, ListPlain DEF ListOf, Path
        <3>3. s.state[w[i + 1]] = "BLOCKED" /\ own[w[i + 1]] = sem
            BY <3>1, <1>2 DEF ListOf
        <3>. QED BY <3>1, <3>2, <3>3, <1>2
    <2>5. ASSUME NEW i \in 1 .. n - 1
          PROVE  r.next_tcb[z[i]] = s.next_tcb[z[i]] /\ r.state[z[i]] = "BLOCKED"
        <3>1. z[i] \notin Linked(s)
            BY <2>4 DEF Linked, InRing
        <3>. QED BY <3>1, <2>4, <1>1, <1>3, <1>11
    <2>6. Path(r.next_tcb, z, NULL)
        BY <2>1, <2>2, <2>5, PathFrame
    <2>7. r.bthreads_root[sem] = RootOf(z)
        BY <2>1, <1>5, <1>11
    <2>8. ASSUME NEW i \in 1 .. n - 1, NEW j \in 1 .. n - 1, i <= j
          PROVE  Priority[z[i]] <= Priority[z[j]]
        <3>1. i + 1 \in 1 .. n /\ j + 1 \in 1 .. n /\ z[i] = w[i + 1] /\ z[j] = w[j + 1]
            BY <2>2, <2>3
        <3>2. i + 1 <= j + 1
            BY <2>8, <1>2
        <3>. QED BY <3>1, <3>2, <1>2 DEF ListOf
    <2>9. ListOf(r, own, sem, z)
        BY <2>2, <2>4, <2>5, <2>6, <2>7, <2>8 DEF ListOf
    <2>. QED BY <2>2, <2>9 DEF z
<1>15. ListsAre(r, own, [L EXCEPT ![sem] = Tail(@)])
    <2> DEFINE z == Tail(w)
               M == [L EXCEPT ![sem] = z]
    <2>1. z \in Seq(Thread) /\ ListOf(r, own, sem, z)
        BY <1>14
    <2>. HIDE DEF z
    <2>2. M \in [Sem -> Seq(Thread)] /\ \A i \in Sem : ListOf(r, own, i, M[i])
        BY <2>1, <1>2, <1>13
    <2>3. M = [L EXCEPT ![sem] = Tail(@)]
        BY DEF z
    <2>. HIDE DEF M
    <2>4. ListsAre(r, own, M)
        BY <2>2 DEF ListsAre
    <2>. QED BY <2>3, <2>4
<1>16. RingsAre(r, PutFirst(W, t)) /\ ListsAre(r, own, Served(L, sem))
    BY <1>12, <1>15 DEF PutFirst, Served
<1>. QED BY <1>1, <1>2, <1>16

\* From d to e a thread t that is on no list goes to its place in that of sem.
LEMMA SplicedWalks ==
    ASSUME NEW d \in SchedType, NEW t \in Thread, NEW sem \in Sem,
           d.next_tcb[t] = NULL, d.state[t] = "BLOCKED",
           NEW own, own[t] = sem, NEW L, ListsAre(d, own, L),
           \A i \in Sem : \A j \in 1 .. Len(L[i]) : L[i][j] # t,
           NEW e, Spliced(d, e, t, sem)
    PROVE  \E x : Placed(x, L[sem], t) /\ ListsAre(e, own, [L EXCEPT ![sem] = x])
<1> DEFINE w == L[sem]
           list == InsertSorted(d.next_tcb, RootOf(w), Priority, t)
<1>1. /\ ListOf(d, own, sem, w) /\ w \in Seq(Thread) /\ L \in [Sem -> Seq(Thread)]
      /\ d.next_tcb \in [Thread -> Thread \cup {NULL}]
      /\ d.bthreads_root \in [Sem -> Thread \cup {NULL}]
    BY DEF ListsAre, SchedType
<1>2. \A i, j \in 1 .. Len(w) : i <= j => Priority[w[i]] <= Priority[w[j]]
    BY <1>1 DEF ListOf
<1>3. /\ d.bthreads_root[sem] = RootOf(w) /\ e.state = d.state
      /\ e.next_tcb = list.next_tcb
      /\ e.bthreads_root = [d.bthreads_root EXCEPT ![sem] = list.root]
    BY <1>1 DEF ListOf, Spliced
<1>4. PICK r : r = list
    OBVIOUS
<1>5. Joined(r, d.next_tcb, w, t)
    <2>1. Path(d.next_tcb, w, NULL) /\ \A i \in 1 .. Len(w) : w[i] # t
        BY <1>1 DEF ListOf
    <2>. HIDE DEF w
    <2>. QED BY <1>1, <1>2, <1>4, <2>1, InsertWalks
<1>6. PICK x : Placed(x, w, t) /\ Path(r.next_tcb, x, NULL) /\ r.root = RootOf(x)
    BY <1>5 DEF Joined
<1>7. e.next_tcb = r.next_tcb /\ e.bthreads_root = [d.bthreads_root EXCEPT ![sem] = r.root]
    BY <1>3, <1>4
<1>. HIDE DEF w, list
<1>8. /\ x \in Seq(Thread)
      /\ \A i \in 1 .. Len(x) : x[i] = t \/ \E j \in 1 .. Len(w) : x[i] = w[j]
      /\ \A i, j \in 1 .. Len(x) : i <= j => Priority[x[i]] <= Priority[x[j]]
    BY <1>1, <1>2, <1>6, PlacedSorted
<1>9. ListOf(e, own, sem, x)
    <2>1. e.bthreads_root[sem] = RootOf(x)
        BY <1>1, <1>6, <1>7
    <2>2. \A i \in 1 .. Len(x) : e.state[x[i]] = "BLOCKED" /\ own[x[i]] = sem
        BY <1>1, <1>3, <1>8 DEF ListOf
    <2>. QED BY <1>6, <1>7, <1>8, <2>1, <2>2 DEF ListOf
<1>10. ASSUME NEW i \in Sem, i # sem PROVE ListOf(e, own, i, L[i])
    <2>1. ListOf(d, own, i, L[i])
        BY DEF ListsAre
    <2>2. ASSUME NEW j \in 1 .. Len(L[i]) PROVE e.next_tcb[L[i][j]] = d.next_tcb[L[i][j]]
        <3>0. L[i][j] \in Thread
            BY <2>1, ListPlain
        <3>1. L[i][j] \in Thread /\ L[i][j] # t /\ own[L[i][j]] = i
            BY <2>1, <3>0 DEF ListOf
        <3>2. \A k \in 1 .. Len(w) : L[i][j] # w[k]
            BY <3>1, <1>1, <1>10 DEF ListOf
        <3>. QED BY <3>1, <3>2, <1>5, <1>7 DEF Joined
    <2>3. e.bthreads_root[i] = d.bthreads_root[i]
        BY <1>1, <1>7, <1>10
    <2>4. \A j \in 1 .. Len(L[i]) : e.state[L[i][j]] = "BLOCKED"
        BY <2>1, <1>3 DEF ListOf
    <2>. QED BY <2>1, <2>2, <2>3, <2>4, ListOfFrame
<1>11. ListsAre(e, own, [L EXCEPT ![sem] = x])
    <2> DEFINE M == [L EXCEPT ![sem] = x]
    <2>1. M \in [Sem -> Seq(Thread)] /\ \A i \in Sem : ListOf(e, own, i, M[i])
        BY <1>1, <1>8, <1>9, <1>10
    <2>. HIDE DEF M
    <2>2. ListsAre(e, own, M)
        BY <2>1 DEF ListsAre
    <2>. QED BY <2>2 DEF M
<1>. QED BY <1>6, <1>11 DEF w

\* schedule() leaves the lists alone.
LEMMA ScheduleKeepsLists ==
    ASSUME NEW s \in SchedType, RingsOK(s),
           \A u \in Thread : s.state[u] = "RUNNING" => u = s.RunPt,
           NEW own, NEW L, ListsAre(s, own, L), NEW r, r = Schedule(s)
    PROVE  ListsAre(r, own, L)
<1>1. /\ r.next_tcb = s.next_tcb /\ r.bthreads_root = s.bthreads_root
      /\ \A u \in Thread : s.state[u] \notin InRing => r.state[u] = s.state[u]
    BY ScheduleRings
<1>2. ASSUME NEW i \in Sem PROVE ListOf(r, own, i, L[i])
    <2>1. ListOf(s, own, i, L[i])
        BY DEF ListsAre
    <2>2. ASSUME NEW j \in 1 .. Len(L[i]) PROVE r.state[L[i][j]] = "BLOCKED"
        <3>0. L[i][j] \in Thread
            BY <2>1, ListPlain
        <3>1. L[i][j] \in Thread /\ s.state[L[i][j]] = "BLOCKED"
            BY <2>1, <3>0 DEF ListOf
        <3>. QED BY <3>1, <1>1 DEF InRing
    <2>. QED BY <2>1, <2>2, <1>1, ListOfFrame
<1>. QED BY <1>2 DEF ListsAre

\* sched_block takes the running thread from its ring to the list of sem.
LEMMA BlockWalks ==
    ASSUME NEW s \in SchedType, ListsOK(s), NEW t \in Thread, t = s.RunPt,
           \A u \in Thread : s.state[u] = "RUNNING" <=> u = s.RunPt,
           NEW sem \in Sem, NEW own, own[t] = sem,
           NEW W, RingsAre(s, W), NEW L, ListsAre(s, own, L),
           NEW r, r = SchedBlock(s, sem)
    PROVE  /\ ChoiceMade(r, [W EXCEPT ![Priority[t]] = Front(@)], r.NextRunPt)
           /\ \E x : Placed(x, L[sem], t) /\ ListsAre(r, own, [L EXCEPT ![sem] = x])
<1> DEFINE p == Priority[t]
<1>1. PICK d, e : BlockedIn(s, sem, d, e)
    BY SchedBlockParts
<1>2. /\ d = Leave(s, t, "BLOCKED")
      /\ d \in SchedType /\ d.next_tcb[t] = NULL
      /\ d.state = [s.state EXCEPT ![t] = "BLOCKED"]
      /\ d.bthreads_root = s.bthreads_root
      /\ \A u \in Thread \ Linked(s) : d.next_tcb[u] = s.next_tcb[u]
      /\ Spliced(d, e, t, sem)
      /\ e \in SchedType /\ RingsOK(e)
      /\ e.ThreadSchedule = d.ThreadSchedule
      /\ \A u \in Thread \ Blocked(d) : e.next_tcb[u] = d.next_tcb[u]
      /\ \A u \in Thread : e.state[u] # "RUNNING"
      /\ r = Schedule(e)
    BY <1>1 DEF BlockedIn
<1>3. /\ p \in Level /\ RingsOK(s) /\ s.state[t] = "RUNNING"
      /\ s.state \in [Thread -> ThreadState]
      /\ W \in [Level -> Seq(Thread)] /\ \A q \in Level : RingOf(s, q, W[q])
      /\ \A u \in Thread : s.state[u] = "RUNNING" <=> u = t
    BY ThreadsAssumption DEF ListsOK, SchedType, RingsAre
<1>4. /\ RingOf(d, p, Front(W[p])) /\ Front(W[p]) \in Seq(Thread)
      /\ \A q \in Level : q # p => RingOf(d, q, W[q])
    <2>1. /\ RingOf(d, p, Front(W[p]))
          /\ \A q \in Level : q # p => RingOf(d, q, W[q])
        BY <1>2, <1>3, LeaveWalks
    <2>. QED BY <2>1, RingPlain
<1> DEFINE y == Front(W[p])
           V == [W EXCEPT ![p] = y]
<1>5. /\ V = [W EXCEPT ![p] = Front(@)]
      /\ V \in [Level -> Seq(Thread)] /\ \A q \in Level : RingOf(d, q, V[q])
    <2>1. V = [W EXCEPT ![p] = Front(@)]
        OBVIOUS
    <2>2. y \in Seq(Thread) /\ RingOf(d, p, y)
        BY <1>4
    <2>. HIDE DEF y
    <2>3. V \in [Level -> Seq(Thread)] /\ \A q \in Level : RingOf(d, q, V[q])
        BY <2>2, <1>3, <1>4
    <2>. HIDE DEF V
    <2>. QED BY <2>1, <2>3
<1>. HIDE DEF y, V
<1>6. e.state = d.state
    BY <1>2 DEF Spliced
<1>7. RingsAre(e, V)
    <2>. SUFFICES ASSUME NEW q \in Level PROVE RingOf(e, q, V[q])
        BY <1>5 DEF RingsAre
    <2>1. RingOf(d, q, V[q])
        BY <1>5
    <2>2. ASSUME NEW i \in 1 .. Len(V[q])
          PROVE  /\ e.next_tcb[V[q][i]] = d.next_tcb[V[q][i]]
                 /\ e.state[V[q][i]] = d.state[V[q][i]] /\ d.state[V[q][i]] \in InRing
        <3>0. V[q][i] \in Thread
            BY <2>1, RingPlain
        <3>1. V[q][i] \in Thread /\ d.state[V[q][i]] \in InRing
            BY <2>1, <3>0 DEF RingOf
        <3>2. V[q][i] \notin Blocked(d)
            BY <3>1 DEF Blocked, InRing
        <3>. QED BY <3>1, <3>2, <1>2, <1>6
    <2>3. At(e, InRing, q) = At(d, InRing, q)
        BY <1>6 DEF At
    <2>. QED BY <2>1, <2>2, <2>3, <1>2, RingOfFrame
<1>8. ChoiceMade(r, V, r.NextRunPt)
    BY <1>2, <1>7, ScheduleWalks
<1>9. \A i \in Sem : \A j \in 1 .. Len(L[i]) :
         /\ L[i][j] \in Thread /\ L[i][j] # t /\ L[i][j] \notin Linked(s)
         /\ s.state[L[i][j]] = "BLOCKED"
    <2>. SUFFICES ASSUME NEW i \in Sem, NEW j \in 1 .. Len(L[i])
                  PROVE  /\ L[i][j] \in Thread /\ L[i][j] # t /\ L[i][j] \notin Linked(s)
                         /\ s.state[L[i][j]] = "BLOCKED"
        OBVIOUS
    <2>1. ListOf(s, own, i, L[i])
        BY DEF ListsAre
    <2>2. L[i][j] \in Thread
        BY <2>1, ListPlain
    <2>3. s.state[L[i][j]] = "BLOCKED"
        BY <2>1 DEF ListOf
    <2>. QED BY <2>2, <2>3, <1>3 DEF Linked, InRing
<1>10. ListsAre(d, own, L)
    <2>1. L \in [Sem -> Seq(Thread)]
        BY DEF ListsAre
    <2>. SUFFICES ASSUME NEW i \in Sem PROVE ListOf(d, own, i, L[i])
        BY <2>1 DEF ListsAre
    <2>2. ListOf(s, own, i, L[i])
        BY DEF ListsAre
    <2>3. \A j \in 1 .. Len(L[i]) : /\ d.next_tcb[L[i][j]] = s.next_tcb[L[i][j]]
                                    /\ d.state[L[i][j]] = "BLOCKED"
        BY <1>2, <1>3, <1>9
    <2>. QED BY <2>2, <2>3, <1>2, ListOfFrame
<1>11. d.state[t] = "BLOCKED"
    BY <1>2, <1>3
<1>12. PICK x : Placed(x, L[sem], t) /\ ListsAre(e, own, [L EXCEPT ![sem] = x])
    BY <1>2, <1>9, <1>10, <1>11, SplicedWalks
<1>13. ListsAre(r, own, [L EXCEPT ![sem] = x])
    BY <1>2, <1>12, ScheduleKeepsLists
<1>. QED BY <1>5, <1>8, <1>12, <1>13

-----------------------------------------------------------------------------
(* Each step of the kernel is a step of the queues.                          *)

\* Every ring and every list of the scheduler is a sequence of threads.
WalksWell == \E W, L : RingsAre(sch, W) /\ ListsAre(sch, on, L)

\* What a step does to the lists, the queues do.
Followed == WalksWell' /\ [Queues!Next]_(Queues!vars)

\* The sequences are those that the walks read.
LEMMA RingsRead ==
    ASSUME NEW s, NEW W, RingsAre(s, W)
    PROVE  [p \in Level |-> WaitingTurn(s.state, Walk(s.next_tcb, s.ThreadSchedule[p]))]
              = Turns(s, W)
<1>1. ASSUME NEW p \in Level PROVE Walk(s.next_tcb, s.ThreadSchedule[p]) = W[p]
    <2> DEFINE w == W[p]
               end == RootOf(w)
    <2>1. RingOf(s, p, w)
        BY DEF RingsAre
    <2>2. Path(s.next_tcb, w, end) /\ s.ThreadSchedule[p] = RootOf(w)
        BY <2>1 DEF RingOf
    <2>3. end \in {RootOf(w), NULL}
        OBVIOUS
    <2>. HIDE DEF w, end
    <2>4. Walk(s.next_tcb, RootOf(w)) = w
        BY <2>2, <2>3, WalkIs
    <2>. QED BY <2>2, <2>4 DEF w
<1>. QED BY <1>1 DEF Turns

\* So are the lists.
LEMMA ListsRead ==
    ASSUME NEW s, NEW own, NEW L, ListsAre(s, own, L)
    PROVE  [sem \in Sem |-> Walk(s.next_tcb, s.bthreads_root[sem])] = L
<1>1. ASSUME NEW sem \in Sem PROVE Walk(s.next_tcb, s.bthreads_root[sem]) = L[sem]
    <2> DEFINE w == L[sem]
    <2>1. ListOf(s, own, sem, w)
        BY DEF ListsAre
    <2>2. Path(s.next_tcb, w, NULL) /\ s.bthreads_root[sem] = RootOf(w)
        BY <2>1 DEF ListOf
    <2>3. NULL \in {RootOf(w), NULL}
        OBVIOUS
    <2>. HIDE DEF w
    <2>4. Walk(s.next_tcb, RootOf(w)) = w
        BY <2>2, <2>3, WalkIs
    <2>. QED BY <2>2, <2>4 DEF w
<1>. QED BY <1>1 DEF ListsAre

\* What the refinement mapping reads of a state.
LEMMA QueuesAre ==
    ASSUME NEW W, NEW L, RingsAre(sch, W), ListsAre(sch, on, L)
    PROVE  Ready = Turns(sch, W) /\ Waiters = L
<1>1. Ready = Turns(sch, W)
    BY RingsRead DEF Ready
<1>2. Waiters = L
    BY ListsRead DEF Waiters
<1>. QED BY <1>1, <1>2

\* What it reads of the state that follows.
LEMMA QueuesBecome ==
    ASSUME NEW W, NEW L, RingsAre(sch', W), ListsAre(sch', on', L)
    PROVE  WalksWell' /\ Ready' = Turns(sch', W) /\ Waiters' = L
<1>1. Ready' = Turns(sch', W)
    BY RingsRead DEF Ready
<1>2. Waiters' = L
    BY ListsRead DEF Waiters
<1>. QED BY <1>1, <1>2 DEF WalksWell

\* While no thread runs, all of a ring waits its turn.
LEMMA TurnsPlain ==
    ASSUME NEW s, NEW W, RingsAre(s, W), \A u \in Thread : s.state[u] # "RUNNING"
    PROVE  Turns(s, W) = W
<1>1. \A u \in Thread : s.state[u] = "RUNNING" <=> u = NULL
    BY ThreadsAssumption
<1>2. ASSUME NEW p \in Level PROVE WaitingTurn(s.state, W[p]) = W[p]
    <2>1. RingOf(s, p, W[p])
        BY DEF RingsAre
    <2>. QED BY <2>1, <1>1, TurnIs, ThreadsAssumption
<1>. QED BY <1>2 DEF Turns, RingsAre

\* The running thread ends the ring of its level, if it is not idle.
LEMMA TurnsOfOthers ==
    ASSUME NEW s, NEW W, RingsAre(s, W), NEW t,
           \A u \in Thread : s.state[u] = "RUNNING" <=> u = t
    PROVE  /\ t \in Thread => /\ Turns(s, W) = [W EXCEPT ![Priority[t]] = Front(@)]
                              /\ [Turns(s, W) EXCEPT ![Priority[t]] = Append(@, t)] = W
           /\ t \notin Thread => Turns(s, W) = W
<1>1. ASSUME NEW p \in Level
      PROVE  /\ t \in Thread /\ Priority[t] = p =>
                   WaitingTurn(s.state, W[p]) = Front(W[p]) /\ Append(Front(W[p]), t) = W[p]
             /\ ~(t \in Thread /\ Priority[t] = p) => WaitingTurn(s.state, W[p]) = W[p]
    <2> DEFINE w == W[p]
    <2>1. RingOf(s, p, w)
        BY DEF RingsAre
    <2>. HIDE DEF w
    <2>2. /\ t \in Thread /\ Priority[t] = p =>
                 WaitingTurn(s.state, w) = Front(w) /\ Append(Front(w), t) = w
          /\ ~(t \in Thread /\ Priority[t] = p) => WaitingTurn(s.state, w) = w
        BY <2>1, TurnIs
    <2>. QED BY <2>2 DEF w
<1>2. W \in [Level -> Seq(Thread)]
    BY DEF RingsAre
<1>3. CASE t \notin Thread
    BY <1>1, <1>2, <1>3 DEF Turns
<1>4. CASE t \in Thread
    <2>1. Priority[t] \in Level
        BY <1>4, ThreadsAssumption
    <2> DEFINE T == Turns(s, W)
    <2>2. /\ T = [q \in Level |-> T[q]]
          /\ T[Priority[t]] = Front(W[Priority[t]])
          /\ Append(Front(W[Priority[t]]), t) = W[Priority[t]]
          /\ \A q \in Level : q # Priority[t] => T[q] = W[q]
        BY <1>1, <1>4, <2>1 DEF Turns
    <2>. HIDE DEF T
    <2>3. T = [W EXCEPT ![Priority[t]] = Front(@)]
        BY <2>1, <2>2, <1>2
    <2>4. [T EXCEPT ![Priority[t]] = Append(@, t)] = W
        BY <2>1, <2>2, <1>2
    <2>. QED BY <2>3, <2>4, <1>4 DEF T
<1>. QED BY <1>3, <1>4

\* add_thread creates its thread.
LEMMA AddThreadFollowed ==
    ASSUME Inductive, NEW W, NEW L, RingsAre(sch, W), ListsAre(sch, on, L),
           NEW t \in Thread, AddThread(t)
    PROVE  Followed
<1> DEFINE p == Priority[t]
           V == [W EXCEPT ![p] = <<t>> \o @]
<1>1. /\ sch \in SchedType /\ RingsOK(sch) /\ NULL \notin Thread /\ p \in Level
      /\ sch.RunPt = NULL /\ ~sch.pendsv
      /\ \A u \in Thread : sch.state[u] \in {"NONE", "ACTIVE"}
      /\ sch.state[t] = "NONE" /\ sch' = EnqueueThread(sch, t) /\ on' = on
      /\ W \in [Level -> Seq(Thread)] /\ L \in [Sem -> Seq(Thread)]
    BY ThreadsAssumption
    DEF Inductive, TypeOK, KernelInv, ListsOK, AddThread, Booting, RingsAre, ListsAre
<1>2. t \notin Linked(sch)
    BY <1>1 DEF Linked, InRing
<1>3. /\ sch'.state = [sch.state EXCEPT ![t] = "ACTIVE"]
      /\ sch'.bthreads_root = sch.bthreads_root
      /\ sch'.RunPt = sch.RunPt /\ sch'.pendsv = sch.pendsv
    BY <1>1, <1>2, EnqueueRings
<1>4. \A u \in Thread : sch'.state[u] \in {"NONE", "ACTIVE"}
    BY <1>1, <1>3 DEF SchedType
<1>5. RingsAre(sch', V)
    <2>1. /\ RingOf(sch', p, <<t>> \o W[p])
          /\ \A q \in Level : q # p => RingOf(sch', q, W[q])
        BY <1>1, <1>2, EnqueueWalks DEF RingsAre
    <2>2. <<t>> \o W[p] \in Seq(Thread)
        BY <1>1
    <2>3. V \in [Level -> Seq(Thread)] /\ V[p] = <<t>> \o W[p]
          /\ \A q \in Level : q # p => V[q] = W[q]
        BY <1>1, <2>2
    <2>. HIDE DEF V
    <2>4. ASSUME NEW q \in Level PROVE RingOf(sch', q, V[q])
        BY <2>1, <2>3
    <2>. QED BY <2>3, <2>4 DEF RingsAre
<1>6. \A sem \in Sem : L[sem] = <<>>
    <2>. SUFFICES ASSUME NEW sem \in Sem PROVE L[sem] = <<>>
        OBVIOUS
    <2>1. ListOf(sch, on, sem, L[sem])
        BY DEF ListsAre
    <2>2. /\ Len(L[sem]) \in Nat /\ (L[sem] = <<>> <=> Len(L[sem]) = 0)
          /\ \A i \in 1 .. Len(L[sem]) : L[sem][i] \in Thread
        BY <2>1, ListPlain
    <2>3. \A i \in 1 .. Len(L[sem]) : sch.state[L[sem][i]] = "BLOCKED"
        BY <2>1 DEF ListOf
    <2>4. Len(L[sem]) # 0 => 1 \in 1 .. Len(L[sem])
        BY <2>2
    <2>. QED BY <2>2, <2>3, <2>4, <1>1
<1>7. ListsAre(sch', on', L)
    <2>. SUFFICES ASSUME NEW sem \in Sem PROVE ListOf(sch', on, sem, L[sem])
        BY <1>1 DEF ListsAre
    <2>1. ListOf(sch, on, sem, L[sem]) /\ L[sem] = <<>>
        BY <1>6 DEF ListsAre
    <2>2. Len(L[sem]) = 0
        BY <2>1
    <2>3. \A i \in 1 .. Len(L[sem]) : FALSE
        BY <2>2
    <2>. QED BY <2>1, <2>3, <1>3, ListOfFrame
<1>8. Ready = W /\ Waiters = L
    BY <1>1, QueuesAre, TurnsPlain
<1>9. WalksWell' /\ Ready' = V /\ Waiters' = L
    BY <1>4, <1>5, <1>7, QueuesBecome, TurnsPlain
<1>10. ~Queues!Placed(t)
    <2>1. \A q \in Level : t \notin Queues!ToSet(W[q])
        <3>. SUFFICES ASSUME NEW q \in Level, t \in Queues!ToSet(W[q]) PROVE FALSE
            OBVIOUS
        <3>1. PICK i \in 1 .. Len(W[q]) : t = W[q][i]
            BY <1>1 DEF Queues!ToSet
        <3>2. RingOf(sch, q, W[q])
            BY DEF RingsAre
        <3>. QED BY <3>1, <3>2, <1>1 DEF RingOf, InRing
    <2>2. \A sem \in Sem : t \notin Queues!ToSet(L[sem])
        BY <1>6 DEF Queues!ToSet
    <2>3. Pending = NULL /\ t # NULL /\ t # sch.RunPt
        BY <1>1 DEF Pending
    <2>4. /\ \A q \in Queues!Levels : t \notin Queues!ToSet(Ready[q])
          /\ \A sem \in Sem : t \notin Queues!ToSet(Waiters[sem])
        BY <2>1, <2>2, <1>8 DEF Queues!Levels, Level
    <2>. HIDE DEF V
    <2>. QED BY <2>3, <2>4, Zenon DEF Queues!Placed
<1>11. Queues!Create(t)
    BY <1>1, <1>3, <1>8, <1>9, <1>10 DEF Queues!Create, Pending
<1>. QED BY <1>9, <1>11 DEF Followed, Queues!Next

\* init_scheduler starts the first thread.
LEMMA InitSchedulerFollowed ==
    ASSUME Inductive, NEW W, NEW L, RingsAre(sch, W), ListsAre(sch, on, L),
           InitScheduler
    PROVE  Followed
<1>1. /\ sch \in SchedType /\ RingsOK(sch) /\ NULL \notin Thread
      /\ sch.RunPt = NULL /\ ~sch.pendsv
      /\ \A u \in Thread : sch.state[u] \in {"NONE", "ACTIVE"}
      /\ sch' = Launch(sch) /\ on' = on
      /\ L \in [Sem -> Seq(Thread)]
    BY ThreadsAssumption
    DEF Inductive, TypeOK, KernelInv, ListsOK, InitScheduler, Booting, ListsAre
<1>2. \A u \in Thread : sch.state[u] # "RUNNING"
    BY <1>1
<1>3. /\ sch'.pendsv = sch.pendsv
      /\ sch'.bthreads_root = sch.bthreads_root
      /\ sch'.next_tcb = sch.next_tcb
      /\ \A u \in Thread : sch.state[u] \notin InRing => sch'.state[u] = sch.state[u]
    BY <1>1, <1>2, LaunchRings
<1>4. ChoiceMade(sch', W, sch'.RunPt)
    BY <1>1, <1>2, LaunchWalks
<1>5. ListsAre(sch', on', L)
    <2>. SUFFICES ASSUME NEW sem \in Sem PROVE ListOf(sch', on, sem, L[sem])
        BY <1>1 DEF ListsAre
    <2>1. ListOf(sch, on, sem, L[sem])
        BY DEF ListsAre
    <2>2. \A i \in 1 .. Len(L[sem]) : L[sem][i] \in Thread
        BY <2>1, ListPlain
    <2>3. \A i \in 1 .. Len(L[sem]) : sch.state[L[sem][i]] = "BLOCKED"
        BY <2>1 DEF ListOf
    <2>4. \A i \in 1 .. Len(L[sem]) : sch'.state[L[sem][i]] = "BLOCKED"
        BY <2>2, <2>3, <1>3 DEF InRing
    <2>. QED BY <2>1, <2>4, <1>3, ListOfFrame
<1>6. Ready = W /\ Waiters = L
    BY <1>2, QueuesAre, TurnsPlain
<1>7. PICK V : RingsAre(sch', V) /\ Turns(sch', V) = Queues!Without(W, sch'.RunPt)
    BY <1>4 DEF ChoiceMade
<1>8. WalksWell' /\ Ready' = Queues!Without(W, sch'.RunPt) /\ Waiters' = L
    BY <1>5, <1>7, QueuesBecome
<1>9. sch'.RunPt = Queues!Best(W)
    BY <1>4 DEF ChoiceMade
<1>10. Queues!Start
    BY <1>1, <1>3, <1>6, <1>8, <1>9 DEF Queues!Start, Pending
<1>. QED BY <1>8, <1>10 DEF Followed, Queues!Next

\* A tick outside the PendSV window ends a slice.
LEMMA TickFollowed ==
    ASSUME Inductive, NEW W, NEW L, RingsAre(sch, W), ListsAre(sch, on, L),
           SlottedTick
    PROVE  Followed
<1> DEFINE t == sch.RunPt
<1>1. /\ sch \in SchedType /\ RingsOK(sch)
      /\ \A u \in Thread : sch.state[u] = "RUNNING" <=> u = t
      /\ t # NULL /\ ~sch.pendsv /\ t \in Thread \cup {IdleThread, NULL}
      /\ sch' = Schedule(sch) /\ on' = on /\ IdleThread \notin Thread
    BY RunsAlone, ThreadsAssumption
    DEF Inductive, TypeOK, KernelInv, ListsOK, SlottedTick, SysTick, Booting, SchedType
<1>2. sch'.pendsv /\ sch'.RunPt = t
    BY <1>1, ScheduleRings
<1>3. ChoiceMade(sch', W, sch'.NextRunPt)
    BY <1>1, ScheduleWalks
<1>4. ListsAre(sch', on', L)
    BY <1>1, ScheduleKeepsLists
<1>5. Ready = Turns(sch, W) /\ Waiters = L
    BY QueuesAre
<1>6. PICK V : RingsAre(sch', V) /\ Turns(sch', V) = Queues!Without(W, sch'.NextRunPt)
    BY <1>3 DEF ChoiceMade
<1>7. WalksWell' /\ Ready' = Queues!Without(W, sch'.NextRunPt) /\ Waiters' = L
    BY <1>4, <1>6, QueuesBecome
<1>8. sch'.NextRunPt = Queues!Best(W)
    BY <1>3 DEF ChoiceMade
<1>9. W = IF t = IdleThread THEN Ready
          ELSE [Ready EXCEPT ![Priority[t]] = Append(@, t)]
    BY <1>1, <1>5, TurnsOfOthers
<1>10. Pending = NULL /\ Pending' = sch'.NextRunPt
    BY <1>1, <1>2 DEF Pending
<1>. HIDE DEF t
<1>11. /\ Pending' = Queues!Best(W) /\ Ready' = Queues!Without(W, Queues!Best(W))
    BY <1>7, <1>8, <1>10
<1>12. Queues!Dispatch(W)
    BY <1>11 DEF Queues!Dispatch
<1>13. Queues!SliceEnds
    <2>1. Queues!Dispatch(IF sch.RunPt = IdleThread THEN Ready
                ELSE [Ready EXCEPT ![Priority[sch.RunPt]] = Append(@, sch.RunPt)])
        BY <1>9, <1>12 DEF t
    <2>. QED BY <2>1, <1>1, <1>2, <1>5, <1>7, <1>10 DEF Queues!SliceEnds, t
<1>. QED BY <1>7, <1>13 DEF Followed, Queues!Next

\* pendSV_handler switches to the thread that was chosen.
LEMMA ContextSwitchFollowed ==
    ASSUME Inductive, NEW W, NEW L, RingsAre(sch, W), ListsAre(sch, on, L),
           ContextSwitch
    PROVE  Followed
<1>1. /\ sch \in SchedType /\ NULL \notin Thread /\ IdleThread # NULL
      /\ sch.pendsv /\ sch.NextRunPt # NULL /\ on' = on
      /\ sch' = [sch EXCEPT !.RunPt = sch.NextRunPt, !.pendsv = FALSE]
      /\ W \in [Level -> Seq(Thread)] /\ L \in [Sem -> Seq(Thread)]
    BY ThreadsAssumption
    DEF Inductive, TypeOK, KernelInv, ContextSwitch, PendSV, Booting, RingsAre, ListsAre
<1>2. /\ sch'.RunPt = sch.NextRunPt /\ sch'.pendsv = FALSE
      /\ sch'.state = sch.state /\ sch'.ThreadSchedule = sch.ThreadSchedule
      /\ sch'.next_tcb = sch.next_tcb
      /\ sch'.bthreads_root = sch.bthreads_root
    BY <1>1 DEF SchedType
<1>3. RingsAre(sch', W)
    <2>1. \A q \in Level : RingOf(sch, q, W[q])
        BY DEF RingsAre
    <2>2. \A q \in Level : RingOf(sch', q, W[q])
        BY <2>1, <1>2 DEF RingOf, At
    <2>. QED BY <2>2, <1>1 DEF RingsAre
<1>4. ListsAre(sch', on', L)
    <2>1. \A sem \in Sem : ListOf(sch, on, sem, L[sem])
        BY DEF ListsAre
    <2>2. \A sem \in Sem : ListOf(sch', on', sem, L[sem])
        BY <2>1, <1>1, <1>2 DEF ListOf
    <2>. QED BY <2>2, <1>1 DEF ListsAre
<1>5. Turns(sch', W) = Turns(sch, W)
    BY <1>2 DEF Turns, WaitingTurn
<1>6. Ready = Turns(sch, W) /\ Waiters = L
    BY QueuesAre
<1>7. WalksWell' /\ Ready' = Turns(sch', W) /\ Waiters' = L
    BY <1>3, <1>4, QueuesBecome
<1>8. Queues!Switch
    BY <1>1, <1>2, <1>5, <1>6, <1>7 DEF Queues!Switch, Pending
<1>. QED BY <1>7, <1>8 DEF Followed, Queues!Next

\* A step that leaves the scheduler and the blocked threads alone.
LEMMA NothingFollowed ==
    ASSUME NEW W, NEW L, RingsAre(sch, W), ListsAre(sch, on, L),
           sch' = sch,
           \A u \in Thread : sch.state[u] = "BLOCKED" => on'[u] = on[u]
    PROVE  Followed
<1>1. RingsAre(sch', W)
    OBVIOUS
<1>2. ListsAre(sch', on', L)
    <2>1. ASSUME NEW sem \in Sem PROVE ListOf(sch', on', sem, L[sem])
        <3> DEFINE w == L[sem]
        <3>1. ListOf(sch, on, sem, w)
            BY DEF ListsAre
        <3>. HIDE DEF w
        <3>2. \A i \in 1 .. Len(w) : w[i] \in Thread
            BY <3>1, ListPlain
        <3>3. \A i \in 1 .. Len(w) : sch.state[w[i]] = "BLOCKED"
            BY <3>1 DEF ListOf
        <3>4. \A i \in 1 .. Len(w) : on'[w[i]] = on[w[i]]
            BY <3>2, <3>3
        <3>5. ListOf(sch, on', sem, w)
            BY <3>1, <3>4 DEF ListOf
        <3>. QED BY <3>5 DEF w
    <2>. QED BY <2>1 DEF ListsAre
<1>3. Ready = Turns(sch, W) /\ Waiters = L
    BY QueuesAre
<1>4. WalksWell' /\ Ready' = Turns(sch', W) /\ Waiters' = L
    BY <1>1, <1>2, QueuesBecome
<1>5. UNCHANGED Queues!vars
    BY <1>3, <1>4 DEF Queues!vars, Pending
<1>. QED BY <1>4, <1>5 DEF Followed

\* A wait up to its end or its failed test: only the caller, which is not
\* blocked, changes what it waits for.
LEMMA WaitFollowed ==
    ASSUME Inductive, NEW W, NEW L, RingsAre(sch, W), ListsAre(sch, on, L),
           NEW t \in Thread, NEW sem \in Sem, CWait(t, sem) \/ BWait(t, sem)
    PROVE  Followed
<1>1. sch' = sch
    BY WaitStep
<1>2. Executing(t)
    BY DEF CWait, BWait, AtTest
<1>3. sch.state[t] = "RUNNING"
    BY <1>2, RunsAlone DEF Executing
<1>4. on \in [Thread -> Sem \cup {NULL}]
    BY DEF Inductive, TypeOK
<1>5. \E x : on' = [on EXCEPT ![t] = x]
    BY DEF CWait, BWait, Unavailable, Acquire
<1>6. \A u \in Thread : sch.state[u] = "BLOCKED" => on'[u] = on[u]
    BY <1>3, <1>4, <1>5
<1>. QED BY <1>1, <1>6, NothingFollowed

\* A wait that blocks queues the running thread behind its peers.
LEMMA BlockFollowed ==
    ASSUME Inductive, NEW W, NEW L, RingsAre(sch, W), ListsAre(sch, on, L),
           NEW t \in Thread, Block(t)
    PROVE  Followed
<1> DEFINE sem == on[t]
           Q == [W EXCEPT ![Priority[t]] = Front(@)]
<1>1. /\ sch \in SchedType /\ ListsOK(sch)
      /\ t = sch.RunPt /\ ~sch.pendsv /\ NULL \notin Thread
      /\ \A u \in Thread : sch.state[u] = "RUNNING" <=> u = sch.RunPt
      /\ sem \in Sem /\ sch' = SchedBlock(sch, sem) /\ on' = on
      /\ L \in [Sem -> Seq(Thread)]
    BY RunsAlone, ThreadsAssumption
    DEF Inductive, TypeOK, KernelInv, Block, Executing, ListsAre
<1>2. sch'.pendsv /\ sch'.RunPt = t
    BY <1>1, SchedBlockLists
<1>3. /\ ChoiceMade(sch', Q, sch'.NextRunPt)
      /\ \E x : Placed(x, L[sem], t) /\ ListsAre(sch', on, [L EXCEPT ![sem] = x])
    BY <1>1, BlockWalks
<1>4. PICK x : Placed(x, L[sem], t) /\ ListsAre(sch', on, [L EXCEPT ![sem] = x])
    BY <1>3
<1>5. Ready = Q /\ Waiters = L
    <2>1. Ready = Turns(sch, W) /\ Waiters = L
        BY QueuesAre
    <2>. HIDE DEF Q
    <2>2. \A u \in Thread : sch.state[u] = "RUNNING" <=> u = t
        BY <1>1
    <2>3. Turns(sch, W) = [W EXCEPT ![Priority[t]] = Front(@)]
        BY <2>2, TurnsOfOthers
    <2>. QED BY <2>1, <2>3 DEF Q
<1>. HIDE DEF Q
<1>6. PICK V : RingsAre(sch', V) /\ Turns(sch', V) = Queues!Without(Q, sch'.NextRunPt)
    BY <1>3 DEF ChoiceMade
<1>7. /\ WalksWell' /\ Ready' = Queues!Without(Q, sch'.NextRunPt)
      /\ Waiters' = [L EXCEPT ![sem] = x]
    BY <1>1, <1>4, <1>6, QueuesBecome
<1>8. sch'.NextRunPt = Queues!Best(Q)
    BY <1>3 DEF ChoiceMade
<1>9. Pending = NULL /\ Pending' = sch'.NextRunPt
    BY <1>1, <1>2 DEF Pending
<1>10. Queues!Dispatch(Ready)
    BY <1>5, <1>7, <1>8, <1>9 DEF Queues!Dispatch
<1>11. PICK k \in 0 .. Len(Waiters[sem]) :
          /\ \A i \in 1 .. k : Priority[Waiters[sem][i]] <= Priority[t]
          /\ \A i \in k + 1 .. Len(Waiters[sem]) : Priority[t] < Priority[Waiters[sem][i]]
          /\ x = Queues!InsertAt(Waiters[sem], k + 1, t)
    BY <1>4, <1>5 DEF Placed, InsertAt, Queues!InsertAt
<1>12. Waiters' = [Waiters EXCEPT ![sem] = Queues!InsertAt(@, k + 1, t)]
    BY <1>5, <1>7, <1>11
<1>. HIDE DEF sem
<1>13. Queues!Await(sem)
    <2>1. /\ t \in Thread /\ sch.RunPt = t /\ Pending = NULL /\ sch'.RunPt = sch.RunPt
        BY <1>1, <1>2, <1>9
    <2>. QED BY <2>1, <1>10, <1>11, <1>12 DEF Queues!Await
<1>. QED BY <1>1, <1>7, <1>13 DEF Followed, Queues!Next

\* A thread that is put before a ring is put before what waits its turn there.
LEMMA FrontOfPrepended ==
    ASSUME NEW w \in Seq(Thread), w # <<>>, NEW t \in Thread
    PROVE  Front(<<t>> \o w) = <<t>> \o Front(w)
<1> DEFINE x == <<t>> \o w
           f == Front(w)
           y == Front(x)
           z == <<t>> \o f
<1>1. /\ x \in Seq(Thread) /\ Len(x) = Len(w) + 1 /\ x # <<>>
      /\ x[1] = t /\ \A i \in 1 .. Len(w) : x[i + 1] = w[i]
    BY Prepended
<1>2. /\ f \in Seq(Thread) /\ Len(f) = Len(w) - 1
      /\ \A i \in 1 .. Len(w) - 1 : f[i] = w[i]
    BY WithoutLast
<1>3. Len(w) \in Nat \ {0}
    OBVIOUS
<1>. HIDE DEF f, x
<1>4. /\ y \in Seq(Thread) /\ Len(y) = Len(x) - 1
      /\ \A i \in 1 .. Len(x) - 1 : y[i] = x[i]
    BY <1>1, WithoutLast
<1>5. /\ z \in Seq(Thread) /\ Len(z) = Len(w)
      /\ z[1] = t /\ \A i \in 1 .. Len(w) - 1 : z[i + 1] = f[i]
    BY <1>2, <1>3, Prepended
<1>. HIDE DEF y, z
<1>6. Len(y) = Len(w) /\ \A i \in 1 .. Len(w) : y[i] = x[i]
    BY <1>1, <1>3, <1>4
<1>7. ASSUME NEW i \in 1 .. Len(w) PROVE y[i] = z[i]
    <2>1. CASE i = 1
        BY <2>1, <1>1, <1>5, <1>6
    <2>2. CASE i # 1
        <3>1. i - 1 \in 1 .. Len(w) - 1 /\ i - 1 \in 1 .. Len(w) /\ (i - 1) + 1 = i
            BY <2>2, <1>3
        <3>2. y[i] = w[i - 1]
            BY <3>1, <1>1, <1>6
        <3>3. z[i] = w[i - 1]
            BY <3>1, <1>2, <1>5
        <3>. QED BY <3>2, <3>3
    <2>. QED BY <2>1, <2>2
<1>8. y = z
    BY <1>3, <1>4, <1>5, <1>6, <1>7
<1>. QED BY <1>8 DEF x, y, z, f

\* c, if a thread at all, is the one that is RUNNING.
RunsOnly(s, c) == \A u \in Thread : s.state[u] = "RUNNING" <=> u = c

\* What waits its turn after a wakeup, the running thread being the same.
LEMMA TurnsWithWoken ==
    ASSUME NEW s, NEW r, NEW W, RingsAre(s, W), NEW t \in Thread,
           RingsAre(r, PutFirst(W, t)),
           NEW c, RunsOnly(s, c), RunsOnly(r, c)
    PROVE  Turns(r, PutFirst(W, t)) = PutFirst(Turns(s, W), t)
<1> DEFINE p == Priority[t]
           V == PutFirst(W, t)
           T == Turns(s, W)
<1>1. p \in Level /\ W \in [Level -> Seq(Thread)]
    BY ThreadsAssumption DEF RingsAre
<1>2. V[p] = <<t>> \o W[p] /\ (\A q \in Level : q # p => V[q] = W[q])
    BY <1>1 DEF PutFirst
<1>3. ASSUME NEW q \in Level
      PROVE  WaitingTurn(r.state, V[q]) =
                IF q = p THEN <<t>> \o WaitingTurn(s.state, W[q])
                ELSE WaitingTurn(s.state, W[q])
    <2>1. RingOf(s, q, W[q]) /\ RingOf(r, q, V[q])
        BY DEF RingsAre
    <2>. HIDE DEF V
    <2>2. CASE c \in Thread /\ Priority[c] = q
        <3>1. /\ WaitingTurn(s.state, W[q]) = Front(W[q]) /\ Append(Front(W[q]), c) = W[q]
              /\ WaitingTurn(r.state, V[q]) = Front(V[q])
            BY <2>1, <2>2, TurnIs DEF RunsOnly
        <3>2. s.state[c] = "RUNNING"
            BY <2>2 DEF RunsOnly
        <3>3. W[q] # <<>> /\ W[q] \in Seq(Thread)
            BY <2>1, <2>2, <3>2, <1>1, RunningLast
        <3>4. Front(<<t>> \o W[q]) = <<t>> \o Front(W[q])
            BY <3>3, FrontOfPrepended
        <3>. QED BY <3>1, <3>4, <1>2
    <2>3. CASE ~(c \in Thread /\ Priority[c] = q)
        <3>1. WaitingTurn(s.state, W[q]) = W[q] /\ WaitingTurn(r.state, V[q]) = V[q]
            BY <2>1, <2>3, TurnIs DEF RunsOnly
        <3>. QED BY <3>1, <1>2
    <2>. QED BY <2>2, <2>3
<1>4. Turns(r, V) = [q \in Level |-> WaitingTurn(r.state, V[q])]
    BY DEF Turns
<1>5. T = [q \in Level |-> WaitingTurn(s.state, W[q])]
    BY DEF Turns
<1>. HIDE DEF V, T
<1>6. Turns(r, V) = PutFirst(T, t)
    BY <1>1, <1>3, <1>4, <1>5 DEF PutFirst
<1>. QED BY <1>6 DEF V, T

\* A signal wakes the first waiter, if there is one.
LEMMA WakeFollowed ==
    ASSUME Inductive, NEW W, NEW L, RingsAre(sch, W), ListsAre(sch, on, L),
           NEW sem \in Sem, WakeFirst(sem), on' = on
    PROVE  Followed
<1>1. CASE sch.bthreads_root[sem] = NULL
    <2>1. sch' = sch
        BY <1>1 DEF WakeFirst
    <2>. QED BY <2>1, NothingFollowed
<1>2. CASE sch.bthreads_root[sem] # NULL
    <2>1. PICK t : t = sch.bthreads_root[sem]
        OBVIOUS
    <2>2. sch \in SchedType /\ ListsOK(sch) /\ sch' = SchedUnblock(sch, sem)
        BY <1>2 DEF Inductive, TypeOK, KernelInv, WakeFirst
    <2>3. /\ t \in Thread /\ L[sem] # <<>> /\ Head(L[sem]) = t
          /\ RingsAre(sch', PutFirst(W, t)) /\ ListsAre(sch', on, Served(L, sem))
          /\ sch'.state = [sch.state EXCEPT ![t] = "ACTIVE"]
          /\ sch'.RunPt = sch.RunPt /\ sch'.NextRunPt = sch.NextRunPt
          /\ sch'.pendsv = sch.pendsv
        BY <1>2, <2>1, <2>2, UnblockWalks
    <2>4. t \in Blocked(sch)
        BY <1>2, <2>1, <2>2, SchedUnblockLists
    <2> DEFINE V == PutFirst(W, t)
               M == Served(L, sem)
    <2>5. RingsAre(sch', V) /\ ListsAre(sch', on', M)
        BY <2>3
    <2>6. Turns(sch', V) = PutFirst(Turns(sch, W), t)
        <3>1. PICK c : RunsOnly(sch, c)
            BY DEF Inductive, KernelInv, RunsOnly
        <3>2. RunsOnly(sch', c)
            BY <2>2, <2>3, <2>4, <3>1 DEF SchedType, Blocked, RunsOnly
        <3>3. t \in Thread /\ RingsAre(sch', PutFirst(W, t))
            BY <2>3
        <3>. QED BY <3>1, <3>2, <3>3, TurnsWithWoken
    <2>7. Ready = Turns(sch, W) /\ Waiters = L
        BY QueuesAre
    <2>8. WalksWell' /\ Ready' = Turns(sch', V) /\ Waiters' = M
        BY <2>5, QueuesBecome
    <2>9. Pending' = Pending
        BY <2>3 DEF Pending
    <2>. HIDE DEF V
    <2>10. Queues!Wake(sem)
        BY <2>3, <2>6, <2>7, <2>8, <2>9 DEF Queues!Wake, PutFirst, Served
    <2>. QED BY <2>8, <2>10 DEF Followed, Queues!Next
<1>. QED BY <1>1, <1>2

\* Before the first add_thread every ring, list and queue is empty.
LEMMA InitFollowed == Init => WalksWell /\ Queues!Init
<1>. SUFFICES ASSUME Init PROVE WalksWell /\ Queues!Init
    OBVIOUS
<1> DEFINE W == [p \in Level |-> <<>>]
           L == [sem \in Sem |-> <<>>]
<1>1. /\ sch.RunPt = NULL /\ ~sch.pendsv
      /\ \A u \in Thread : sch.state[u] = "NONE"
      /\ \A p \in Level : sch.ThreadSchedule[p] = NULL
      /\ \A sem \in Sem : sch.bthreads_root[sem] = NULL
    BY DEF Init, SchedInit
<1>2. <<>> \in Seq(Thread) /\ Len(<<>>) = 0 /\ RootOf(<<>>) = NULL
    BY DEF RootOf
<1>3. \A i \in 1 .. Len(<<>>) : FALSE
    BY <1>2
<1>4. \A next, end : Path(next, <<>>, end)
    BY <1>2, <1>3 DEF Path
<1>5. RingsAre(sch, W)
    <2>1. ASSUME NEW p \in Level PROVE RingOf(sch, p, <<>>)
        <3>1. At(sch, InRing, p) = {}
            BY <1>1 DEF At, InRing
        <3>. QED BY <3>1, <1>1, <1>2, <1>3, <1>4 DEF RingOf
    <2>. QED BY <2>1, <1>2 DEF RingsAre
<1>6. ListsAre(sch, on, L)
    <2>1. ASSUME NEW sem \in Sem PROVE ListOf(sch, on, sem, <<>>)
        BY <1>1, <1>2, <1>3, <1>4 DEF ListOf
    <2>. QED BY <2>1, <1>2 DEF ListsAre
<1>7. Ready = W /\ Waiters = L
    BY <1>1, <1>5, <1>6, QueuesAre, TurnsPlain
<1>8. Queues!Init
    BY <1>1, <1>7 DEF Queues!Init, Queues!Levels, Level, Pending
<1>. QED BY <1>5, <1>6, <1>8 DEF WalksWell

\* The disjuncts of SlottedNext.
LEMMA NextFollowed ==
    ASSUME Inductive, WalksWell, [SlottedNext]_vars
    PROVE  Followed
<1>1. PICK W, L : RingsAre(sch, W) /\ ListsAre(sch, on, L)
    BY DEF WalksWell
<1>2. CASE \E t \in Thread : AddThread(t)
    BY <1>1, <1>2, AddThreadFollowed
<1>3. CASE InitScheduler
    BY <1>1, <1>3, InitSchedulerFollowed
<1>4. CASE \E t \in Thread, sem \in Sem : CWait(t, sem) \/ BWait(t, sem)
    BY <1>1, <1>4, WaitFollowed
<1>5. CASE \/ \E t \in Thread, sem \in CSem : ThreadCSignal(t, sem)
           \/ \E t \in Thread, sem \in Mutex : ThreadBSignal(t, sem)
           \/ Handler
    BY <1>1, <1>5, SignalEffect, WakeFollowed DEF Inductive
<1>6. CASE \E t \in Thread : Block(t)
    BY <1>1, <1>6, BlockFollowed
<1>7. CASE ContextSwitch
    BY <1>1, <1>7, ContextSwitchFollowed
<1>8. CASE SlottedTick
    BY <1>1, <1>8, TickFollowed
<1>9. CASE UNCHANGED vars
    BY <1>1, <1>9, NothingFollowed DEF vars
<1>10. CSem \subseteq Sem /\ BSem \subseteq Sem
    BY SemAssumption DEF BSem
<1>. QED BY <1>2, <1>3, <1>4, <1>5, <1>6, <1>7, <1>8, <1>9, <1>10
         DEF SlottedNext, Common, ThreadStep

\* The rings and lists of the scheduler are always walks.
LEMMA AlwaysWalks == SlottedSpec => [](Inductive /\ WalksWell)
<1>1. Init => Inductive /\ WalksWell
    BY InitInductive, InitFollowed
<1>2. Inductive /\ WalksWell /\ [SlottedNext]_vars => (Inductive /\ WalksWell)'
    BY NextInductive, NextFollowed DEF Followed
<1>. QED BY <1>1, <1>2, PTL DEF SlottedSpec

\* With no tick between schedule() and its PendSV, the circular rings, the roots
\* that move and the sorted lists of schedule.c and semaphore.c behave as the
\* queues of RunQueues: a slice that ends sends a thread behind its peers, a
\* wakeup puts it before them, waiters are served by urgency and in order of
\* arrival, and each choice is the head of the first queue that is not empty.
THEOREM KernelImplementsRunQueues == SlottedSpec => ImplementsRunQueues
<1>1. Init => Queues!Init
    BY InitFollowed
<1>2. Inductive /\ WalksWell /\ [SlottedNext]_vars => [Queues!Next]_(Queues!vars)
    BY NextFollowed DEF Followed
<1>. QED BY <1>1, <1>2, AlwaysWalks, PTL DEF SlottedSpec, ImplementsRunQueues, Queues!Spec
=============================================================================
