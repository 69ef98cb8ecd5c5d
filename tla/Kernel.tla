------------------------------- MODULE Kernel -------------------------------
(***************************************************************************)
(* The preemptive kernel: the scheduler of schedule.c together with the    *)
(* semaphores of semaphore.c, under its two exceptions, SysTick (priority  *)
(* 14) and PendSV (priority 15), and interrupt handlers that signal.       *)
(*                                                                         *)
(* A step is a stretch of code that runs with interrupts masked, so that   *)
(* nothing of interest can come between its instructions.  A thread runs   *)
(* its next step only while it is RunPt and no PendSV is pending: once the *)
(* mask is lifted PendSV is taken before the thread's next instruction.    *)
(* Handlers run whether or not PendSV is pending.                          *)
(*                                                                         *)
(* Both waits test the semaphore in one critical section, LEAVE it, and    *)
(* block in another (sched_block's own).  The step boundary between the    *)
(* two is the "window" state of pc.                                        *)
(***************************************************************************)
EXTENDS ThreadLists

CONSTANTS
    CSem,        \* counting semaphores (c_wait, c_signal)
    Mutex,       \* binary semaphores a thread takes and gives back
    Event,       \* binary semaphores that a handler signals and a thread awaits
    IsrCSem,     \* the counting semaphores that handlers signal
    InitValue,   \* the value init_semaphore gave each semaphore
    MaxValue     \* bound of the model on the value of a counting semaphore

ASSUME SemAssumption ==
    /\ Sem = CSem \cup Mutex \cup Event
    /\ CSem \cap (Mutex \cup Event) = {}
    /\ Mutex \cap Event = {}
    /\ IsrCSem \subseteq CSem
    /\ InitValue \in [Sem -> Nat]
    /\ \A m \in Mutex : InitValue[m] = 0
    /\ \A e \in Event : InitValue[e] \in {0, 1}
    /\ MaxValue \in Nat
    /\ NULL \notin Sem

VARIABLES
    sch,      \* the scheduler's globals (ThreadLists)
    value,    \* sem->value
    pc,       \* where each thread is: "user" code; "window": it found the
              \* semaphore unavailable and is about to call sched_block;
              \* "blocked": inside sched_block, until it tests again
    on,       \* the semaphore it waits for, NULL in user code
    holders,  \* per mutex, the threads between its b_wait and b_signal (history)
    ticked    \* a tick was served since the last context switch

vars == <<sch, value, pc, on, holders, ticked>>

BSem == Mutex \cup Event

Init ==
    /\ sch = SchedInit
    /\ value = InitValue
    /\ pc = [t \in Thread |-> "user"]
    /\ on = [t \in Thread |-> NULL]
    /\ holders = [m \in Mutex |-> {}]
    /\ ticked = FALSE

-----------------------------------------------------------------------------
\* Before init_scheduler interrupts are masked and RunPt is NULL.
Booting == sch.RunPt = NULL

\* t executes its own code, with interrupts enabled.
Executing(t) == sch.RunPt = t /\ ~sch.pendsv

AddThread(t) ==
    /\ Booting
    /\ sch.state[t] = "NONE"
    /\ sch' = EnqueueThread(sch, t)
    /\ UNCHANGED <<value, pc, on, holders, ticked>>

InitScheduler ==
    /\ Booting
    /\ sch' = Launch(sch)
    /\ UNCHANGED <<value, pc, on, holders, ticked>>

\* systick_handler: end of a time slice. Ticks are 1 ms apart, so that no two
\* are served between a request for PendSV and the switch.
SysTick ==
    /\ ~Booting
    /\ ~ticked
    /\ sch' = Schedule(sch)
    /\ ticked' = TRUE
    /\ UNCHANGED <<value, pc, on, holders>>

\* pendSV_handler.
ContextSwitch ==
    /\ sch.pendsv
    /\ sch' = PendSV(sch)
    /\ ticked' = FALSE
    /\ UNCHANGED <<value, pc, on, holders>>

-----------------------------------------------------------------------------
\* t is at the test of a wait on sem: at the call, or back from sched_block.
AtTest(t, sem) ==
    /\ Executing(t)
    /\ \/ pc[t] = "user"
       \/ pc[t] = "blocked" /\ on[t] = sem

\* The test fails: the critical section ends with nothing changed.
Unavailable(t, sem) ==
    /\ pc' = [pc EXCEPT ![t] = "window"]
    /\ on' = [on EXCEPT ![t] = sem]
    /\ UNCHANGED <<sch, value, holders, ticked>>

Acquire(t, sem, v) ==
    /\ value' = [value EXCEPT ![sem] = v]
    /\ pc' = [pc EXCEPT ![t] = "user"]
    /\ on' = [on EXCEPT ![t] = NULL]
    /\ holders' = IF sem \in Mutex THEN [holders EXCEPT ![sem] = @ \cup {t}] ELSE holders
    /\ UNCHANGED <<sch, ticked>>

CWaitBelowZero(t, sem) ==
    /\ AtTest(t, sem)
    /\ \/ value[sem] < 0 /\ Unavailable(t, sem)
       \/ value[sem] >= 0 /\ Acquire(t, sem, value[sem] - 1)

CWait(t, sem) ==
    /\ AtTest(t, sem)
    /\ \/ value[sem] = 0 /\ Unavailable(t, sem)
       \/ value[sem] # 0 /\ Acquire(t, sem, value[sem] - 1)

BWaitTestsOnce(t, sem) ==
    /\ AtTest(t, sem)
    /\ sem \in Mutex => t \notin holders[sem]
    /\ \/ value[sem] # 0 /\ pc[t] = "user" /\ Unavailable(t, sem)
       \/ (value[sem] = 0 \/ pc[t] = "blocked") /\ Acquire(t, sem, 1)

\* A thread does not wait for a mutex it already holds.
BWait(t, sem) ==
    /\ AtTest(t, sem)
    /\ sem \in Mutex => t \notin holders[sem]
    /\ \/ value[sem] # 0 /\ Unavailable(t, sem)
       \/ value[sem] = 0 /\ Acquire(t, sem, 1)

\* The second half of a wait whose test failed.
Block(t) ==
    /\ Executing(t)
    /\ pc[t] = "window"
    /\ sch' = SchedBlock(sch, on[t])
    /\ pc' = [pc EXCEPT ![t] = "blocked"]
    /\ UNCHANGED <<value, on, holders, ticked>>

\* The common tail of c_signal and b_signal. When sched_unblock returns true
\* they call NVIC_SetPendingIRQ(SysTick_IRQn); SysTick_IRQn is negative and
\* that function ignores negative numbers, so that nothing is requested.
WakeFirst(sem) ==
    sch' = IF sch.bthreads_root[sem] # NULL THEN SchedUnblock(sch, sem) ELSE sch

CSignal(sem) ==
    /\ value[sem] < MaxValue
    /\ value' = [value EXCEPT ![sem] = @ + 1]
    /\ WakeFirst(sem)
    /\ UNCHANGED <<pc, on, ticked>>

BSignal(sem) ==
    /\ value' = [value EXCEPT ![sem] = 0]
    /\ WakeFirst(sem)
    /\ UNCHANGED <<pc, on, ticked>>

ThreadCSignal(t, sem) ==
    /\ Executing(t) /\ pc[t] = "user"
    /\ CSignal(sem)
    /\ UNCHANGED holders

ThreadBSignal(t, sem) ==
    /\ Executing(t) /\ pc[t] = "user"
    /\ t \in holders[sem]
    /\ BSignal(sem)
    /\ holders' = [holders EXCEPT ![sem] = @ \ {t}]

IsrCSignal(sem) == ~Booting /\ CSignal(sem) /\ UNCHANGED holders

IsrBSignal(sem) == ~Booting /\ BSignal(sem) /\ UNCHANGED holders

-----------------------------------------------------------------------------
ThreadStep(t) ==
    \/ \E sem \in CSem : CWait(t, sem) \/ ThreadCSignal(t, sem)
    \/ \E sem \in BSem : BWait(t, sem)
    \/ \E sem \in Mutex : ThreadBSignal(t, sem)
    \/ Block(t)

Handler ==
    \/ \E sem \in IsrCSem : IsrCSignal(sem)
    \/ \E sem \in Event : IsrBSignal(sem)

Common ==
    \/ \E t \in Thread : AddThread(t) \/ ThreadStep(t)
    \/ InitScheduler
    \/ ContextSwitch
    \/ Handler

\* The kernel as it is: a tick that becomes pending while a thread is in
\* sched_block's critical section outranks the PendSV requested there.
Next == Common \/ SysTick

\* The kernel when no tick ever falls between schedule() and its PendSV.
SlottedTick == ~sch.pendsv /\ SysTick
SlottedNext == Common \/ SlottedTick

Spec == Init /\ [][Next]_vars
SlottedSpec == Init /\ [][SlottedNext]_vars

\* Boot completes, a pending PendSV is taken, and SysTick is free running: a
\* tick stays pending until it is served, so that threads which keep requesting
\* switches can delay it but not for ever (strong fairness).
\* Nothing is assumed of the threads: any of them may compute for ever.
FairSlottedSpec ==
    SlottedSpec /\ WF_vars(InitScheduler)
                /\ SF_vars(SlottedTick) /\ WF_vars(ContextSwitch)

-----------------------------------------------------------------------------
\* The thread whose registers are, or are about to be, on the CPU.
Chosen == IF sch.pendsv THEN sch.NextRunPt ELSE sch.RunPt

\* Types of the globals and of the threads' control state.
TypeOK ==
    /\ sch \in SchedType
    /\ value \in [Sem -> Nat]
    /\ pc \in [Thread -> {"user", "window", "blocked"}]
    /\ on \in [Thread -> Sem \cup {NULL}]
    /\ holders \in [Mutex -> SUBSET Thread]
    /\ ticked \in BOOLEAN

\* What the running system keeps between its steps, strong enough to be kept.
\* Before the launch nothing runs and nothing waits.
KernelInv ==
    /\ ListsOK(sch)
    /\ \A t \in Thread : sch.state[t] = "RUNNING" <=> t = Chosen
    /\ Booting => /\ ~sch.pendsv
                  /\ \A t \in Thread : sch.state[t] \in {"NONE", "ACTIVE"}
    /\ ~Booting /\ sch.pendsv => sch.NextRunPt # NULL
    /\ \A t \in Thread : pc[t] = "window" => on[t] \in Sem

\* Each ready ring is one doubly linked cycle of exactly the RUNNING and ACTIVE
\* threads of its level: no thread that can run has dropped out of the
\* schedule, none is linked that cannot run (enqueue_thread, dequeue_thread).
RingsExact ==
    \A p \in Level :
        /\ Chain(sch.next_tcb, sch.ThreadSchedule[p]) = At(sch, InRing, p)
        /\ \A t \in At(sch, InRing, p) :
              /\ sch.prev_tcb[t] \in At(sch, InRing, p)
              /\ sch.next_tcb[sch.prev_tcb[t]] = t
              /\ sch.prev_tcb[sch.next_tcb[t]] = t

\* ActivePriorityCount counts what its comment says (schedule.c:18): the
\* threads of the level that are ready and not running.
CountsExact ==
    \A p \in Level : sch.ActivePriorityCount[p] = Cardinality(At(sch, {"ACTIVE"}, p))

\* The one RUNNING thread is the one the CPU has or is about to get; a second
\* would sit in its ring for ever, uncounted.
OneRunning == \A t \in Thread : sch.state[t] = "RUNNING" <=> t = Chosen

\* Each blocked list holds exactly the threads blocked on its semaphore, the
\* most urgent first, although next_tcb is shared with the ready rings.
BlockedListsExact ==
    \A sem \in Sem :
        LET list == Chain(sch.next_tcb, sch.bthreads_root[sem])
        IN  /\ list = {t \in Thread : sch.state[t] = "BLOCKED" /\ on[t] = sem}
            /\ \A t \in list : sch.next_tcb[t] # NULL =>
                  Priority[t] <= Priority[sch.next_tcb[t]]
            /\ list # {} => \E t \in list : sch.next_tcb[t] = NULL

\* schedule() never loads a NULL root: a positive count is backed by a ring.
CountHasRoot ==
    \A p \in Level : sch.ActivePriorityCount[p] > 0 => sch.ThreadSchedule[p] # NULL

\* At most one thread is between b_wait and b_signal of a mutex, and the mutex
\* reads as taken exactly then, although b_signal makes it free before the
\* thread it wakes has tested it and others may take it first.
MutualExclusion ==
    \A m \in Mutex :
        /\ \A t1, t2 \in holders[m] : t1 = t2
        /\ value[m] = (IF holders[m] = {} THEN 0 ELSE 1)

\* A blocked thread is accounted for: while the semaphore is available, some
\* thread that was woken, or has yet to block, is going to test it.
NoLostWakeup ==
    \A sem \in Sem :
        LET available == IF sem \in BSem THEN value[sem] = 0 ELSE value[sem] > 0
        IN  available /\ sch.bthreads_root[sem] # NULL =>
               \E t \in Thread : on[t] = sem /\ sch.state[t] # "BLOCKED"

\* schedule() never passes over a ready thread that is more urgent than the one
\* it chooses, and chooses idle only if no thread is ready.
MostUrgentNext ==
    [][~sch.pendsv /\ sch'.pendsv =>
         \A t \in Thread : sch'.state[t] = "ACTIVE" =>
            /\ sch'.NextRunPt \in Thread
            /\ Priority[sch'.NextRunPt] <= Priority[t]]_vars

\* A woken thread that is more urgent than the running one is scheduled at once
\* (semaphore.c:34 and 62-69).
UrgentWakeSwitches ==
    [][\A t \in Thread :
         /\ sch.state[t] = "BLOCKED" /\ sch'.state[t] = "ACTIVE"
         /\ sch.RunPt = IdleThread \/ (sch.RunPt \in Thread /\ Priority[t] < Priority[sch.RunPt])
         => sch'.pendsv]_vars

MoreUrgentReady(t) ==
    \E u \in Thread : Priority[u] < Priority[t] /\ sch.state[u] \in {"RUNNING", "ACTIVE"}

\* Round robin: a ready thread gets the CPU unless a more urgent one is ready,
\* although every wakeup is queued in front of it and threads of its level may
\* wake each other for ever or never give up the CPU.
RoundRobin ==
    \A t \in Thread :
        sch.state[t] = "ACTIVE" ~> (sch.RunPt = t \/ MoreUrgentReady(t))
=============================================================================
