----------------------------- MODULE SleepTimer -----------------------------
(***************************************************************************)
(* sleep() and unsleep() of schedule.c over the one compare channel of     *)
(* TIM2 that hw/timer.c arms for the head of the sleep list.               *)
(*                                                                         *)
(* TIM2 counts microseconds modulo 2^32 and is modelled as a counter       *)
(* modulo W with K counts to the millisecond. W need not be a multiple of  *)
(* K, as 2^32 is not one of 1000. The compare flag rises when the counter  *)
(* reaches CCR1, whether or not the interrupt is enabled, and only then:   *)
(* writing to CCR1 the value the counter already has raises nothing. The   *)
(* counter never stops, so that the flag also rises once a lap while no    *)
(* thread sleeps.                                                          *)
(*                                                                         *)
(* As in Kernel a tick (priority 14) may be served between the call of     *)
(* schedule() with which sleep ends and the PendSV (15) this requests.     *)
(***************************************************************************)
EXTENDS ThreadLists

CONSTANTS
    W,         \* 2^32
    K,         \* 1000
    Duration,  \* the arguments of sleep()
    MaxLate    \* lateness is not told apart beyond this

ASSUME TimerAssumption ==
    /\ W \in Nat \ {0} /\ K \in Nat \ {0} /\ K < W
    /\ Duration \subseteq Nat \ {0}
    /\ MaxLate \in Nat

VARIABLES
    sch,                \* the scheduler's globals (ThreadLists)
    SleepScheduleRoot,  \* head of the sleep list
    resume_tick,        \* TCB field
    tim2,               \* the registers CNT, CCR1, SR.CC1IF, DIER.CC1IE
    pc,                 \* "user", "arming": between reading the time and the
                        \* end of sleep's critical section, "yield": between
                        \* that and the call of schedule()
    masked,             \* 0: interrupts enabled; 1: masked; 2: masked, and the
                        \* counter has moved on since
    ticked,             \* a tick was served since the last context switch
    left,               \* history: counts until the thread is due
    stale,              \* history: the compare flag was up when sleep armed
                        \* the alarm that is set
    raced               \* history: a tick fell between a request for PendSV
                        \* and the switch

history == <<left, stale, raced>>
vars == <<sch, SleepScheduleRoot, resume_tick, tim2, pc, masked, ticked, history>>

\* Every thread has been added; main's order is one of those \E allows.
Init ==
    /\ sch = SchedInit
    /\ SleepScheduleRoot = NULL
    /\ resume_tick = [t \in Thread |-> 0]
    /\ tim2 = [CNT |-> 0, CCR1 |-> 0, CC1IF |-> FALSE, CC1IE |-> FALSE]
    /\ pc = [t \in Thread |-> "user"]
    /\ masked = 0 /\ ticked = FALSE
    /\ left = [t \in Thread |-> 0] /\ stale = FALSE /\ raced = FALSE

Booting == sch.RunPt = NULL

AddThread(t) ==
    /\ Booting /\ sch.state[t] = "NONE"
    /\ sch' = EnqueueThread(sch, t)
    /\ UNCHANGED <<SleepScheduleRoot, resume_tick, tim2, pc, masked, ticked, history>>

InitScheduler ==
    /\ Booting
    /\ sch' = Launch(sch)
    /\ UNCHANGED <<SleepScheduleRoot, resume_tick, tim2, pc, masked, ticked, history>>

-----------------------------------------------------------------------------
Raised == tim2.CC1IF /\ tim2.CC1IE

\* One count. An interrupt that is enabled and not masked is served within it,
\* and a critical section is left within two.
Count ==
    /\ ~Booting
    /\ masked # 2 /\ (Raised => masked = 1)
    /\ LET cnt == (tim2.CNT + 1) % W
       IN  tim2' = [tim2 EXCEPT !.CNT = cnt, !.CC1IF = @ \/ cnt = tim2.CCR1]
    /\ masked' = IF masked = 1 THEN 2 ELSE masked
    /\ left' = [t \in Thread |->
          IF sch.state[t] = "SLEEPING" \/ pc[t] = "arming"
          THEN IF left[t] > -MaxLate THEN left[t] - 1 ELSE left[t]
          ELSE 0]
    /\ UNCHANGED <<sch, SleepScheduleRoot, resume_tick, pc, ticked, stale, raced>>

get_raw_time_ms == tim2.CNT \div K

ArmTimerUnwrapped(tm, ms) == [tm EXCEPT !.CCR1 = ms * K, !.CC1IE = TRUE]

ArmTimer(tm, ms) == [tm EXCEPT !.CCR1 = (ms * K) % W, !.CC1IE = TRUE]

\* TIM2_IRQHandler's last write clears the whole status register.
AcknowledgeNothing(tm) == tm

Acknowledge(tm) == [tm EXCEPT !.CC1IF = FALSE]

\* sleep arms the timer if t, just inserted, is now the first to be due.
ArmIfAlone(t, root) ==
    IF SleepScheduleRoot = NULL THEN ArmTimer(tim2, resume_tick[t]) ELSE tim2

ArmIfFirst(t, root) ==
    IF root = t THEN ArmTimer(tim2, resume_tick[t]) ELSE tim2

-----------------------------------------------------------------------------
Executing(t) == sch.RunPt = t /\ ~sch.pendsv

\* sleep: enter the critical section and read the time.
CallSleep(t, ms) ==
    /\ Executing(t) /\ pc[t] = "user"
    /\ resume_tick' = [resume_tick EXCEPT ![t] = get_raw_time_ms + ms]
    /\ left' = [left EXCEPT ![t] = (get_raw_time_ms + ms) * K - tim2.CNT]
    /\ pc' = [pc EXCEPT ![t] = "arming"]
    /\ masked' = 1
    /\ UNCHANGED <<sch, SleepScheduleRoot, tim2, ticked, stale, raced>>

\* sleep: leave the ready ring for the sleep list, arm the timer if t is now
\* the first to be due, leave the critical section.
GoToSleep(t) ==
    LET d == Leave(sch, t, "SLEEPING")
        list == InsertSorted(d.next_tcb, SleepScheduleRoot, resume_tick, t)
    IN  /\ masked # 0 /\ pc[t] = "arming"
        /\ sch' = [d EXCEPT !.next_tcb = list.next_tcb]
        /\ SleepScheduleRoot' = list.root
        /\ tim2' = ArmIfFirst(t, list.root)
        /\ pc' = [pc EXCEPT ![t] = "yield"]
        /\ masked' = 0
        /\ stale' = IF list.root = t THEN tim2.CC1IF ELSE stale
        /\ UNCHANGED <<resume_tick, ticked, left, raced>>

\* sleep: its last call. A tick or the alarm may have come first.
Yield(t) ==
    /\ Executing(t) /\ pc[t] = "yield"
    /\ sch' = Schedule(sch)
    /\ pc' = [pc EXCEPT ![t] = "user"]
    /\ UNCHANGED <<SleepScheduleRoot, resume_tick, tim2, masked, ticked, history>>

\* unsleep, which TIM2_IRQHandler calls: wake the head, arm for the next.
Unsleep(tm) ==
    IF SleepScheduleRoot = NULL THEN [sch |-> sch, root |-> NULL, tim2 |-> tm]
    ELSE LET next == sch.next_tcb[SleepScheduleRoot]
         IN  [sch |-> EnqueueThread(sch, SleepScheduleRoot), root |-> next,
              tim2 |-> IF next = NULL THEN tm ELSE ArmTimer(tm, resume_tick[next])]

TIM2Handler ==
    /\ ~Booting /\ masked = 0 /\ Raised
    /\ LET r == Unsleep([tim2 EXCEPT !.CC1IE = FALSE])
       IN  /\ sch' = r.sch
           /\ SleepScheduleRoot' = r.root
           /\ tim2' = Acknowledge(r.tim2)
    /\ stale' = FALSE
    /\ UNCHANGED <<resume_tick, pc, masked, ticked, left, raced>>

\* systick_handler. Ticks are 1 ms apart: of those between a request for PendSV
\* and the switch there is at most one.
SysTick ==
    /\ ~Booting /\ masked = 0 /\ ~ticked
    /\ sch' = Schedule(sch)
    /\ ticked' = TRUE
    /\ raced' = (raced \/ sch.pendsv)
    /\ UNCHANGED <<SleepScheduleRoot, resume_tick, tim2, pc, masked, left, stale>>

ContextSwitch ==
    /\ sch.pendsv /\ masked = 0
    /\ sch' = PendSV(sch)
    /\ ticked' = FALSE
    /\ UNCHANGED <<SleepScheduleRoot, resume_tick, tim2, pc, masked, history>>

Next ==
    \/ \E t \in Thread :
          \/ AddThread(t) \/ GoToSleep(t) \/ Yield(t)
          \/ \E ms \in Duration : CallSleep(t, ms)
    \/ InitScheduler \/ Count \/ TIM2Handler \/ SysTick \/ ContextSwitch

Spec == Init /\ [][Next]_vars

-----------------------------------------------------------------------------
TypeOK ==
    /\ sch \in SchedType
    /\ SleepScheduleRoot \in Thread \cup {NULL}
    /\ resume_tick \in [Thread -> Nat]
    /\ tim2 \in [CNT : 0 .. W - 1, CCR1 : 0 .. W - 1, CC1IF : BOOLEAN, CC1IE : BOOLEAN]
    /\ pc \in [Thread -> {"user", "arming", "yield"}]
    /\ masked \in 0 .. 2
    /\ left \in [Thread -> Int]
    /\ ticked \in BOOLEAN /\ stale \in BOOLEAN /\ raced \in BOOLEAN

\* The sleep list holds exactly the sleeping threads, although it shares next_tcb
\* with the ready rings and the alarm may wake a thread before that has reached
\* its own call of schedule(): wherever ticks fall, also between that call and
\* PendSV, where they spoil rings and counts.
SleepListExact ==
    Chain(sch.next_tcb, SleepScheduleRoot) = {t \in Thread : sch.state[t] = "SLEEPING"}

\* Until a tick first falls between schedule() and its PendSV, each ready ring
\* holds exactly the threads of its level that can run, and the counts agree:
\* going to sleep in two parts and being woken between them costs none of this.
RingsUntilRace ==
    ~raced => \A p \in Level :
        /\ Chain(sch.next_tcb, sch.ThreadSchedule[p]) = At(sch, InRing, p)
        /\ sch.ActivePriorityCount[p] = Cardinality(At(sch, {"ACTIVE"}, p))

\* While a thread sleeps the interrupt is enabled and set for the head of the
\* list, which has the least resume_tick, through insertions in front, removals,
\* ticks wherever they fall and the wrap of the counter.
AlarmSetForHead ==
    SleepScheduleRoot # NULL =>
        /\ tim2.CC1IE
        /\ tim2.CCR1 = (resume_tick[SleepScheduleRoot] * K) % W
        /\ \A t \in Thread : sch.state[t] = "SLEEPING" =>
              resume_tick[SleepScheduleRoot] <= resume_tick[t]

WokenEarly(t) ==
    sch.state[t] = "SLEEPING" /\ sch'.state[t] = "ACTIVE" /\ left[t] > 0

\* A flag left over from before the alarm was armed, as one that rose while no
\* thread slept, wakes one sleeper too early and no other: arm_timer does not
\* clear it (timer.c:27-32), but the handler does (timer.c:44), so that a thread
\* is woken before it is due only if the flag was up when sleep armed the alarm.
EarlyOnlyIfStale == [][\A t \in Thread : WokenEarly(t) => stale]_vars

\* schedule.c:221, "sleeps thread for <sleep_time> ms": unsleep wakes no thread
\* before it is due. It does not hold: see early_wake.cfg.
NoEarlyWake == [][\A t \in Thread : ~WokenEarly(t)]_vars

\* The same line: a thread that is still asleep was due less than a millisecond
\* ago. It does not hold: see oversleep.cfg.
NoOversleep ==
    \A t \in Thread : sch.state[t] = "SLEEPING" => left[t] > -K
=============================================================================
