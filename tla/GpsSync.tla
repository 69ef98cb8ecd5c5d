------------------------------ MODULE GpsSync ------------------------------
(***************************************************************************)
(* Synchronisation with GPS: the task gps_timesync and the PPS interrupt   *)
(* of gps.c, and the receive side of USART 2 between them (uart.c, fifo.c, *)
(* reset_semaphore).                                                       *)
(*                                                                         *)
(* Each second the receiver raises a pulse and then sends a burst of       *)
(* sentences that name that second. The handler of TIM3's interrupt notes  *)
(* the clock's time if there is a snapshot of it, and in any case enables  *)
(* the UART and wakes the task; the task reads sentences until it has the  *)
(* two it needs, disables the UART, clears the FIFO and corrects the clock *)
(* by the difference of the times it has.                                  *)
(*                                                                         *)
(* A sentence is one entry of the FIFO. Nothing checks its checksum: one   *)
(* that lost bytes, or that the rest of another has joined, may be taken   *)
(* for any. Handlers are not interrupted by the task, so they are steps;   *)
(* what the task does with interrupts enabled is taken apart.              *)
(***************************************************************************)
EXTENDS Integers, Sequences

CONSTANTS
    Seconds,        \* pulses are numbered modulo this
    Size,           \* sentences that rx_fifo holds
    Unreliable,     \* the sentences that may come with their fields empty
    Garbled,        \* what a line that was cut short may name as its second
    LockThreshold,  \* what sync_cnt must exceed
    NULL

ASSUME GpsAssumption ==
    /\ Seconds \in Nat /\ Seconds > 1
    /\ Size \in Nat \ {0} /\ LockThreshold \in Nat
    /\ Unreliable \subseteq {"GPRMC", "GPZDA"}
    /\ Garbled \subseteq 0 .. Seconds - 1 \cup {NULL}

VARIABLES
    second,           \* of the last pulse
    burst,            \* what is still to be sent for it
    pps_ts_q32,       \* the second of the pulse last noted
    nmea_burst_sync,  \* 1 when taken
    enabled,          \* the UART's UE bit
    rx,               \* rx_fifo: full, empty, head, tail, data; and open: the
                      \* last line in it was cut short, so that the next joins it
    pc,               \* where the task is
    gps_data,         \* valid_messages, unix_time
    sync_cnt, timing_lock,
    clean,            \* history: since a good pulse found the task idle, all were
                      \* good, found it in time, and nothing else came between
    undisturbed       \* history: no interrupt came during the last fifo8_clear

lock == <<sync_cnt, timing_lock>>
history == <<clean, undisturbed>>
task == <<pc, gps_data>>
vars == <<second, burst, pps_ts_q32, nmea_burst_sync, enabled, rx, task, lock, history>>

Second == 0 .. Seconds - 1
Index == 0 .. Size - 1
Sentence == [kind : {"GPRMC", "GPZDA", "other"}, of : Second \cup {NULL}]

ASSUME NullAssumption == NULL \notin Sentence /\ NULL \notin Second

\* The task has initialised the UART and disabled it. No pulse yet.
Init ==
    /\ second = 0 /\ burst = <<>> /\ pps_ts_q32 = 0
    /\ nmea_burst_sync = 1
    /\ enabled = FALSE
    /\ rx = [full |-> Size, empty |-> 0, head |-> 0, tail |-> 0,
             data |-> [i \in Index |-> NULL], open |-> FALSE]
    /\ pc = "wait"
    /\ gps_data = [valid_messages |-> {}, unix_time |-> 0]
    /\ sync_cnt = 0 /\ timing_lock = FALSE
    /\ clean = FALSE /\ undisturbed = TRUE

-----------------------------------------------------------------------------
(* TIM3_IRQHandler, and the pulses and other events that raise it.           *)

NextIndex(i) == (i + 1) % Size

Clearing == {"clear_full", "clear_empty", "clear_indices"}

\* What the receiver sends for a second. The parser reads no time from GPRMC.
BurstOf(s, blank) ==
    LET Said(kind, x) == [kind |-> kind, of |-> IF kind \in blank THEN NULL ELSE x]
    IN  <<Said("GPRMC", 0), Said("GPZDA", s), Said("other", NULL)>>

\* The task is behind if a sentence before the pulse is still unread, or if it
\* has not yet used the time of the pulse before.
Behind == pc \notin {"wait", "read"} \/ rx.empty > 0

\* The task waits for a pulse, and nothing is left of those before.
Idle ==
    /\ pc = "wait" /\ nmea_burst_sync = 1 /\ undisturbed
    /\ rx.empty = 0 /\ ~rx.open

\* The UART is enabled and the task woken also when there is no snapshot.
TIM3_IRQHandler(snapshot, now) ==
    /\ pps_ts_q32' = IF snapshot THEN now ELSE pps_ts_q32
    /\ enabled' = TRUE
    /\ nmea_burst_sync' = 0
    /\ undisturbed' = (undisturbed /\ pc \notin Clearing)

\* A pulse. It is good if its snapshot is there and GPRMC will have a fix.
Pulse(blank, snapshot) ==
    LET now == (second + 1) % Seconds
    IN  /\ burst = <<>>
        /\ second' = now
        /\ burst' = BurstOf(now, blank)
        /\ TIM3_IRQHandler(snapshot, now)
        /\ clean' = (snapshot /\ "GPRMC" \notin blank /\ (Idle \/ (clean /\ ~Behind)))
        /\ UNCHANGED <<rx, task, lock>>

\* An update of TIM3 without a pulse, such as its own overflow after gps_init.
Overflow ==
    /\ TIM3_IRQHandler(FALSE, second)
    /\ clean' = FALSE
    /\ UNCHANGED <<second, burst, rx, task, lock>>

-----------------------------------------------------------------------------
(* The receive side of USART2_IRQHandler.                                    *)

Stored(f, x) ==
    [f EXCEPT !.full = @ - 1, !.empty = @ + 1,
              !.data[f.tail] = x, !.tail = NextIndex(@)]

PutUntested(f, x) == Stored(f, x)

\* fifo8_put_nonblock for the bytes of a sentence: they join the line that was cut
\* short, if there is one, and else are lost if there is no room.
fifo8_put_nonblock(f, x) ==
    IF f.open THEN [f EXCEPT !.open = FALSE]
    ELSE IF f.full = 0 THEN f
    ELSE Stored(f, x)

\* A sentence arrives, and the handler takes it in if the UART is enabled.
Receive ==
    /\ burst # <<>>
    /\ burst' = Tail(burst)
    /\ rx' = IF enabled THEN fifo8_put_nonblock(rx, Head(burst)) ELSE rx
    /\ UNCHANGED <<second, pps_ts_q32, nmea_burst_sync, enabled, task, lock, history>>

CutLine == [kind : {"GPRMC", "GPZDA"}, of : Garbled]

\* fifo8_put_nonblock loses some of a sentence's bytes, with the last place: up to
\* where there is room again, in the same sentence or in a later one, whose rest
\* joins. The parser may take the line for any; the task may take it sooner.
ReceiveCut ==
    /\ burst # <<>> /\ enabled /\ ~rx.open /\ rx.full = 1
    /\ burst' = Tail(burst)
    /\ \E x \in CutLine, open \in BOOLEAN : rx' = [Stored(rx, x) EXCEPT !.open = open]
    /\ clean' = FALSE
    /\ UNCHANGED <<second, pps_ts_q32, nmea_burst_sync, enabled, task, lock, undisturbed>>

-----------------------------------------------------------------------------
(* gps_timesync.                                                             *)

KeepMessages(g) == g

NoMessages(g) == [g EXCEPT !.valid_messages = {}]

BurstWait ==
    /\ pc = "wait" /\ nmea_burst_sync = 0
    /\ nmea_burst_sync' = 1
    /\ gps_data' = NoMessages(gps_data)
    /\ pc' = "read"
    /\ UNCHANGED <<second, burst, pps_ts_q32, enabled, rx, lock, history>>

\* fifo8_get in two steps: the wait, and the copy with the signal, which the
\* handlers cannot tell from one, for they do not read head.
GetWait ==
    /\ pc = "read" /\ rx.empty > 0
    /\ rx' = [rx EXCEPT !.empty = @ - 1]
    /\ pc' = "get"
    /\ UNCHANGED <<second, burst, pps_ts_q32, nmea_burst_sync, enabled, gps_data, lock, history>>

\* parse_GPRMC and parse_GPZDA. What was never stored is no sentence, and one
\* with empty fields has too few: strtok takes adjoining commas for one.
Parsed(g, x) ==
    IF x = NULL \/ x.kind = "other" \/ x.of = NULL THEN g
    ELSE [valid_messages |-> g.valid_messages \cup {x.kind},
          unix_time |-> IF x.kind = "GPZDA" THEN x.of ELSE g.unix_time]

Unreleased(f) == [f EXCEPT !.head = NextIndex(@)]
Released(f) == [f EXCEPT !.head = NextIndex(@), !.full = @ + 1]

EnoughOne(g) == g.valid_messages # {}

Enough(g) == g.valid_messages = {"GPRMC", "GPZDA"}

\* ... and parse_nmea_sentence.
GetAndParse ==
    /\ pc = "get"
    /\ rx' = Released(rx)
    /\ gps_data' = Parsed(gps_data, rx.data[rx.head])
    /\ pc' = IF Enough(gps_data') THEN "disable" ELSE "read"
    /\ UNCHANGED <<second, burst, pps_ts_q32, nmea_burst_sync, enabled, lock, history>>

DisableNothing ==
    /\ pc = "disable"
    /\ pc' = "clear_full"
    /\ undisturbed' = TRUE
    /\ UNCHANGED <<second, burst, pps_ts_q32, nmea_burst_sync, enabled, rx, gps_data,
                   lock, clean>>

\* uart_disable, up to fifo8_clear.
Disable ==
    /\ pc = "disable"
    /\ enabled' = FALSE
    /\ pc' = "clear_full"
    /\ undisturbed' = TRUE
    /\ UNCHANGED <<second, burst, pps_ts_q32, nmea_burst_sync, rx, gps_data, lock, clean>>

\* fifo8_clear. Only the task itself waits on these semaphores, so that
\* reset_semaphore finds no thread to wake.
ClearStep(from, to, f) ==
    /\ pc = from
    /\ rx' = f
    /\ pc' = to
    /\ UNCHANGED <<second, burst, pps_ts_q32, nmea_burst_sync, enabled, gps_data,
                   lock, history>>

ClearFull == ClearStep("clear_full", "clear_empty", [rx EXCEPT !.full = Size])
ClearEmpty == ClearStep("clear_empty", "clear_indices", [rx EXCEPT !.empty = 0])
ClearIndices == ClearStep("clear_indices", "judge",
                          [rx EXCEPT !.head = 0, !.tail = 0, !.open = FALSE])

fifo8_clear == ClearFull \/ ClearEmpty \/ ClearIndices

-----------------------------------------------------------------------------
(* The correction. The clock's own error is any; that of the times paired is *)
(* whole seconds, and adds to it.                                            *)

JudgeEnd ==
    /\ pc = "judge"
    /\ pc' = "wait"
    /\ UNCHANGED <<second, burst, pps_ts_q32, nmea_burst_sync, enabled, rx,
                   gps_data, history>>

\* The last GPRMC may say that there is no fix, and the error may be more than
\* coarse_threshold seconds: then the clock is set. The lock stays as it was.
NoFixOrCoarse ==
    /\ JudgeEnd
    /\ UNCHANGED lock

\* A fine correction. abs takes an int, so that an error is small if its
\* fraction of a second is: whole seconds are cut off. (last_sync_ts, which only
\* the time server reads, is left out.)
FineSmall ==
    /\ JudgeEnd
    /\ IF sync_cnt > LockThreshold THEN timing_lock' = TRUE /\ UNCHANGED sync_cnt
       ELSE sync_cnt' = sync_cnt + 1 /\ UNCHANGED timing_lock

FineLarge ==
    /\ sync_cnt' = 0 /\ timing_lock' = FALSE
    /\ JudgeEnd

Judge == NoFixOrCoarse \/ FineSmall \/ FineLarge

gps_timesync ==
    \/ BurstWait \/ GetWait \/ GetAndParse
    \/ Disable \/ fifo8_clear \/ Judge

AnyPulse == \E blank \in SUBSET Unreliable, snapshot \in BOOLEAN : Pulse(blank, snapshot)

Next == AnyPulse \/ Overflow \/ Receive \/ ReceiveCut \/ gps_timesync

Spec == Init /\ [][Next]_vars

\* The receiver goes on; the scheduler runs the task. Again and again a pulse
\* that finds the task in time is followed by a whole burst. From some time on no
\* line is cut short: rx_fifo has room for a burst, and the task keeps up with it.
FairSpec ==
    /\ Spec
    /\ WF_vars(Receive \/ ReceiveCut)
    /\ <>[][~ReceiveCut]_vars
    /\ []<><<~Behind /\ \E snapshot \in BOOLEAN : Pulse({}, snapshot)>>_vars
    /\ WF_vars(gps_timesync)

-----------------------------------------------------------------------------
(* Properties.                                                               *)

\* Every variable has its type. rx_fifo never counts more than Size free places,
\* so that nothing is stored over what is unread; filled ones, after what arrived
\* between the two resets of a clear, it may count up to twice as many.
TypeOK ==
    /\ second \in Second /\ pps_ts_q32 \in Second
    /\ burst \in Seq(Sentence)
    /\ nmea_burst_sync \in {0, 1} /\ enabled \in BOOLEAN
    /\ rx \in [full : 0 .. Size, empty : 0 .. 2 * Size, head : Index, tail : Index,
               data : [Index -> Sentence \cup {NULL}], open : BOOLEAN]
    /\ pc \in Clearing \cup {"wait", "read", "get", "disable", "judge"}
    /\ gps_data \in [valid_messages : SUBSET {"GPRMC", "GPZDA"}, unix_time : Second]
    /\ sync_cnt \in 0 .. LockThreshold + 1 /\ timing_lock \in BOOLEAN
    /\ clean \in BOOLEAN /\ undisturbed \in BOOLEAN

\* Outside of fifo8_clear the counts and the indices of rx_fifo agree, unless an
\* interrupt of TIM3 came during the last clear: the UART is disabled first
\* (uart.c:50-57), and the next clear makes good what one spoilt.
PlacesKept ==
    undisturbed /\ pc \notin Clearing =>
        /\ rx.full + rx.empty + (IF pc = "get" THEN 1 ELSE 0) = Size
        /\ rx.tail = (rx.head + rx.empty + (IF pc = "get" THEN 1 ELSE 0)) % Size

\* What goes wrong lasts for one pass. After pulses without a snapshot, bursts
\* without a fix, updates of TIM3 without a pulse, lost bytes and late reads, in
\* any order, the first good pulse that finds the task idle is paired with its own
\* sentence (gps.c:164-165), and so are those that follow while all goes well,
\* also if bursts come without a GPZDA in between. Until then a pass may pair the
\* sentence of one second with the pulse of another.
PairedIfClean ==
    pc = "judge" /\ clean => gps_data.unix_time = pps_ts_q32

\* The synchronisation does not stop: an enable that uart_disable undid, a
\* semaphore signalled twice, or a line cut short costs one burst (gps.c:148-158,
\* 249-251). Only an interrupt of TIM3 during fifo8_clear may stop it for good, for
\* then what arrives between the two resets takes places that neither semaphore
\* counts afterwards.
SyncsAgain == []<>(pc = "judge" \/ ~undisturbed)

\* gps.c:215, "< ~100ns": only an error of that size counts for the lock. It does
\* not hold: see second_off.cfg.
CountsOnlySmall == [][sync_cnt' > sync_cnt => gps_data.unix_time = pps_ts_q32]_vars
=============================================================================
