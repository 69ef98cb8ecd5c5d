----------------------------- MODULE GpsProofs -----------------------------
(***************************************************************************)
(* Proofs about the synchronisation with GPS, for any number of seconds    *)
(* and any size of rx_fifo, and about get_time, which reads the clock that *)
(* is kept with it.                                                        *)
(***************************************************************************)
EXTENDS GpsSync, PtpClock, SequenceTheorems, TLAPS

\* An index into the ring, and what it is for one that runs over once.
Ring(i) == i % Size
Wrapped(i) == IF i < Size THEN i ELSE i - Size

\* The entries in rx_fifo, with the one that the task has waited for.
Held == IF pc = "get" THEN 1 ELSE 0
UnreadCount == rx.empty + Held
Unread(i) == rx.data[Ring(rx.head + i - 1)]

Rmc(t) == [kind |-> "GPRMC", of |-> t]
Zda(t) == [kind |-> "GPZDA", of |-> t]
Other == [kind |-> "other", of |-> NULL]

\* What may be left of a burst.
LeftOf(b, s) ==
    \/ b = <<>>
    \/ b = <<Other>>
    \/ \E z \in {Zda(s), Zda(NULL)} : b = <<z, Other>>
    \/ \E r \in {Rmc(0), Rmc(NULL)}, z \in {Zda(s), Zda(NULL)} : b = <<r, z, Other>>

\* No place is counted twice, except between the two resets of fifo8_clear.
CountsBounded ==
    rx.full + rx.empty + Held <= IF pc = "clear_empty" THEN 2 * Size ELSE Size

\* What fifo8_clear has done, if no interrupt came since the UART was disabled.
ClearUndisturbed ==
    undisturbed /\ pc \in Clearing =>
        /\ ~enabled
        /\ pc # "clear_full" => rx.full = Size
        /\ pc = "clear_indices" => rx.empty = 0

FifoInv ==
    /\ TypeOK
    /\ LeftOf(burst, second)
    /\ CountsBounded
    /\ PlacesKept
    /\ ClearUndisturbed

-----------------------------------------------------------------------------
\* A sentence that the parser takes.
Is(x, kind) == x # NULL /\ x.kind = kind /\ x.of # NULL

Reading == {"read", "get"}

\* A GPRMC is no longer in rx_fifo: the task has it.
RmcTaken == pc \in Reading /\ "GPRMC" \in gps_data.valid_messages

RmcUnread(n) == \E i \in 1 .. n : Is(Unread(i), "GPRMC")

RmcComing == burst # <<>> /\ Head(burst).kind = "GPRMC"
ZdaComing == burst # <<>> /\ Head(burst).kind = "GPZDA"

\* The task has one burst in its hands, and a GPRMC comes before the GPZDA of it.
InOrder ==
    /\ pc \in {"wait"} \cup Reading =>
          /\ \A i \in 1 .. UnreadCount : Is(Unread(i), "GPZDA") =>
                Unread(i).of = second /\ (RmcTaken \/ RmcUnread(i - 1))
          /\ enabled /\ ZdaComing => RmcTaken \/ RmcUnread(UnreadCount)
    /\ pc \in Reading => "GPZDA" \notin gps_data.valid_messages
    /\ pc \notin {"wait"} \cup Reading => gps_data.unix_time = second

\* The GPRMC has a fix, and finds rx_fifo empty, so that it is not the one dropped.
RmcFitsIn ==
    RmcComing /\ enabled =>
        Is(Head(burst), "GPRMC") /\ rx.empty = 0 /\ pc \in {"wait", "read"}

\* Until the next pulse nothing comes in.
Cleared == pc = "judge" => ~enabled /\ rx.empty = 0

\* What holds while nothing went wrong since the task was last found idle.
AllGoesWell ==
    /\ undisturbed /\ ~rx.open /\ pps_ts_q32 = second
    /\ InOrder /\ RmcFitsIn /\ Cleared

PairInv == FifoInv /\ (clean => AllGoesWell)

-----------------------------------------------------------------------------
(* The ring and the bursts.                                                  *)

LEMMA SizeIsNat == Size \in Nat /\ Size > 0 /\ 0 \in Index
BY GpsAssumption DEF Index

LEMMA Wrap == \A i \in 0 .. 2 * Size - 1 : Ring(i) = Wrapped(i)
BY SizeIsNat, SMTT(30) DEF Ring, Wrapped

LEMMA NextIndexInRing == \A i \in Index : NextIndex(i) \in Index
BY SizeIsNat, SMTT(30) DEF NextIndex, Index

LEMMA AddWraps ==
    ASSUME NEW i \in Index, NEW n \in Nat, n < Size
    PROVE  /\ NextIndex(Ring(i + n)) = Ring(i + (n + 1))
           /\ Ring(NextIndex(i) + n) = Ring(i + (n + 1))
           /\ Ring(i + n) \in Index
<1>1. \A j : NextIndex(j) = Ring(j + 1)
    BY DEF NextIndex, Ring
<1>2. NextIndex(i) = Wrapped(i + 1) /\ i + 1 \in 0 .. 2 * Size - 1
    BY <1>1, Wrap, SizeIsNat DEF Index
<1>3. /\ i + n \in 0 .. 2 * Size - 1 /\ i + (n + 1) \in 0 .. 2 * Size - 1
      /\ i + (n + 1) = i + n + 1
    BY SizeIsNat DEF Index
<1>4. Ring(i + n) = Wrapped(i + n) /\ Ring(i + (n + 1)) = Wrapped(i + (n + 1))
    BY <1>3, Wrap
<1>5. Wrapped(i + n) \in Index /\ Wrapped(i + n) + 1 \in 0 .. 2 * Size - 1
    BY <1>3, SizeIsNat DEF Wrapped, Index
<1>6. NextIndex(Wrapped(i + n)) = Wrapped(Wrapped(i + n) + 1)
    BY <1>1, <1>5, Wrap
<1>7. Wrapped(Wrapped(i + n) + 1) = Wrapped(i + (n + 1))
    BY <1>3, SizeIsNat DEF Wrapped
<1>8. NextIndex(i) + n \in 0 .. 2 * Size - 1
    BY <1>2, SizeIsNat DEF Wrapped, Index
<1>9. Wrapped(NextIndex(i) + n) = Wrapped(i + (n + 1))
    BY <1>2, SizeIsNat DEF Wrapped, Index
<1>. QED BY <1>4, <1>5, <1>6, <1>7, <1>8, <1>9, Wrap

LEMMA SecondIsNext ==
    \A s \in Second : (s + 1) % Seconds \in Second
BY GpsAssumption, SMTT(30) DEF Second

LEMMA ShortTails ==
    \A x, y, z :
        /\ <<x>> # <<>> /\ Head(<<x>>) = x /\ Tail(<<x>>) = <<>>
        /\ <<x, y>> # <<>> /\ Head(<<x, y>>) = x /\ Tail(<<x, y>>) = <<y>>
        /\ <<x, y, z>> # <<>> /\ Head(<<x, y, z>>) = x /\ Tail(<<x, y, z>>) = <<y, z>>
OBVIOUS

LEMMA Lines ==
    ASSUME NEW s \in Second
    PROVE  /\ {Rmc(0), Rmc(NULL), Zda(s), Zda(NULL), Other} \subseteq Sentence
           /\ \A t : Rmc(t).kind = "GPRMC" /\ Zda(t).kind = "GPZDA" /\ Zda(t).of = t
           /\ Other.kind = "other"
BY GpsAssumption DEF Rmc, Zda, Other, Sentence, Second

LEMMA CutLines == CutLine \subseteq Sentence
BY GpsAssumption DEF CutLine, Sentence, Second

LEMMA BurstShape ==
    ASSUME NEW s, NEW blank
    PROVE  /\ LeftOf(BurstOf(s, blank), s)
           /\ BurstOf(s, blank) # <<>> /\ Head(BurstOf(s, blank)).kind = "GPRMC"
           /\ "GPRMC" \notin blank => Is(Head(BurstOf(s, blank)), "GPRMC")
<1>. DEFINE r == Rmc(IF "GPRMC" \in blank THEN NULL ELSE 0)
            z == Zda(IF "GPZDA" \in blank THEN NULL ELSE s)
<1>1. BurstOf(s, blank) = <<r, z, Other>>
    BY DEF BurstOf, Rmc, Zda, Other
<1>2. r \in {Rmc(0), Rmc(NULL)} /\ z \in {Zda(s), Zda(NULL)}
    OBVIOUS
<1>3. r.kind = "GPRMC" /\ ("GPRMC" \notin blank => r.of = 0 /\ r = Rmc(0))
    BY DEF Rmc
<1>4. 0 # NULL /\ Rmc(0) # NULL
    BY NullAssumption, GpsAssumption DEF Rmc, Sentence, Second
<1>. HIDE DEF r, z
<1>5. LeftOf(BurstOf(s, blank), s)
    BY <1>1, <1>2, Zenon DEF LeftOf
<1>6. BurstOf(s, blank) # <<>> /\ Head(BurstOf(s, blank)) = r
    <2>1. <<r, z, Other>> # <<>> /\ Head(<<r, z, Other>>) = r
        OBVIOUS
    <2>. QED BY <1>1, <2>1, Zenon
<1>. QED BY <1>3, <1>4, <1>5, <1>6 DEF Is

\* What the first of the rest is, and what the rest of it is.
RestOf(s, b) ==
    /\ LeftOf(Tail(b), s) /\ Head(b) \in Sentence
    /\ Tail(b) # <<>> => Head(Tail(b)).kind # "GPRMC"
    /\ Head(b).kind # "GPRMC" /\ Tail(b) # <<>> => Head(Tail(b)).kind # "GPZDA"
    /\ Head(b).kind = "GPZDA" => Head(b).of \in {s, NULL}

LEMMA BurstLeft ==
    ASSUME NEW s \in Second, NEW b, LeftOf(b, s), b # <<>>
    PROVE  RestOf(s, b)
<1>1. CASE b = <<Other>>
    <2>1. Tail(b) = <<>> /\ Head(b) = Other
        BY <1>1, ShortTails, Zenon
    <2>2. LeftOf(<<>>, s)
        BY Zenon DEF LeftOf
    <2>. QED BY <2>1, <2>2, Lines DEF RestOf
<1>2. ASSUME NEW z \in {Zda(s), Zda(NULL)}, b = <<z, Other>> PROVE RestOf(s, b)
    <2>1. Tail(b) = <<Other>> /\ Head(b) = z /\ Head(<<Other>>) = Other
        BY <1>2
    <2>2. LeftOf(<<Other>>, s)
        BY Zenon DEF LeftOf
    <2>. QED BY <2>1, <2>2, Lines DEF RestOf
<1>3. ASSUME NEW r \in {Rmc(0), Rmc(NULL)}, NEW z \in {Zda(s), Zda(NULL)},
             b = <<r, z, Other>>
      PROVE  RestOf(s, b)
    <2>1. Tail(b) = <<z, Other>> /\ Head(b) = r /\ Head(<<z, Other>>) = z
        BY <1>3
    <2>2. LeftOf(<<z, Other>>, s)
        BY Zenon DEF LeftOf
    <2>3. r.kind = "GPRMC" /\ z.kind = "GPZDA" /\ r \in Sentence
        BY Lines
    <2>4. Head(Tail(b)) = z
        BY <2>1, Zenon
    <2>. QED BY <2>1, <2>2, <2>3, <2>4 DEF RestOf
<1>4. \/ b = <<Other>>
      \/ \E z \in {Zda(s), Zda(NULL)} : b = <<z, Other>>
      \/ \E r \in {Rmc(0), Rmc(NULL)}, z \in {Zda(s), Zda(NULL)} : b = <<r, z, Other>>
    BY Zenon DEF LeftOf
<1>. QED BY <1>1, <1>2, <1>3, <1>4, Zenon

LEMMA LeftAreSentences ==
    ASSUME NEW s \in Second
    PROVE  \A b : LeftOf(b, s) => b \in Seq(Sentence)
<1>1. \A S : \A x, y, z \in S :
        <<>> \in Seq(S) /\ <<x>> \in Seq(S) /\ <<x, y>> \in Seq(S) /\ <<x, y, z>> \in Seq(S)
    OBVIOUS
<1>2. /\ Rmc(0) \in Sentence /\ Rmc(NULL) \in Sentence /\ Zda(s) \in Sentence
      /\ Zda(NULL) \in Sentence /\ Other \in Sentence
    BY Lines
<1>. QED BY <1>1, <1>2, Zenon DEF LeftOf

-----------------------------------------------------------------------------
(* The counts, the indices and the burst.                                    *)

RxType == [full : 0 .. Size, empty : 0 .. 2 * Size, head : Index, tail : Index,
           data : [Index -> Sentence \cup {NULL}], open : BOOLEAN]

LEMMA TypeOKHasRx == TypeOK => rx \in RxType
BY DEF TypeOK, RxType

LEMMA FifoInvInit == Init => FifoInv
<1>. SUFFICES ASSUME Init PROVE FifoInv
    OBVIOUS
<1>1. 0 \in Second /\ 0 \in 0 .. LockThreshold + 1
    BY GpsAssumption DEF Second
<1>2. burst = <<>> /\ burst \in Seq(Sentence) /\ LeftOf(burst, second)
    BY DEF Init, LeftOf
<1>3. rx \in [full : 0 .. Size, empty : 0 .. 2 * Size, head : Index, tail : Index,
              data : [Index -> Sentence \cup {NULL}], open : BOOLEAN]
    BY SizeIsNat DEF Init
<1>4. clean \in BOOLEAN /\ undisturbed \in BOOLEAN /\ enabled \in BOOLEAN /\ timing_lock \in BOOLEAN
    BY Zenon DEF Init
<1>5. TypeOK
    BY <1>1, <1>2, <1>3, <1>4 DEF Init, TypeOK
<1>6. CountsBounded /\ PlacesKept /\ ClearUndisturbed
    BY Wrap, SizeIsNat DEF Init, CountsBounded, PlacesKept, ClearUndisturbed, Held, Clearing
<1>. QED BY <1>2, <1>5, <1>6 DEF FifoInv, Init

\* A write to the fields that one step writes.
LEMMA RxUpdates ==
    ASSUME rx \in RxType
    PROVE  /\ rx.full \in 0 .. Size /\ rx.empty \in 0 .. 2 * Size
           /\ rx.head \in Index /\ rx.tail \in Index /\ rx.open \in BOOLEAN
           /\ rx.data \in [Index -> Sentence \cup {NULL}]
           /\ \A n \in 0 .. Size : LET f == [rx EXCEPT !.full = n]
                IN  /\ f \in RxType /\ f.full = n /\ f.empty = rx.empty
                    /\ f.open = rx.open
           /\ \A n \in 0 .. 2 * Size : LET f == [rx EXCEPT !.empty = n]
                IN  /\ f \in RxType /\ f.full = rx.full /\ f.empty = n
                    /\ f.head = rx.head /\ f.tail = rx.tail /\ f.data = rx.data
                    /\ f.open = rx.open
           /\ LET f == [rx EXCEPT !.open = FALSE]
                IN  /\ f \in RxType /\ f.full = rx.full /\ f.empty = rx.empty
                    /\ f.head = rx.head /\ f.tail = rx.tail
BY DEF RxType

\* What a sentence that is stored does to rx_fifo, whether it is cut short or not.
IsStored(f, x) ==
    /\ f.full = rx.full - 1 /\ f.empty = rx.empty + 1
    /\ f.head = rx.head /\ f.tail = NextIndex(rx.tail)
    /\ f.data = [rx.data EXCEPT ![rx.tail] = x]

LEMMA StoreEffect ==
    ASSUME TypeOK, rx.full > 0, NEW x \in Sentence, NEW open \in BOOLEAN
    PROVE  /\ IsStored(Stored(rx, x), x) /\ Stored(rx, x).open = rx.open
           /\ IsStored([Stored(rx, x) EXCEPT !.open = open], x)
           /\ rx.empty < 2 * Size =>
                Stored(rx, x) \in RxType /\ [Stored(rx, x) EXCEPT !.open = open] \in RxType
<1>1. /\ rx.full \in 0 .. Size /\ rx.empty \in 0 .. 2 * Size /\ rx.head \in Index
      /\ rx.tail \in Index /\ NextIndex(rx.tail) \in Index /\ rx.open \in BOOLEAN
      /\ rx.data \in [Index -> Sentence \cup {NULL}]
      /\ rx = [full |-> rx.full, empty |-> rx.empty, head |-> rx.head, tail |-> rx.tail,
               data |-> rx.data, open |-> rx.open]
    BY NextIndexInRing DEF TypeOK
<1>2. [rx.data EXCEPT ![rx.tail] = x] \in [Index -> Sentence \cup {NULL}]
    BY <1>1
<1>3. Stored(rx, x) =
          [full |-> rx.full - 1, empty |-> rx.empty + 1, head |-> rx.head,
           tail |-> NextIndex(rx.tail), data |-> [rx.data EXCEPT ![rx.tail] = x],
           open |-> rx.open]
    <2>1. Stored(rx, x) = [rx EXCEPT !.full = @ - 1, !.empty = @ + 1,
                                     !.data[rx.tail] = x, !.tail = NextIndex(@)]
        BY <1>1 DEF Stored
    <2>. QED BY <1>1, <2>1, Zenon
<1>4. [Stored(rx, x) EXCEPT !.open = open] =
          [full |-> rx.full - 1, empty |-> rx.empty + 1, head |-> rx.head,
           tail |-> NextIndex(rx.tail), data |-> [rx.data EXCEPT ![rx.tail] = x],
           open |-> open]
    BY <1>3
<1>5. rx.full - 1 \in 0 .. Size /\ (rx.empty < 2 * Size => rx.empty + 1 \in 0 .. 2 * Size)
    BY <1>1, SizeIsNat
<1>6. IsStored(Stored(rx, x), x) /\ Stored(rx, x).open = rx.open
    BY <1>3 DEF IsStored
<1>7. IsStored([Stored(rx, x) EXCEPT !.open = open], x)
    BY <1>4 DEF IsStored
<1>8. rx.empty < 2 * Size =>
          Stored(rx, x) \in RxType /\ [Stored(rx, x) EXCEPT !.open = open] \in RxType
    BY <1>1, <1>2, <1>3, <1>4, <1>5 DEF RxType
<1>. QED BY <1>6, <1>7, <1>8

LEMMA FifoInvInterrupt ==
    ASSUME FifoInv, AnyPulse \/ Overflow PROVE FifoInv'
<1>1. /\ UNCHANGED <<rx, pc, gps_data, sync_cnt, timing_lock>>
      /\ enabled' = TRUE /\ nmea_burst_sync' = 0
      /\ undisturbed' = (undisturbed /\ pc \notin Clearing)
    BY DEF AnyPulse, Pulse, Overflow, TIM3_IRQHandler, task, lock
<1>2. clean' \in BOOLEAN /\ undisturbed' \in BOOLEAN /\ enabled' \in BOOLEAN
    BY <1>1, Zenon DEF AnyPulse, Pulse, Overflow
<1>3. /\ second' \in Second /\ LeftOf(burst', second') /\ burst' \in Seq(Sentence)
      /\ pps_ts_q32' \in Second
    <2>1. ASSUME Overflow
          PROVE  UNCHANGED <<second, burst>> /\ pps_ts_q32' = pps_ts_q32
        BY <2>1 DEF Overflow, TIM3_IRQHandler
    <2>2. ASSUME NEW blank, NEW snapshot \in BOOLEAN, Pulse(blank, snapshot)
          PROVE  /\ second' \in Second /\ burst' = BurstOf(second', blank)
                 /\ pps_ts_q32' \in {second', pps_ts_q32}
        BY <2>2, SecondIsNext DEF Pulse, TIM3_IRQHandler, FifoInv, TypeOK
    <2>. QED BY <2>1, <2>2, BurstShape, LeftAreSentences DEF FifoInv, TypeOK, AnyPulse
<1>4. TypeOK'
    BY <1>1, <1>2, <1>3 DEF FifoInv, TypeOK
<1>5. CountsBounded' /\ PlacesKept' /\ ClearUndisturbed'
    BY <1>1 DEF FifoInv, CountsBounded, PlacesKept, ClearUndisturbed, Held
<1>. QED BY <1>3, <1>4, <1>5 DEF FifoInv

\* Storing a sentence keeps the counts and the indices in step.
LEMMA StoreKeeps ==
    ASSUME FifoInv, rx.full > 0, enabled, NEW x, IsStored(rx', x),
           UNCHANGED <<pc, enabled, undisturbed>>
    PROVE  /\ rx.empty < 2 * Size
           /\ CountsBounded' /\ PlacesKept' /\ ClearUndisturbed'
<1>1. /\ rx.full \in 0 .. Size /\ rx.empty \in 0 .. 2 * Size
      /\ rx.head \in Index /\ rx.tail \in Index
    BY TypeOKHasRx, RxUpdates DEF FifoInv
<1>2. Held \in {0, 1} /\ Held' = Held
    BY DEF Held
<1>3. rx'.full = rx.full - 1 /\ rx'.empty = rx.empty + 1 /\ rx'.head = rx.head
      /\ rx'.tail = NextIndex(rx.tail)
    BY DEF IsStored
<1>4. rx'.full + rx'.empty + Held' = rx.full + rx.empty + Held
    BY <1>1, <1>2, <1>3
<1>5. CountsBounded'
    BY <1>4 DEF FifoInv, CountsBounded
<1>6. rx.empty < 2 * Size
    BY <1>1, <1>2, SizeIsNat DEF FifoInv, CountsBounded
<1>7. PlacesKept'
    <2>. SUFFICES ASSUME undisturbed, pc \notin Clearing
                  PROVE  /\ rx'.full + rx'.empty + Held' = Size
                         /\ rx'.tail = Ring(rx'.head + rx'.empty + Held')
        BY DEF PlacesKept, Held, Ring
    <2>1. /\ rx.full + rx.empty + Held = Size
          /\ rx.tail = Ring(rx.head + rx.empty + Held)
        BY DEF FifoInv, PlacesKept, Held, Ring
    <2>2. PICK n : n = rx.empty + Held
        OBVIOUS
    <2>3. n \in Nat /\ n < Size /\ rx.head + rx.empty + Held = rx.head + n
          /\ rx'.head + rx'.empty + Held' = rx.head + (n + 1)
        BY <2>1, <2>2, <1>1, <1>2, <1>3, SizeIsNat DEF Index
    <2>4. NextIndex(Ring(rx.head + n)) = Ring(rx.head + (n + 1))
        BY <2>3, <1>1, AddWraps
    <2>. QED BY <1>3, <1>4, <2>1, <2>3, <2>4
<1>8. ClearUndisturbed'
    BY DEF FifoInv, ClearUndisturbed
<1>. QED BY <1>5, <1>6, <1>7, <1>8

LEMMA FifoInvReceive ==
    ASSUME FifoInv, Receive \/ ReceiveCut PROVE FifoInv'
<1>1. /\ burst # <<>> /\ second \in Second /\ TypeOK /\ LeftOf(burst, second)
      /\ burst' = Tail(burst)
      /\ UNCHANGED <<second, pps_ts_q32, nmea_burst_sync, enabled, pc, gps_data,
                     sync_cnt, timing_lock, undisturbed>>
    BY DEF FifoInv, TypeOK, Receive, ReceiveCut, task, lock, history
<1>2. /\ LeftOf(burst', second') /\ burst' \in Seq(Sentence)
      /\ Head(burst) \in Sentence
    BY <1>1, BurstLeft, LeftAreSentences DEF RestOf
<1>3. clean' \in BOOLEAN
    <2>1. clean \in BOOLEAN
        BY <1>1, Zenon DEF TypeOK
    <2>. QED BY <2>1, Zenon DEF Receive, ReceiveCut, history
<1>4. ASSUME rx' \in RxType, CountsBounded' /\ PlacesKept' /\ ClearUndisturbed' PROVE FifoInv'
    <2>1. TypeOK'
        BY <1>1, <1>2, <1>3, <1>4 DEF TypeOK, RxType
    <2>. QED BY <1>2, <1>4, <2>1 DEF FifoInv
<1>5. rx \in RxType
    BY <1>1, TypeOKHasRx
<1>6. CASE rx' = rx
    BY <1>1, <1>4, <1>5, <1>6
       DEF FifoInv, CountsBounded, PlacesKept, ClearUndisturbed, Held
<1>7. CASE rx' = [rx EXCEPT !.open = FALSE]
    <2>1. /\ rx' \in RxType /\ rx'.full = rx.full /\ rx'.empty = rx.empty
          /\ rx'.head = rx.head /\ rx'.tail = rx.tail
        BY <1>5, <1>7, RxUpdates
    <2>. QED BY <1>1, <1>4, <2>1
             DEF FifoInv, CountsBounded, PlacesKept, ClearUndisturbed, Held
<1>8. ASSUME enabled, rx.full > 0, NEW x \in Sentence, NEW open \in BOOLEAN,
             rx' = Stored(rx, x) \/ rx' = [Stored(rx, x) EXCEPT !.open = open]
      PROVE  FifoInv'
    <2>1. IsStored(rx', x)
        BY <1>1, <1>8, StoreEffect
    <2>2. rx.empty < 2 * Size /\ CountsBounded' /\ PlacesKept' /\ ClearUndisturbed'
        BY <1>1, <1>8, <2>1, StoreKeeps
    <2>3. rx' \in RxType
        BY <1>1, <1>8, <2>2, StoreEffect
    <2>. QED BY <1>4, <2>2, <2>3
<1>9. CASE Receive
    <2>1. rx.full \in 0 .. Size
        BY <1>5, RxUpdates
    <2>2. \/ rx' = rx \/ rx' = [rx EXCEPT !.open = FALSE]
          \/ enabled /\ rx.full # 0 /\ rx' = Stored(rx, Head(burst))
        BY <1>9, Zenon DEF Receive, fifo8_put_nonblock
    <2>3. rx.full # 0 => rx.full > 0
        BY <2>1, SizeIsNat
    <2>. QED BY <1>2, <1>6, <1>7, <1>8, <2>2, <2>3
<1>10. CASE ReceiveCut
    <2>1. PICK x \in CutLine, open \in BOOLEAN : rx' = [Stored(rx, x) EXCEPT !.open = open]
        BY <1>10 DEF ReceiveCut
    <2>2. enabled /\ rx.full > 0 /\ x \in Sentence
        BY <1>10, CutLines DEF ReceiveCut
    <2>. QED BY <1>8, <2>1, <2>2
<1>. QED BY <1>9, <1>10

\* The steps of the task that only use the FIFO.
LEMMA FifoInvWait ==
    ASSUME FifoInv, BurstWait \/ GetWait PROVE FifoInv'
<1>1. /\ TypeOK /\ rx \in RxType
      /\ rx.full \in 0 .. Size /\ rx.empty \in 0 .. 2 * Size /\ rx.head \in Index
      /\ rx.tail \in Index
    BY TypeOKHasRx, RxUpdates DEF FifoInv
<1>2. UNCHANGED <<second, burst, pps_ts_q32, enabled, sync_cnt, timing_lock, clean, undisturbed>>
    BY DEF BurstWait, GetWait, lock, history
<1>3. CASE BurstWait
    <2>1. TypeOK'
        BY <1>1, <1>2, <1>3 DEF TypeOK, BurstWait, NoMessages
    <2>. QED BY <1>1, <1>2, <1>3, <2>1
             DEF BurstWait, FifoInv, CountsBounded, PlacesKept, ClearUndisturbed, Held, Clearing
<1>4. CASE GetWait
    <2>1. /\ rx' \in RxType /\ rx'.full = rx.full /\ rx'.empty = rx.empty - 1
          /\ rx'.head = rx.head /\ rx'.tail = rx.tail
        <3>1. rx.empty - 1 \in 0 .. 2 * Size
            BY <1>1, <1>4, SizeIsNat DEF GetWait
        <3>2. rx' = [rx EXCEPT !.empty = rx.empty - 1]
            BY <1>4 DEF GetWait
        <3>. QED BY <1>1, <3>1, <3>2, RxUpdates
    <2>2. TypeOK'
        BY <1>1, <1>2, <1>4, <2>1 DEF TypeOK, GetWait, RxType
    <2>3. PlacesKept'
        <3>1. rx.head + rx.empty + 0 = rx'.head + rx'.empty + 1
            BY <1>1, <2>1, SizeIsNat DEF Index
        <3>2. undisturbed => rx.full + rx.empty = Size /\ rx.tail = Ring(rx.head + rx.empty + 0)
            BY <1>1, <1>4 DEF FifoInv, PlacesKept, GetWait, Clearing, Ring
        <3>3. undisturbed => rx'.tail = Ring(rx'.head + rx'.empty + 1)
            BY <3>1, <3>2, <2>1
        <3>. QED BY <1>1, <1>2, <1>4, <2>1, <3>2, <3>3 DEF GetWait, PlacesKept, Ring
    <2>. QED BY <1>1, <1>2, <1>4, <2>1, <2>2, <2>3
             DEF GetWait, FifoInv, CountsBounded, ClearUndisturbed, Held, Clearing
<1>. QED BY <1>3, <1>4

\* What the end of fifo8_get does to rx_fifo.
LEMMA ReleaseEffect ==
    ASSUME FifoInv, GetAndParse
    PROVE  /\ rx' \in RxType /\ rx'.full = rx.full + 1 /\ rx'.empty = rx.empty
           /\ rx'.head = NextIndex(rx.head) /\ rx'.tail = rx.tail
           /\ rx'.data = rx.data /\ rx'.open = rx.open
           /\ NextIndex(rx.head) \in Index
<1>1. /\ rx \in RxType /\ rx.full \in 0 .. Size /\ rx.empty \in 0 .. 2 * Size
      /\ rx.head \in Index
    BY TypeOKHasRx, RxUpdates DEF FifoInv
<1>2. pc = "get" /\ rx' = [rx EXCEPT !.head = NextIndex(rx.head), !.full = rx.full + 1]
    BY <1>1 DEF GetAndParse, Released
<1>3. rx.full + 1 \in 0 .. Size
    BY <1>1, <1>2, SizeIsNat DEF FifoInv, CountsBounded, Held
<1>. QED BY <1>1, <1>2, <1>3, NextIndexInRing DEF RxType

LEMMA FifoInvParse ==
    ASSUME FifoInv, GetAndParse PROVE FifoInv'
<1>1. /\ TypeOK /\ rx \in RxType
      /\ rx.full \in 0 .. Size /\ rx.empty \in 0 .. 2 * Size /\ rx.head \in Index
      /\ rx.tail \in Index
    BY TypeOKHasRx, RxUpdates DEF FifoInv
<1>2. /\ UNCHANGED <<second, burst, pps_ts_q32, enabled, sync_cnt, timing_lock, clean,
                     undisturbed, nmea_burst_sync>>
      /\ pc = "get" /\ pc' \in {"disable", "read"}
      /\ gps_data' = Parsed(gps_data, rx.data[rx.head])
    BY DEF GetAndParse, lock, history
<1>3. /\ rx' \in RxType /\ rx'.full = rx.full + 1 /\ rx'.empty = rx.empty
      /\ rx'.head = NextIndex(rx.head) /\ rx'.tail = rx.tail
    BY ReleaseEffect
<1>4. gps_data' \in [valid_messages : SUBSET {"GPRMC", "GPZDA"}, unix_time : Second]
    <2>1. /\ gps_data \in [valid_messages : SUBSET {"GPRMC", "GPZDA"}, unix_time : Second]
          /\ rx.data[rx.head] \in Sentence \cup {NULL}
        BY <1>1 DEF TypeOK
    <2>. QED BY <1>2, <2>1 DEF Parsed, Sentence
<1>5. TypeOK'
    BY <1>1, <1>2, <1>3, <1>4 DEF TypeOK, RxType
<1>6. PlacesKept'
    <2>. SUFFICES ASSUME undisturbed
                  PROVE  /\ rx'.full + rx'.empty + 0 = Size
                         /\ rx'.tail = Ring(rx'.head + rx'.empty + 0)
        BY <1>2 DEF PlacesKept, Ring
    <2>1. rx.full + rx.empty + 1 = Size /\ rx.tail = Ring(rx.head + rx.empty + 1)
        BY <1>2 DEF FifoInv, PlacesKept, Clearing, Ring
    <2>2. rx.empty \in Nat /\ rx.empty < Size /\ rx.head \in Nat /\ NextIndex(rx.head) \in Nat
        BY <2>1, <1>1, NextIndexInRing, SizeIsNat DEF Index
    <2>3. Ring(NextIndex(rx.head) + rx.empty) = Ring(rx.head + (rx.empty + 1))
        BY <2>2, <1>1, AddWraps
    <2>4. /\ rx.head + (rx.empty + 1) = rx.head + rx.empty + 1
          /\ rx'.head + rx'.empty + 0 = NextIndex(rx.head) + rx.empty
          /\ rx'.full + rx'.empty + 0 = rx.full + rx.empty + 1
        BY <2>2, <1>1, <1>3
    <2>. QED BY <1>3, <2>1, <2>3, <2>4
<1>7. CountsBounded'
    BY <1>1, <1>2, <1>3 DEF FifoInv, CountsBounded, Held
<1>. QED BY <1>1, <1>2, <1>5, <1>6, <1>7 DEF FifoInv, ClearUndisturbed, Clearing

LEMMA FifoInvClear ==
    ASSUME FifoInv, Disable \/ fifo8_clear PROVE FifoInv'
<1>1. /\ TypeOK /\ rx \in RxType
      /\ rx.full \in 0 .. Size /\ rx.empty \in 0 .. 2 * Size /\ rx.head \in Index
      /\ rx.tail \in Index /\ rx.full + rx.empty + Held \in Nat
    BY TypeOKHasRx, RxUpdates, SizeIsNat DEF FifoInv, Held
<1>2. UNCHANGED <<second, burst, pps_ts_q32, sync_cnt, timing_lock, gps_data, nmea_burst_sync,
                  clean>>
    BY DEF Disable, fifo8_clear, ClearFull, ClearEmpty, ClearIndices, ClearStep, lock, history
<1>3. CASE Disable
    <2>1. TypeOK'
        BY <1>1, <1>2, <1>3 DEF TypeOK, Disable, Clearing
    <2>. QED BY <1>1, <1>2, <1>3, <2>1
             DEF Disable, FifoInv, CountsBounded, PlacesKept, ClearUndisturbed, Held, Clearing
<1>4. CASE ClearFull
    <2>1. rx' \in RxType /\ rx'.full = Size /\ rx'.empty = rx.empty
        <3>1. Size \in 0 .. Size
            BY SizeIsNat
        <3>. QED BY <1>1, <1>4, <3>1, RxUpdates DEF ClearFull, ClearStep
    <2>2. TypeOK'
        BY <1>1, <1>2, <1>4, <2>1 DEF TypeOK, ClearFull, ClearStep, RxType, Clearing, history
    <2>3. CountsBounded'
        BY <1>1, <1>4, <2>1, SizeIsNat DEF ClearFull, ClearStep, FifoInv, CountsBounded, Held
    <2>. QED BY <1>1, <1>2, <1>4, <2>1, <2>2, <2>3
             DEF ClearFull, ClearStep, FifoInv, PlacesKept, ClearUndisturbed, Clearing, history
<1>5. CASE ClearEmpty
    <2>1. rx' \in RxType /\ rx'.full = rx.full /\ rx'.empty = 0
        <3>1. 0 \in 0 .. 2 * Size
            BY SizeIsNat
        <3>. QED BY <1>1, <1>5, <3>1, RxUpdates DEF ClearEmpty, ClearStep
    <2>2. TypeOK'
        BY <1>1, <1>2, <1>5, <2>1 DEF TypeOK, ClearEmpty, ClearStep, RxType, Clearing, history
    <2>. QED BY <1>1, <1>2, <1>5, <2>1, <2>2
             DEF ClearEmpty, ClearStep, FifoInv, CountsBounded, PlacesKept, ClearUndisturbed,
                 Held, Clearing, history
<1>6. CASE ClearIndices
    <2>1. /\ rx' \in RxType /\ rx'.full = rx.full /\ rx'.empty = rx.empty
          /\ rx'.head = 0 /\ rx'.tail = 0
        <3>1. rx' = [rx EXCEPT !.head = 0, !.tail = 0, !.open = FALSE]
            BY <1>6 DEF ClearIndices, ClearStep
        <3>. QED BY <1>1, <3>1, SizeIsNat DEF RxType
    <2>2. TypeOK'
        BY <1>1, <1>2, <1>6, <2>1 DEF TypeOK, ClearIndices, ClearStep, RxType, Clearing, history
    <2>3. PlacesKept'
        <3>1. 0 % Size = 0
            BY Wrap, SizeIsNat DEF Ring, Wrapped
        <3>. QED BY <1>6, <2>1, <3>1, SizeIsNat
                 DEF ClearIndices, ClearStep, FifoInv, PlacesKept, ClearUndisturbed, Clearing,
                     history
    <2>. QED BY <1>1, <1>2, <1>6, <2>1, <2>2, <2>3
             DEF ClearIndices, ClearStep, FifoInv, CountsBounded, ClearUndisturbed,
                 Held, Clearing, history
<1>. QED BY <1>3, <1>4, <1>5, <1>6 DEF fifo8_clear

LEMMA FifoInvJudge ==
    ASSUME FifoInv, Judge PROVE FifoInv'
<1>1. JudgeEnd
    BY DEF Judge, NoFixOrCoarse, FineSmall, FineLarge
<1>2. sync_cnt' \in 0 .. LockThreshold + 1 /\ timing_lock' \in BOOLEAN
    <2>1. sync_cnt \in 0 .. LockThreshold + 1 /\ timing_lock \in BOOLEAN /\ LockThreshold \in Nat
        BY GpsAssumption DEF FifoInv, TypeOK
    <2>2. \/ UNCHANGED <<sync_cnt, timing_lock>>
          \/ sync_cnt' = 0 /\ timing_lock' = FALSE
          \/ timing_lock' = TRUE /\ sync_cnt' = sync_cnt
          \/ sync_cnt <= LockThreshold /\ sync_cnt' = sync_cnt + 1 /\ timing_lock' = timing_lock
        BY <2>1 DEF Judge, NoFixOrCoarse, FineSmall, FineLarge, lock
    <2>3. timing_lock' \in BOOLEAN
        BY <2>1, <2>2, Zenon
    <2>4. sync_cnt' \in 0 .. LockThreshold + 1
        BY <2>1, <2>2
    <2>. QED BY <2>3, <2>4
<1>3. TypeOK'
    BY <1>1, <1>2 DEF JudgeEnd, FifoInv, TypeOK, history
<1>. QED BY <1>1, <1>3
         DEF JudgeEnd, history, FifoInv, CountsBounded, PlacesKept, ClearUndisturbed, Held, Clearing

LEMMA FifoInvStep == FifoInv /\ [Next]_vars => FifoInv'
<1>1. FifoInv /\ Next => FifoInv'
    BY FifoInvInterrupt, FifoInvReceive, FifoInvWait, FifoInvParse, FifoInvClear, FifoInvJudge
       DEF Next, gps_timesync
<1>2. FifoInv /\ UNCHANGED vars => FifoInv'
    BY DEF vars, task, lock, history, FifoInv, TypeOK, CountsBounded, PlacesKept,
           ClearUndisturbed, Held
<1>. QED BY <1>1, <1>2

THEOREM FifoInvariant == Spec => []FifoInv
BY FifoInvInit, FifoInvStep, PTL DEF Spec

\* Every variable keeps its type, also if an interrupt falls into fifo8_clear:
\* rx_fifo never counts more free places than it has.
THEOREM Types == Spec => []TypeOK
<1>1. FifoInv => TypeOK
    BY DEF FifoInv
<1>. QED BY <1>1, FifoInvariant, PTL

\* The counts and the indices agree after a fifo8_clear that no interrupt of TIM3
\* disturbed (uart.c:50-57, fifo.c:105-111), whatever the line brings.
THEOREM PlacesAreKept == Spec => []PlacesKept
<1>1. FifoInv => PlacesKept
    BY DEF FifoInv
<1>. QED BY <1>1, FifoInvariant, PTL

-----------------------------------------------------------------------------
(* The pairing.                                                              *)

\* What a sentence that is stored does to the unread.
LEMMA UnreadPut ==
    ASSUME FifoInv, undisturbed, pc \notin Clearing, UNCHANGED pc, rx.full > 0,
           NEW x \in Sentence, rx' = Stored(rx, x)
    PROVE  /\ UnreadCount' = UnreadCount + 1
           /\ \A i \in 1 .. UnreadCount : Unread(i)' = Unread(i)
           /\ \A i : i = UnreadCount + 1 => Unread(i)' = x
<1>1. /\ TypeOK /\ rx \in RxType /\ rx.full \in 0 .. Size /\ rx.empty \in 0 .. 2 * Size
      /\ rx.head \in Index /\ rx.tail \in Index
      /\ rx.data \in [Index -> Sentence \cup {NULL}]
    BY TypeOKHasRx, RxUpdates DEF FifoInv
<1>2. Held \in {0, 1} /\ Held' = Held
    BY DEF Held
<1>3. /\ rx'.empty = rx.empty + 1 /\ rx'.head = rx.head
      /\ rx'.data = [rx.data EXCEPT ![rx.tail] = x]
    BY <1>1, StoreEffect DEF IsStored
<1>4. UnreadCount \in Nat /\ UnreadCount' = UnreadCount + 1
    BY <1>1, <1>2, <1>3, SizeIsNat DEF UnreadCount
<1>5. /\ rx.full + rx.empty + Held = Size
      /\ rx.tail = Ring(rx.head + rx.empty + Held)
    BY DEF FifoInv, PlacesKept, Held, Ring
<1>6. /\ Size \in Nat /\ Size > 0 /\ rx.full \in Nat /\ rx.empty \in Nat
      /\ rx.head \in Nat /\ rx.head < Size
      /\ Held \in Nat /\ UnreadCount = rx.empty + Held
    BY <1>1, <1>2, SizeIsNat DEF Index, UnreadCount
<1>7. UnreadCount < Size /\ rx.head + rx.empty + Held = rx.head + UnreadCount
    BY <1>5, <1>6
<1>8. rx.tail = Wrapped(rx.head + UnreadCount)
    <2>1. rx.head + UnreadCount \in 0 .. 2 * Size - 1
        BY ONLY <1>4, <1>6, <1>7
    <2>. QED BY <1>5, <1>7, <2>1, Wrap
<1>9. \A i \in 1 .. UnreadCount :
         Ring(rx.head + i - 1) \in Index /\ Ring(rx.head + i - 1) # rx.tail
    <2>. SUFFICES ASSUME NEW i \in 1 .. UnreadCount
                  PROVE  Ring(rx.head + i - 1) \in Index /\ Ring(rx.head + i - 1) # rx.tail
        OBVIOUS
    <2>1. i \in Nat /\ 1 <= i /\ i <= UnreadCount
        BY <1>4
    <2>2. rx.head + i - 1 \in 0 .. 2 * Size - 1
        BY ONLY <1>6, <1>7, <2>1
    <2>3. Ring(rx.head + i - 1) = Wrapped(rx.head + i - 1)
        BY <2>2, Wrap
    <2>4. /\ Wrapped(rx.head + i - 1) \in 0 .. Size - 1
          /\ Wrapped(rx.head + i - 1) # Wrapped(rx.head + UnreadCount)
        BY ONLY <1>4, <1>6, <1>7, <2>1 DEF Wrapped
    <2>. QED BY <1>8, <2>3, <2>4 DEF Index
<1>10. \A i \in 1 .. UnreadCount : Unread(i)' = Unread(i)
    BY <1>1, <1>3, <1>9 DEF Unread
<1>11. rx.head + (UnreadCount + 1) - 1 = rx.head + rx.empty + Held
    BY ONLY <1>4, <1>6, <1>7
<1>12. \A i : i = UnreadCount + 1 => Unread(i)' = x
    BY <1>1, <1>3, <1>5, <1>11 DEF Unread
<1>. QED BY <1>4, <1>10, <1>12

\* What the end of fifo8_get does to the unread.
LEMMA UnreadTaken ==
    ASSUME FifoInv, undisturbed, GetAndParse
    PROVE  /\ UnreadCount \in Nat /\ UnreadCount >= 1 /\ UnreadCount' = UnreadCount - 1
           /\ rx.data[rx.head] = Unread(1)
           /\ \A i \in 1 .. UnreadCount - 1 : Unread(i)' = Unread(i + 1)
<1>1. /\ TypeOK /\ rx \in RxType /\ rx.full \in 0 .. Size /\ rx.empty \in 0 .. 2 * Size
      /\ rx.head \in Index /\ rx.tail \in Index
    BY TypeOKHasRx, RxUpdates DEF FifoInv
<1>2. /\ pc = "get" /\ pc' # "get"
      /\ rx'.empty = rx.empty /\ rx'.head = NextIndex(rx.head) /\ rx'.data = rx.data
      /\ NextIndex(rx.head) \in Index
    BY ReleaseEffect DEF GetAndParse
<1>3. UnreadCount = rx.empty + 1 /\ UnreadCount' = rx.empty /\ rx.empty \in Nat
    BY <1>1, <1>2, SizeIsNat DEF UnreadCount, Held
<1>4. rx.empty < Size
    <2>1. rx.full + rx.empty + 1 <= Size
        BY <1>2 DEF FifoInv, CountsBounded, Held
    <2>. QED BY <2>1, <1>1, <1>3, SizeIsNat
<1>5. rx.data[rx.head] = Unread(1)
    <2>1. rx.head + 1 - 1 = rx.head /\ rx.head \in 0 .. 2 * Size - 1
        BY <1>1, SizeIsNat DEF Index
    <2>2. Ring(rx.head) = Wrapped(rx.head) /\ Wrapped(rx.head) = rx.head
        BY <1>1, <2>1, Wrap, SizeIsNat DEF Wrapped, Index
    <2>. QED BY <2>1, <2>2 DEF Unread
<1>6. \A i \in 1 .. rx.empty : Unread(i)' = Unread(i + 1)
    <2>. SUFFICES ASSUME NEW i \in 1 .. rx.empty PROVE Unread(i)' = Unread(i + 1)
        OBVIOUS
    <2>1. i - 1 \in Nat /\ i - 1 < Size
        BY <1>3, <1>4, SizeIsNat
    <2>2. Ring(NextIndex(rx.head) + (i - 1)) = Ring(rx.head + (i - 1 + 1))
        BY <1>1, <2>1, AddWraps
    <2>3. /\ NextIndex(rx.head) + (i - 1) = NextIndex(rx.head) + i - 1
          /\ rx.head + (i - 1 + 1) = rx.head + (i + 1) - 1
        BY <1>1, <1>2 DEF Index
    <2>4. Ring(NextIndex(rx.head) + i - 1) = Ring(rx.head + (i + 1) - 1)
        BY <2>2, <2>3
    <2>. QED BY <1>2, <2>4 DEF Unread
<1>. QED BY <1>3, <1>5, <1>6

LEMMA PairInvInit == Init => PairInv
BY FifoInvInit DEF PairInv, Init

LEMMA PairInvInterrupt ==
    ASSUME PairInv, FifoInv', AnyPulse \/ Overflow PROVE PairInv'
<1>1. ASSUME NEW blank, NEW snapshot \in BOOLEAN, Pulse(blank, snapshot), clean'
      PROVE  AllGoesWell'
    <2>1. /\ snapshot /\ "GPRMC" \notin blank
          /\ Idle \/ (clean /\ ~Behind)
          /\ UNCHANGED <<rx, pc, gps_data>>
          /\ burst' = BurstOf(second', blank)
          /\ undisturbed' = (undisturbed /\ pc \notin Clearing)
        BY <1>1, Zenon DEF Pulse, TIM3_IRQHandler, task
    <2>2. pps_ts_q32' = second'
        BY <1>1, <2>1 DEF Pulse, TIM3_IRQHandler
    <2>3. Is(Head(burst'), "GPRMC") /\ burst' # <<>>
        BY <2>1, BurstShape
    <2>4. rx.empty \in 0 .. 2 * Size
        BY TypeOKHasRx, RxUpdates DEF PairInv, FifoInv
    <2>5. /\ undisturbed /\ ~rx.open /\ rx.empty = 0
          /\ pc = "wait" \/ (pc = "read" /\ "GPZDA" \notin gps_data.valid_messages)
        <3>1. CASE Idle
            BY <3>1 DEF Idle
        <3>2. CASE clean /\ ~Behind
            <4>1. pc \in {"wait", "read"} /\ rx.empty = 0
                BY <2>4, <3>2, SizeIsNat DEF Behind
            <4>. QED BY <3>2, <4>1 DEF PairInv, AllGoesWell, InOrder, Reading
        <3>. QED BY <2>1, <3>1, <3>2
    <2>6. UnreadCount' = 0 /\ ~ZdaComing'
        BY <2>1, <2>3, <2>5 DEF UnreadCount, Held, ZdaComing, Is
    <2>7. InOrder'
        BY <2>1, <2>5, <2>6 DEF InOrder, Reading
    <2>8. RmcFitsIn' /\ Cleared'
        BY <2>1, <2>3, <2>5 DEF RmcFitsIn, Cleared
    <2>9. undisturbed' /\ ~rx'.open
        BY <2>1, <2>5 DEF Clearing
    <2>. QED BY <2>2, <2>7, <2>8, <2>9 DEF AllGoesWell
<1>2. Overflow => ~clean'
    BY DEF Overflow
<1>. QED BY <1>1, <1>2 DEF PairInv, AnyPulse

LEMMA PairInvReceive ==
    ASSUME PairInv, FifoInv', Receive \/ ReceiveCut PROVE PairInv'
<1>. SUFFICES ASSUME clean' PROVE AllGoesWell'
    BY DEF PairInv
<1>1. Receive
    BY DEF ReceiveCut
<1>2. /\ burst # <<>> /\ second \in Second /\ LeftOf(burst, second)
      /\ burst' = Tail(burst)
      /\ rx' = IF enabled THEN fifo8_put_nonblock(rx, Head(burst)) ELSE rx
      /\ UNCHANGED <<second, pps_ts_q32, enabled, pc, gps_data, clean, undisturbed>>
    BY <1>1 DEF PairInv, FifoInv, TypeOK, Receive, task, history
<1>3. clean /\ AllGoesWell /\ undisturbed /\ ~rx.open
    BY <1>2 DEF PairInv, AllGoesWell
<1>4. /\ Head(burst) \in Sentence
      /\ ~RmcComing'
      /\ ~RmcComing => ~ZdaComing'
      /\ Is(Head(burst), "GPRMC") => RmcComing
      /\ Is(Head(burst), "GPZDA") => ZdaComing /\ Head(burst).of = second
    BY <1>2, BurstLeft DEF RmcComing, ZdaComing, RestOf, Is
<1>5. RmcTaken' = RmcTaken
    BY <1>2 DEF RmcTaken
<1>6. RmcFitsIn'
    BY <1>4 DEF RmcFitsIn
<1>7. \/ rx' = rx /\ (~enabled \/ rx.full = 0)
      \/ enabled /\ rx.full # 0 /\ rx' = Stored(rx, Head(burst))
    BY <1>2, <1>3, Zenon DEF fifo8_put_nonblock
<1>8. rx.full \in 0 .. Size /\ rx.empty \in 0 .. 2 * Size
    BY TypeOKHasRx, RxUpdates DEF PairInv, FifoInv
<1>9. ~rx'.open /\ Cleared'
    <2>1. rx.full # 0 => rx.full > 0
        BY <1>8, SizeIsNat
    <2>2. rx' = rx \/ rx'.open = rx.open
        BY <1>4, <1>7, <2>1, StoreEffect DEF PairInv, FifoInv
    <2>3. pc = "judge" => ~enabled /\ rx.empty = 0
        BY <1>3 DEF AllGoesWell, Cleared
    <2>. QED BY <1>2, <1>3, <1>7, <2>2, <2>3 DEF Cleared
<1>10. CASE pc \notin {"wait"} \cup Reading
    <2>1. InOrder'
        BY <1>2, <1>3, <1>10 DEF AllGoesWell, InOrder
    <2>. QED BY <1>2, <1>3, <1>6, <1>9, <2>1 DEF AllGoesWell
<1>11. CASE pc \in {"wait"} \cup Reading
    <2>1. UnreadCount \in Nat
        BY <1>8, SizeIsNat DEF UnreadCount, Held
    <2>2. \/ /\ ~enabled \/ rx.full = 0
             /\ UnreadCount' = UnreadCount /\ \A i \in 1 .. UnreadCount : Unread(i)' = Unread(i)
          \/ /\ enabled /\ UnreadCount' = UnreadCount + 1
             /\ \A i \in 1 .. UnreadCount : Unread(i)' = Unread(i)
             /\ \A i : i = UnreadCount + 1 => Unread(i)' = Head(burst)
        <3>1. CASE rx' = rx /\ (~enabled \/ rx.full = 0)
            BY <1>2, <3>1 DEF UnreadCount, Held, Unread
        <3>2. CASE enabled /\ rx.full # 0 /\ rx' = Stored(rx, Head(burst))
            <4>1. rx.full > 0 /\ pc \notin Clearing
                BY <1>8, <1>11, <3>2, SizeIsNat DEF Clearing, Reading
            <4>. QED BY <1>2, <1>3, <1>4, <3>2, <4>1, UnreadPut DEF PairInv
        <3>. QED BY <1>7, <3>1, <3>2
    <2>3. \A n \in 0 .. UnreadCount : RmcUnread(n) => RmcUnread(n)'
        BY <2>1, <2>2 DEF RmcUnread
    <2>4. RmcComing /\ enabled => Is(Head(burst), "GPRMC") /\ rx.full # 0
        <3>1. RmcComing /\ enabled =>
                  Is(Head(burst), "GPRMC") /\ rx.empty = 0 /\ pc \in {"wait", "read"}
            BY <1>3 DEF AllGoesWell, RmcFitsIn
        <3>. QED BY <1>3, <1>8, <3>1, SizeIsNat DEF PairInv, FifoInv, PlacesKept, Clearing
    <2>5. ASSUME NEW i \in 1 .. UnreadCount', Is(Unread(i), "GPZDA")'
          PROVE  Unread(i)'.of = second /\ (RmcTaken' \/ RmcUnread(i - 1)')
        <3>1. CASE i \in 1 .. UnreadCount
            <4>1. Unread(i)' = Unread(i) /\ i - 1 \in 0 .. UnreadCount
                BY <2>1, <2>2, <3>1
            <4>2. Is(Unread(i), "GPZDA")
                BY <2>5, <4>1 DEF Is
            <4>3. Unread(i).of = second /\ (RmcTaken \/ RmcUnread(i - 1))
                BY <1>3, <1>11, <3>1, <4>2 DEF AllGoesWell, InOrder
            <4>. QED BY <1>5, <2>3, <4>1, <4>3
        <3>2. CASE i \notin 1 .. UnreadCount
            <4>1. i = UnreadCount + 1 /\ Unread(i)' = Head(burst) /\ i - 1 = UnreadCount /\ enabled
                BY <2>1, <2>2, <2>5, <3>2
            <4>2. ZdaComing /\ Head(burst).of = second
                BY <1>4, <2>5, <4>1 DEF Is
            <4>3. RmcTaken \/ RmcUnread(UnreadCount)
                BY <1>3, <1>11, <4>1, <4>2 DEF AllGoesWell, InOrder
            <4>4. UnreadCount \in 0 .. UnreadCount
                BY <2>1
            <4>. QED BY <1>5, <2>3, <4>1, <4>2, <4>3, <4>4
        <3>. QED BY <3>1, <3>2
    <2>6. ASSUME enabled, ZdaComing'
          PROVE  RmcTaken' \/ RmcUnread(UnreadCount)'
        <3>1. RmcComing /\ Is(Head(burst), "GPRMC") /\ rx.full # 0
            BY <1>4, <2>4, <2>6
        <3>2. PICK n : n = UnreadCount + 1
            OBVIOUS
        <3>3. n = UnreadCount' /\ n \in 1 .. n /\ Unread(n)' = Head(burst)
            BY <2>1, <2>2, <2>6, <3>1, <3>2
        <3>4. Is(Unread(n), "GPRMC")'
            BY <3>1, <3>3 DEF Is
        <3>. QED BY <3>3, <3>4 DEF RmcUnread
    <2>7. InOrder'
        BY <1>2, <1>3, <2>5, <2>6 DEF AllGoesWell, InOrder, Reading
    <2>. QED BY <1>2, <1>3, <1>6, <1>9, <2>7 DEF AllGoesWell
<1>. QED BY <1>10, <1>11

\* The steps that leave rx_fifo alone, or only its semaphores.
LEMMA PairInvWait ==
    ASSUME PairInv, FifoInv', BurstWait \/ GetWait PROVE PairInv'
<1>1. /\ UNCHANGED <<second, burst, pps_ts_q32, enabled, clean, undisturbed>>
      /\ rx'.head = rx.head /\ rx'.data = rx.data /\ rx'.open = rx.open
      /\ BurstWait => /\ pc = "wait" /\ pc' = "read" /\ rx' = rx
                      /\ gps_data'.valid_messages = {}
      /\ GetWait => /\ pc = "read" /\ pc' = "get" /\ gps_data' = gps_data
                    /\ rx.empty > 0 /\ rx'.empty = rx.empty - 1
    BY TypeOKHasRx DEF BurstWait, GetWait, history, PairInv, FifoInv, TypeOK, NoMessages, RxType
<1>. SUFFICES ASSUME clean PROVE AllGoesWell'
    BY <1>1 DEF PairInv
<1>2. rx.empty \in 0 .. 2 * Size /\ AllGoesWell
    BY TypeOKHasRx, RxUpdates DEF PairInv, FifoInv
<1>3. UnreadCount' = UnreadCount /\ \A i : Unread(i)' = Unread(i)
    BY <1>1, <1>2, SizeIsNat DEF UnreadCount, Held, Unread
<1>4. \A n : RmcUnread(n)' = RmcUnread(n)
    BY <1>3 DEF RmcUnread
<1>5. (RmcTaken => RmcTaken') /\ ZdaComing' = ZdaComing /\ RmcComing' = RmcComing
    BY <1>1 DEF RmcTaken, ZdaComing, RmcComing, Reading
<1>6. \A i : Is(Unread(i), "GPZDA")' = Is(Unread(i), "GPZDA")
    BY <1>3 DEF Is
<1>7. InOrder'
    BY <1>1, <1>2, <1>3, <1>4, <1>5, <1>6 DEF AllGoesWell, InOrder, Reading
<1>8. Is(Head(burst), "GPRMC")' = Is(Head(burst), "GPRMC")
    BY <1>1 DEF Is
<1>9. RmcFitsIn' /\ Cleared'
    BY <1>1, <1>2, <1>5, <1>8 DEF AllGoesWell, RmcFitsIn, Cleared
<1>. QED BY <1>1, <1>2, <1>7, <1>9 DEF AllGoesWell

LEMMA PairInvParse ==
    ASSUME PairInv, FifoInv', GetAndParse PROVE PairInv'
<1>1. /\ UNCHANGED <<second, burst, pps_ts_q32, enabled, clean, undisturbed>>
      /\ pc = "get" /\ pc' = IF Enough(gps_data') THEN "disable" ELSE "read"
      /\ gps_data' = Parsed(gps_data, rx.data[rx.head])
    BY DEF GetAndParse, history
<1>2. rx'.empty = rx.empty /\ rx'.open = rx.open
    BY ReleaseEffect DEF PairInv
<1>. SUFFICES ASSUME clean PROVE AllGoesWell'
    BY <1>1 DEF PairInv
<1>3. AllGoesWell /\ FifoInv /\ undisturbed
    BY DEF PairInv, AllGoesWell
<1>4. /\ UnreadCount \in Nat /\ UnreadCount >= 1 /\ UnreadCount' = UnreadCount - 1
      /\ rx.data[rx.head] = Unread(1)
      /\ \A i \in 1 .. UnreadCount - 1 : Unread(i)' = Unread(i + 1)
    BY <1>3, UnreadTaken
<1>5. PICK x : x = Unread(1)
    OBVIOUS
<1>6. x \in Sentence \cup {NULL}
    <2>1. rx.data \in [Index -> Sentence \cup {NULL}] /\ rx.head \in Index
        BY <1>3, TypeOKHasRx, RxUpdates DEF FifoInv
    <2>. QED BY <1>4, <1>5, <2>1
<1>7. /\ gps_data \in [valid_messages : SUBSET {"GPRMC", "GPZDA"}, unix_time : Second]
      /\ gps_data' = Parsed(gps_data, x)
    BY <1>1, <1>3, <1>4, <1>5 DEF FifoInv, TypeOK
<1>8. /\ Is(x, "GPRMC") =>
            gps_data'.valid_messages = gps_data.valid_messages \cup {"GPRMC"}
      /\ Is(x, "GPZDA") =>
            /\ gps_data'.valid_messages = gps_data.valid_messages \cup {"GPZDA"}
            /\ gps_data'.unix_time = x.of
      /\ ~Is(x, "GPRMC") /\ ~Is(x, "GPZDA") => gps_data' = gps_data
    BY <1>6, <1>7 DEF Parsed, Is, Sentence
<1>9. RmcTaken <=> "GPRMC" \in gps_data.valid_messages
    BY <1>1 DEF RmcTaken, Reading
<1>10. /\ Is(x, "GPZDA") => x.of = second /\ "GPRMC" \in gps_data.valid_messages
       /\ "GPZDA" \notin gps_data.valid_messages
    <2>1. 1 \in 1 .. UnreadCount
        BY <1>4
    <2>2. ~RmcUnread(1 - 1)
        BY DEF RmcUnread
    <2>. QED BY <1>1, <1>3, <1>5, <1>9, <2>1, <2>2 DEF AllGoesWell, InOrder, Reading
<1>11. Enough(gps_data') <=> Is(x, "GPZDA")
    BY <1>7, <1>8, <1>10 DEF Enough, Is
<1>12. RmcFitsIn' /\ Cleared'
    BY <1>1, <1>3 DEF AllGoesWell, RmcFitsIn, RmcComing, Cleared
<1>13. CASE Is(x, "GPZDA")
    <2>1. pc' = "disable" /\ gps_data'.unix_time = second
        BY <1>1, <1>8, <1>10, <1>11, <1>13
    <2>2. InOrder'
        BY <1>1, <2>1 DEF InOrder, Reading
    <2>. QED BY <1>1, <1>2, <1>3, <1>12, <2>2 DEF AllGoesWell
<1>14. CASE ~Is(x, "GPZDA")
    <2>1. pc' = "read" /\ "GPZDA" \notin gps_data'.valid_messages
        BY <1>1, <1>7, <1>8, <1>10, <1>11, <1>14
    <2>2. RmcTaken' <=> RmcTaken \/ Is(x, "GPRMC")
        BY <1>7, <1>8, <1>9, <1>14, <2>1 DEF RmcTaken, Reading
    <2>3. \A n \in 1 .. UnreadCount : RmcTaken \/ RmcUnread(n) => RmcTaken' \/ RmcUnread(n - 1)'
        <3>. SUFFICES ASSUME NEW n \in 1 .. UnreadCount, RmcUnread(n), ~Is(x, "GPRMC")
                      PROVE  RmcUnread(n - 1)'
            BY <2>2
        <3>1. PICK j \in 1 .. n : Is(Unread(j), "GPRMC")
            BY DEF RmcUnread
        <3>2. j # 1 /\ j \in Int
            BY <1>5, <3>1
        <3>3. j - 1 \in 1 .. n - 1 /\ j - 1 \in 1 .. UnreadCount - 1 /\ (j - 1) + 1 = j
            BY <1>4, <3>1, <3>2
        <3>4. \A i \in 1 .. UnreadCount - 1 : Is(Unread(i + 1), "GPRMC") => Is(Unread(i), "GPRMC")'
            BY <1>4 DEF Is
        <3>5. PICK i : i = j - 1
            OBVIOUS
        <3>6. Is(Unread(i), "GPRMC")' /\ i \in 1 .. n - 1
            BY <3>1, <3>3, <3>4, <3>5
        <3>. QED BY <3>6 DEF RmcUnread
    <2>4. ASSUME NEW i \in 1 .. UnreadCount', Is(Unread(i), "GPZDA")'
          PROVE  Unread(i)'.of = second /\ (RmcTaken' \/ RmcUnread(i - 1)')
        <3>1. i \in 1 .. UnreadCount - 1 /\ i + 1 \in 1 .. UnreadCount /\ i \in 1 .. UnreadCount
              /\ i + 1 - 1 = i
            BY <1>4
        <3>2. Unread(i)' = Unread(i + 1) /\ Is(Unread(i + 1), "GPZDA")
            BY <1>4, <2>4, <3>1 DEF Is
        <3>3. Unread(i + 1).of = second /\ (RmcTaken \/ RmcUnread(i))
            BY <1>1, <1>3, <3>1, <3>2 DEF AllGoesWell, InOrder, Reading
        <3>. QED BY <2>3, <3>1, <3>2, <3>3
    <2>5. enabled /\ ZdaComing => RmcTaken' \/ RmcUnread(UnreadCount)'
        <3>1. enabled /\ ZdaComing => RmcTaken \/ RmcUnread(UnreadCount)
            BY <1>1, <1>3 DEF AllGoesWell, InOrder, Reading
        <3>2. UnreadCount \in 1 .. UnreadCount
            BY <1>4
        <3>3. \A n : n = UnreadCount - 1 => (RmcUnread(UnreadCount)' <=> RmcUnread(n)')
            BY <1>4 DEF RmcUnread
        <3>. QED BY <2>3, <3>1, <3>2, <3>3
    <2>6. ZdaComing' = ZdaComing
        BY <1>1 DEF ZdaComing
    <2>7. InOrder'
        BY <1>1, <2>1, <2>4, <2>5, <2>6 DEF InOrder, Reading
    <2>. QED BY <1>1, <1>2, <1>3, <1>12, <2>7 DEF AllGoesWell
<1>. QED BY <1>13, <1>14

LEMMA PairInvClear ==
    ASSUME PairInv, FifoInv', Disable \/ fifo8_clear PROVE PairInv'
<1>1. /\ UNCHANGED <<second, burst, pps_ts_q32, gps_data, clean>>
      /\ pc \in {"disable"} \cup Clearing /\ pc' \in {"judge"} \cup Clearing
      /\ \/ pc = "disable" /\ ~enabled' /\ undisturbed' /\ pc' = "clear_full"
         \/ pc \in Clearing /\ UNCHANGED <<enabled, undisturbed>>
      /\ pc' = "judge" => pc = "clear_indices"
    BY DEF Disable, fifo8_clear, ClearFull, ClearEmpty, ClearIndices, ClearStep,
           history, Clearing
<1>2. pc' = "judge" => rx'.empty = rx.empty
    BY TypeOKHasRx DEF Disable, fifo8_clear, ClearFull, ClearEmpty, ClearIndices, ClearStep,
                       PairInv, FifoInv, RxType
<1>3. rx'.open => rx.open
    BY TypeOKHasRx DEF Disable, fifo8_clear, ClearFull, ClearEmpty, ClearIndices, ClearStep,
                       PairInv, FifoInv, RxType
<1>. SUFFICES ASSUME clean PROVE AllGoesWell'
    BY <1>1 DEF PairInv
<1>4. AllGoesWell /\ undisturbed
    BY DEF PairInv, AllGoesWell
<1>5. InOrder'
    BY <1>1, <1>4 DEF AllGoesWell, InOrder, Clearing, Reading
<1>6. ~enabled'
    BY <1>1, <1>4 DEF PairInv, FifoInv, ClearUndisturbed
<1>7. RmcFitsIn'
    BY <1>6 DEF RmcFitsIn
<1>8. Cleared'
    BY <1>1, <1>2, <1>4, <1>6 DEF PairInv, FifoInv, ClearUndisturbed, Cleared, Clearing
<1>9. undisturbed'
    BY <1>1, <1>4
<1>. QED BY <1>1, <1>3, <1>4, <1>5, <1>7, <1>8, <1>9 DEF AllGoesWell

LEMMA PairInvJudge ==
    ASSUME PairInv, FifoInv', Judge PROVE PairInv'
<1>1. /\ UNCHANGED <<second, burst, pps_ts_q32, enabled, rx, gps_data, clean, undisturbed>>
      /\ pc = "judge" /\ pc' = "wait"
    BY DEF Judge, NoFixOrCoarse, FineSmall, FineLarge, JudgeEnd, history
<1>. SUFFICES ASSUME clean PROVE AllGoesWell'
    BY <1>1 DEF PairInv
<1>2. AllGoesWell /\ ~enabled /\ rx.empty = 0
    BY <1>1 DEF PairInv, AllGoesWell, Cleared
<1>3. UnreadCount' = 0
    BY <1>1, <1>2 DEF UnreadCount, Held
<1>4. InOrder' /\ RmcFitsIn' /\ Cleared'
    BY <1>1, <1>2, <1>3 DEF InOrder, Reading, RmcFitsIn, Cleared
<1>. QED BY <1>1, <1>2, <1>4 DEF AllGoesWell

LEMMA PairInvStep == PairInv /\ [Next]_vars => PairInv'
<1>1. PairInv /\ [Next]_vars => FifoInv'
    BY FifoInvStep DEF PairInv
<1>2. PairInv /\ Next => PairInv'
    BY <1>1, PairInvInterrupt, PairInvReceive, PairInvWait, PairInvParse, PairInvClear,
       PairInvJudge DEF Next, gps_timesync
<1>3. PairInv /\ UNCHANGED vars => PairInv'
    <2>. SUFFICES ASSUME PairInv, UNCHANGED vars, clean PROVE AllGoesWell'
        BY <1>1 DEF PairInv, vars, history
    <2>1. AllGoesWell
        BY DEF PairInv
    <2>2. /\ UNCHANGED <<second, burst, pps_ts_q32, enabled, rx, pc, gps_data, undisturbed>>
        BY DEF vars, task, history
    <2>3. UnreadCount' = UnreadCount /\ \A i : Unread(i)' = Unread(i)
        BY <2>2 DEF UnreadCount, Held, Unread
    <2>. QED BY <2>1, <2>2, <2>3 DEF AllGoesWell, InOrder, RmcFitsIn, Cleared, RmcTaken,
             RmcUnread, RmcComing, ZdaComing, Is
<1>. QED BY <1>2, <1>3

\* The first good pulse that finds the task idle is paired with its own second's
\* sentence (gps.c:164-165), and so are those that follow while all goes well, for
\* every number of seconds, every size of rx_fifo, and whatever a line that was
\* cut short says: GPRMC, which is first, finds room, and the GPZDA that follows
\* it completes what the task waits for.
THEOREM Paired == Spec => []PairedIfClean
<1>1. PairInv => PairedIfClean
    BY DEF PairInv, AllGoesWell, InOrder, PairedIfClean, Reading
<1>. QED BY <1>1, PairInvInit, PairInvStep, PTL DEF Spec

-----------------------------------------------------------------------------
(* get_time.                                                                 *)

\* The time returned is that of one instant, the first read's, wherever between
\* the four reads the seconds advance (timeserver.c:73-90), for every width of
\* the registers; if the reads take less than a second, and the clock is not set
\* meanwhile.
THEOREM GetTimeExact ==
    ASSUME SecondsWrap \in Nat, SecondsWrap > 1, Fraction \in Nat \ {0},
           NEW a \in Instant, NEW b \in From(a), NEW c \in From(a), NEW d \in From(a),
           Since(a, b) <= Since(a, c), Since(a, c) <= Since(a, d)
    PROVE  get_time(a.ns, b.sec, c.ns, d.sec) = a
<1>1. /\ a.sec \in 0 .. SecondsWrap - 1 /\ a.ns \in 0 .. Fraction - 1
      /\ b.sec \in 0 .. SecondsWrap - 1 /\ b.ns \in 0 .. Fraction - 1
      /\ c.sec \in 0 .. SecondsWrap - 1 /\ c.ns \in 0 .. Fraction - 1
      /\ d.sec \in 0 .. SecondsWrap - 1 /\ d.ns \in 0 .. Fraction - 1
    BY DEF Instant, From
<1>2. /\ NextSecond(a.sec) # a.sec /\ NextSecond(a.sec) \in 0 .. SecondsWrap - 1
      /\ PreviousSecond(NextSecond(a.sec)) = a.sec
    BY <1>1 DEF NextSecond, PreviousSecond
<1>3. /\ (b.sec = a.sec /\ b.ns >= a.ns) \/ (b.sec = NextSecond(a.sec) /\ b.ns < a.ns)
      /\ (c.sec = a.sec /\ c.ns >= a.ns) \/ (c.sec = NextSecond(a.sec) /\ c.ns < a.ns)
      /\ (d.sec = a.sec /\ d.ns >= a.ns) \/ (d.sec = NextSecond(a.sec) /\ d.ns < a.ns)
    BY DEF From
\* Seconds that have advanced stay advanced.
<1>4. /\ b.sec # a.sec => c.sec # a.sec
      /\ c.sec # a.sec => d.sec # a.sec
    BY <1>1, <1>3 DEF Since
<1>5. c.ns < a.ns <=> c.sec # a.sec
    BY <1>1, <1>2, <1>3
<1>6. CASE b.sec = a.sec
    <2>1. get_time(a.ns, b.sec, c.ns, d.sec) = [sec |-> a.sec, ns |-> a.ns]
        BY <1>4, <1>5, <1>6 DEF get_time
    <2>. QED BY <2>1 DEF Instant
<1>7. CASE b.sec # a.sec
    <2>1. c.ns < a.ns /\ d.sec = b.sec /\ b.sec = NextSecond(a.sec)
        BY <1>3, <1>4, <1>5, <1>7
    <2>2. get_time(a.ns, b.sec, c.ns, d.sec) = [sec |-> a.sec, ns |-> a.ns]
        BY <1>2, <2>1 DEF get_time
    <2>. QED BY <2>2 DEF Instant
<1>. QED BY <1>6, <1>7
=============================================================================
