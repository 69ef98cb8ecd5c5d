------------------------------ MODULE PtpClock ------------------------------
(***************************************************************************)
(* The time server's reading of the PTP clock (get_time, timeserver.c).    *)
(* The clock has two registers, seconds and fraction, that cannot be read  *)
(* at once; get_time reads both twice, and may be interrupted between any  *)
(* two of its four reads.                                                  *)
(***************************************************************************)
EXTENDS Integers

CONSTANTS
    SecondsWrap,  \* MACSTSR counts modulo this
    Fraction      \* MACSTNR counts modulo this

\* What the clock shows at an instant.
Instant == [sec : 0 .. SecondsWrap - 1, ns : 0 .. Fraction - 1]

NextSecond(s) == IF s = SecondsWrap - 1 THEN 0 ELSE s + 1

\* The instants from a on, until it is a second later.
From(a) ==
    {b \in Instant : \/ b.sec = a.sec /\ b.ns >= a.ns
                     \/ b.sec = NextSecond(a.sec) /\ b.ns < a.ns}

Since(a, b) == IF b.sec = a.sec THEN b.ns - a.ns ELSE b.ns + Fraction - a.ns

-----------------------------------------------------------------------------
\* sec_ts -= 1, of an unsigned number.
PreviousSecond(s) == IF s = 0 THEN SecondsWrap - 1 ELSE s - 1

\* The two halves of the q32.32 value.
get_time(ns_ts, sec_ts, ns_ts2, sec_ts2) ==
    LET rollover_occurred == ns_ts2 < ns_ts
        sampled_after_rollover == sec_ts = sec_ts2
    IN  [sec |-> IF rollover_occurred /\ sampled_after_rollover
                 THEN PreviousSecond(sec_ts) ELSE sec_ts,
         ns |-> ns_ts]
=============================================================================
