------------------------------- MODULE Fifo -------------------------------
(***************************************************************************)
(* The FIFOs of fifo.c that carry sockets and packets between tasks        *)
(* (fifo_put, fifo_get): a ring of entries, a count of free places, a      *)
(* count of entries and a mutex. One step is what runs without another     *)
(* task seeing its middle: a successful wait, a copy, an index, a signal.  *)
(*                                                                         *)
(* A wait is taken in one step here; module Kernel has its inside.         *)
(***************************************************************************)
EXTENDS Integers, Sequences, FiniteSets

CONSTANTS Producer, Consumer, Size, Value, NULL

ASSUME FifoAssumption ==
    /\ Size \in Nat \ {0}
    /\ IsFiniteSet(Producer) /\ IsFiniteSet(Consumer) /\ Producer \cap Consumer = {}
    /\ NULL \notin Value

VARIABLES
    full, empty,  \* the counting semaphores: places to put, entries to get
    mutex,        \* 1 when taken
    head, tail, data,
    pc, value     \* of each task: its place in its call, and its argument

vars == <<full, empty, mutex, head, tail, data, pc, value>>

Task == Producer \cup Consumer
Index == 0 .. Size - 1
Place == {"idle", "lock", "copy", "advance", "unlock", "signal"}

Init ==
    /\ full = Size /\ empty = 0 /\ mutex = 0
    /\ head = 0 /\ tail = 0
    /\ data = [i \in Index |-> NULL]
    /\ pc = [t \in Task |-> "idle"]
    /\ value = [t \in Task |-> NULL]

Go(t, from, to) == pc[t] = from /\ pc' = [pc EXCEPT ![t] = to]

NextIndexPast(i) == IF i = Size THEN 0 ELSE i + 1

NextIndex(i) == IF i = Size - 1 THEN 0 ELSE i + 1

-----------------------------------------------------------------------------
\* The mutex, in either call.
LockUntested(t) ==
    /\ Go(t, "lock", "copy")
    /\ mutex' = 1
    /\ UNCHANGED <<full, empty, head, tail, data, value>>

Lock(t) ==
    /\ Go(t, "lock", "copy")
    /\ mutex = 0
    /\ mutex' = 1
    /\ UNCHANGED <<full, empty, head, tail, data, value>>

Unlock(t) ==
    /\ Go(t, "unlock", "signal")
    /\ mutex' = 0
    /\ UNCHANGED <<full, empty, head, tail, data, value>>

PutWaitUncounted(p) ==
    /\ Go(p, "idle", "lock")
    /\ full > 0
    /\ \E v \in Value : value' = [value EXCEPT ![p] = v]
    /\ UNCHANGED <<full, empty, mutex, head, tail, data>>

PutWait(p) ==
    /\ Go(p, "idle", "lock")
    /\ full > 0 /\ full' = full - 1
    /\ \E v \in Value : value' = [value EXCEPT ![p] = v]
    /\ UNCHANGED <<empty, mutex, head, tail, data>>

PutCopyAtHead(p) ==
    /\ Go(p, "copy", "advance")
    /\ data' = [data EXCEPT ![head] = value[p]]
    /\ UNCHANGED <<full, empty, mutex, head, tail, value>>

PutCopy(p) ==
    /\ Go(p, "copy", "advance")
    /\ data' = [data EXCEPT ![tail] = value[p]]
    /\ UNCHANGED <<full, empty, mutex, head, tail, value>>

PutAdvance(p) ==
    /\ Go(p, "advance", "unlock")
    /\ tail' = NextIndex(tail)
    /\ UNCHANGED <<full, empty, mutex, head, data, value>>

PutSignal(p) ==
    /\ Go(p, "signal", "idle")
    /\ empty' = empty + 1
    /\ UNCHANGED <<full, mutex, head, tail, data, value>>

GetWait(c) ==
    /\ Go(c, "idle", "lock")
    /\ empty > 0 /\ empty' = empty - 1
    /\ UNCHANGED <<full, mutex, head, tail, data, value>>

GetCopy(c) ==
    /\ Go(c, "copy", "advance")
    /\ value' = [value EXCEPT ![c] = data[head]]
    /\ UNCHANGED <<full, empty, mutex, head, tail, data>>

GetAdvance(c) ==
    /\ Go(c, "advance", "unlock")
    /\ head' = NextIndex(head)
    /\ UNCHANGED <<full, empty, mutex, tail, data, value>>

GetSignal(c) ==
    /\ Go(c, "signal", "idle")
    /\ full' = full + 1
    /\ UNCHANGED <<empty, mutex, head, tail, data, value>>

fifo_put(p) == PutWait(p) \/ Lock(p) \/ PutCopy(p) \/ PutAdvance(p) \/ Unlock(p) \/ PutSignal(p)
fifo_get(c) == GetWait(c) \/ Lock(c) \/ GetCopy(c) \/ GetAdvance(c) \/ Unlock(c) \/ GetSignal(c)

Next == (\E p \in Producer : fifo_put(p)) \/ (\E c \in Consumer : fifo_get(c))

Spec == Init /\ [][Next]_vars

-----------------------------------------------------------------------------
TypeOK ==
    /\ full \in 0 .. Size /\ empty \in 0 .. Size /\ mutex \in {0, 1}
    /\ head \in Index /\ tail \in Index
    /\ data \in [Index -> Value \cup {NULL}]
    /\ pc \in [Task -> Place]
    /\ value \in [Task -> Value \cup {NULL}]

At(S, places) == {t \in S : pc[t] \in places}

\* Every place of the ring is free, holds an entry, or is in the hands of one
\* call: no call lets two tasks use one place, none loses one (fifo.c:26-34,
\* 38-46).
PlacesConserved ==
    full + empty + Cardinality(At(Task, Place \ {"idle"})) = Size

\* One task at a time is between the copy and the mutex's release.
Exclusive ==
    /\ \A t, u \in At(Task, {"copy", "advance", "unlock"}) : t = u
    /\ mutex = 0 <=> At(Task, {"copy", "advance", "unlock"}) = {}

\* Where the calls are: a place offered or entered by a producer, an entry
\* claimed, copied or used up by a consumer.
Offered == Cardinality(At(Producer, {"lock", "copy", "advance"}))
Entered == Cardinality(At(Producer, {"unlock", "signal"}))
Claimed == Cardinality(At(Consumer, {"lock", "copy"}))
Copied == Cardinality(At(Consumer, {"advance"}))
Used == Cardinality(At(Consumer, {"unlock", "signal"}))

Ring(i) == IF i < Size THEN i ELSE i - Size

\* The abstract queue: the entries from the first one no consumer has copied.
\* An entry exists from the advance of tail to its copy.
EntryCount == empty + Entered + Claimed
EntryAt(i) == data[Ring(head + Copied + i - 1)]
Entries == [i \in 1 .. EntryCount |-> EntryAt(i)]

Hand ==
    [t \in Task |->
        IF pc[t] \in (IF t \in Producer THEN {"lock", "copy", "advance"}
                                        ELSE {"advance", "unlock", "signal"})
        THEN value[t] ELSE NULL]

Abstract == INSTANCE BoundedQueue WITH queue <- Entries, hand <- Hand

\* What is put comes out once and in order, and no entry is overwritten before
\* it is read, whatever the order of the tasks' steps.
ImplementsQueue == Abstract!Spec
=============================================================================
