---------------------------- MODULE FifoProofs ----------------------------
(***************************************************************************)
(* Proofs about the FIFOs, for any producers, consumers, size and values.  *)
(***************************************************************************)
EXTENDS Fifo, FiniteSetTheorems, SequenceTheorems, TLAPS

Critical == {"copy", "advance", "unlock"}

\* The values in hand and in the ring are values, and the one a producer has
\* copied is at tail.
ValuesKept ==
    /\ \A p \in Producer : pc[p] \in {"lock", "copy", "advance"} => value[p] \in Value
    /\ \A c \in Consumer : pc[c] \in {"advance", "unlock", "signal"} => value[c] \in Value
    /\ \A p \in Producer : pc[p] = "advance" => data[tail] = value[p]
    /\ \A i \in 1 .. EntryCount : EntryAt(i) \in Value

\* The inductive invariant: the counts account for every place, and tail is
\* where the entries end.
FifoInv ==
    /\ TypeOK
    /\ Cardinality(At(Task, Place \ {"idle"})) = Offered + Entered + Claimed + Copied + Used
    /\ PlacesConserved
    /\ Exclusive
    /\ tail = Ring(head + Copied + EntryCount)
    /\ ValuesKept

-----------------------------------------------------------------------------
(* How a step of one task changes the counts.                                *)

In(place, places) == IF place \in places THEN 1 ELSE 0

LEMMA TasksFinite == IsFiniteSet(Task) /\ Producer \subseteq Task /\ Consumer \subseteq Task
    BY FS_Union, FifoAssumption DEF Task

LEMMA CountsAreNat ==
    \A S \in SUBSET Task : \A places :
        IsFiniteSet(At(S, places)) /\ Cardinality(At(S, places)) \in Nat
<1>. SUFFICES ASSUME NEW S \in SUBSET Task, NEW places
              PROVE  IsFiniteSet(At(S, places)) /\ Cardinality(At(S, places)) \in Nat
    OBVIOUS
<1>1. At(S, places) \in SUBSET Task
    BY DEF At
<1>. QED BY <1>1, TasksFinite, FS_Subset, FS_CardinalityType

\* A task that goes from one place to another leaves the number of those at
\* given places as it was, but for itself.
LEMMA Moved ==
    ASSUME pc \in [Task -> Place], NEW S \in SUBSET Task, NEW places,
           NEW t \in Task, NEW from, NEW to, Go(t, from, to)
    PROVE  Cardinality(At(S, places)') =
             Cardinality(At(S, places))
               + IF t \in S THEN In(to, places) - In(from, places) ELSE 0
<1> DEFINE A == At(S, places)
           B == {u \in S : pc'[u] \in places}
<1>0. At(S, places)' = B
    BY DEF At
<1>1. /\ pc' = [pc EXCEPT ![t] = to] /\ pc[t] = from /\ pc'[t] = to
      /\ \A u \in S : u # t => pc'[u] = pc[u]
    BY DEF Go
<1>2. IsFiniteSet(A) /\ Cardinality(A) \in Nat
    BY CountsAreNat
<1>3. CASE t \in S /\ from \notin places /\ to \in places
    <2>1. B = A \cup {t} /\ t \notin A
        BY <1>1, <1>3 DEF At
    <2>2. Cardinality(B) = Cardinality(A) + 1
        BY <2>1, <1>2, FS_AddElement
    <2>. QED BY <2>2, <1>3, <1>2, <1>0 DEF In
<1>4. CASE t \in S /\ from \in places /\ to \notin places
    <2>1. B = A \ {t} /\ t \in A
        BY <1>1, <1>4 DEF At
    <2>2. Cardinality(B) = Cardinality(A) - 1
        BY <2>1, <1>2, FS_RemoveElement
    <2>. QED BY <2>2, <1>4, <1>2, <1>0 DEF In
<1>5. CASE ~(t \in S) \/ (from \in places <=> to \in places)
    <2>1. B = A
        BY <1>1, <1>5 DEF At
    <2>2. (IF t \in S THEN In(to, places) - In(from, places) ELSE 0) = 0
        BY <1>5 DEF In
    <2>. HIDE DEF A, B
    <2>3. Cardinality(B) = Cardinality(A) + 0
        BY <2>1, <1>2
    <2>. QED BY <2>2, <2>3, <1>0 DEF A
<1>. QED BY <1>3, <1>4, <1>5

\* The same for each of the counts.
LEMMA CountsMoved ==
    ASSUME pc \in [Task -> Place], NEW t \in Task, NEW from, NEW to, Go(t, from, to)
    PROVE  /\ Cardinality(At(Task, Place \ {"idle"})') =
                Cardinality(At(Task, Place \ {"idle"}))
                  + In(to, Place \ {"idle"}) - In(from, Place \ {"idle"})
           /\ t \in Producer =>
                /\ Offered' = Offered + In(to, {"lock", "copy", "advance"})
                                      - In(from, {"lock", "copy", "advance"})
                /\ Entered' = Entered + In(to, {"unlock", "signal"})
                                      - In(from, {"unlock", "signal"})
                /\ Claimed' = Claimed /\ Copied' = Copied /\ Used' = Used
           /\ t \in Consumer =>
                /\ Claimed' = Claimed + In(to, {"lock", "copy"}) - In(from, {"lock", "copy"})
                /\ Copied' = Copied + In(to, {"advance"}) - In(from, {"advance"})
                /\ Used' = Used + In(to, {"unlock", "signal"}) - In(from, {"unlock", "signal"})
                /\ Offered' = Offered /\ Entered' = Entered
<1>1. /\ Cardinality(At(Task, Place \ {"idle"})) \in Nat
      /\ Offered \in Nat /\ Entered \in Nat
      /\ Claimed \in Nat /\ Copied \in Nat /\ Used \in Nat
    BY CountsAreNat, TasksFinite DEF Offered, Entered, Claimed, Copied, Used
<1>2. \A S \in SUBSET Task : \A places :
        Cardinality(At(S, places)') =
            Cardinality(At(S, places))
              + IF t \in S THEN In(to, places) - In(from, places) ELSE 0
    BY Moved
<1>3. Producer \cap Consumer = {}
    BY FifoAssumption
<1>4. \A places : In(to, places) \in Int /\ In(from, places) \in Int
    BY DEF In
<1>5. Cardinality(At(Task, Place \ {"idle"})') =
          Cardinality(At(Task, Place \ {"idle"}))
            + (In(to, Place \ {"idle"}) - In(from, Place \ {"idle"}))
    BY <1>2
<1>6. /\ Offered' = Offered + IF t \in Producer
                              THEN In(to, {"lock", "copy", "advance"})
                                   - In(from, {"lock", "copy", "advance"}) ELSE 0
      /\ Entered' = Entered + IF t \in Producer
                              THEN In(to, {"unlock", "signal"})
                                   - In(from, {"unlock", "signal"}) ELSE 0
    BY <1>2, TasksFinite DEF Offered, Entered
<1>7. /\ Claimed' = Claimed + IF t \in Consumer
                              THEN In(to, {"lock", "copy"}) - In(from, {"lock", "copy"}) ELSE 0
      /\ Copied' = Copied + IF t \in Consumer
                              THEN In(to, {"advance"}) - In(from, {"advance"}) ELSE 0
      /\ Used' = Used + IF t \in Consumer
                              THEN In(to, {"unlock", "signal"})
                                   - In(from, {"unlock", "signal"}) ELSE 0
    BY <1>2, TasksFinite DEF Claimed, Copied, Used
<1>8. /\ t \in Producer => t \notin Consumer
      /\ t \in Consumer => t \notin Producer
    BY <1>3
<1>. QED BY <1>1, <1>4, <1>5, <1>6, <1>7, <1>8

Counts == <<Offered, Entered, Claimed, Copied, Used>>

LEMMA CountTypes ==
    /\ Cardinality(At(Task, Place \ {"idle"})) \in Nat
    /\ Offered \in Nat /\ Entered \in Nat /\ Claimed \in Nat /\ Copied \in Nat /\ Used \in Nat
BY CountsAreNat, TasksFinite DEF Offered, Entered, Claimed, Copied, Used

LEMMA CountTypesNext ==
    /\ Cardinality(At(Task, Place \ {"idle"})') \in Nat
    /\ Offered' \in Nat /\ Entered' \in Nat /\ Claimed' \in Nat /\ Copied' \in Nat
    /\ Used' \in Nat
<1>1. \A S \in SUBSET Task : \A places : Cardinality(At(S, places)') \in Nat
    <2>. SUFFICES ASSUME NEW S \in SUBSET Task, NEW places
                  PROVE  Cardinality(At(S, places)') \in Nat
        OBVIOUS
    <2>1. At(S, places)' \in SUBSET Task
        BY DEF At
    <2>. QED BY <2>1, TasksFinite, FS_Subset, FS_CardinalityType
<1>. QED BY <1>1, TasksFinite DEF Offered, Entered, Claimed, Copied, Used

\* At most one consumer has copied, and only while it is critical.
LEMMA CopiedOnce ==
    ASSUME FifoInv
    PROVE  /\ \A p \in Producer : pc[p] \in Critical => Copied = 0
           /\ \A c \in Consumer : pc[c] \in Critical =>
                    Copied = IF pc[c] = "advance" THEN 1 ELSE 0
           /\ Copied <= 1
<1>1. \A t, u \in Task : pc[t] \in Critical /\ pc[u] \in Critical => t = u
    BY DEF FifoInv, Exclusive, At, Critical
<1>2. /\ Producer \cap Consumer = {} /\ Producer \subseteq Task /\ Consumer \subseteq Task
    BY FifoAssumption, TasksFinite
<1>3. \A c \in Consumer : pc[c] = "advance" => Copied = 1
    <2>. SUFFICES ASSUME NEW c \in Consumer, pc[c] = "advance" PROVE Copied = 1
        OBVIOUS
    <2>1. At(Consumer, {"advance"}) = {c}
        BY <1>1, <1>2 DEF At, Critical
    <2>. QED BY <2>1, FS_Singleton DEF Copied
<1>4. (\A c \in Consumer : pc[c] # "advance") => Copied = 0
    <2>. SUFFICES ASSUME \A c \in Consumer : pc[c] # "advance" PROVE Copied = 0
        OBVIOUS
    <2>1. At(Consumer, {"advance"}) = {}
        BY DEF At
    <2>. QED BY <2>1, FS_EmptySet DEF Copied
<1>5. "advance" \in Critical
    BY DEF Critical
<1>6. ASSUME NEW p \in Producer, pc[p] \in Critical PROVE Copied = 0
    BY <1>6, <1>1, <1>2, <1>4, <1>5
<1>7. ASSUME NEW c \in Consumer, pc[c] \in Critical
      PROVE  Copied = IF pc[c] = "advance" THEN 1 ELSE 0
    BY <1>7, <1>1, <1>2, <1>3, <1>4, <1>5
<1>. QED BY <1>3, <1>4, <1>6, <1>7

\* What the step of a producer or a consumer does to the counts.
LEMMA ProducerCounts ==
    ASSUME TypeOK, NEW p \in Producer
    PROVE  /\ Go(p, "idle", "lock") => Counts' = <<Offered + 1, Entered, Claimed, Copied, Used>>
           /\ Go(p, "lock", "copy") \/ Go(p, "copy", "advance") \/ Go(p, "unlock", "signal")
                => Counts' = Counts
           /\ Go(p, "advance", "unlock")
                => Counts' = <<Offered - 1, Entered + 1, Claimed, Copied, Used>>
           /\ Go(p, "signal", "idle") => Counts' = <<Offered, Entered - 1, Claimed, Copied, Used>>
<1>. pc \in [Task -> Place] /\ p \in Task
    BY TasksFinite DEF TypeOK
<1>1. ASSUME NEW from, NEW to, Go(p, from, to)
      PROVE  Counts' = <<Offered + In(to, {"lock", "copy", "advance"})
                                 - In(from, {"lock", "copy", "advance"}),
                         Entered + In(to, {"unlock", "signal"}) - In(from, {"unlock", "signal"}),
                         Claimed, Copied, Used>>
    BY <1>1, CountsMoved DEF Counts
<1>. QED BY <1>1, CountTypes DEF In, Counts

LEMMA ConsumerCounts ==
    ASSUME TypeOK, NEW c \in Consumer
    PROVE  /\ Go(c, "idle", "lock") => Counts' = <<Offered, Entered, Claimed + 1, Copied, Used>>
           /\ Go(c, "lock", "copy") \/ Go(c, "unlock", "signal") => Counts' = Counts
           /\ Go(c, "copy", "advance")
                => Counts' = <<Offered, Entered, Claimed - 1, Copied + 1, Used>>
           /\ Go(c, "advance", "unlock")
                => Counts' = <<Offered, Entered, Claimed, Copied - 1, Used + 1>>
           /\ Go(c, "signal", "idle") => Counts' = <<Offered, Entered, Claimed, Copied, Used - 1>>
<1>. pc \in [Task -> Place] /\ c \in Task
    BY TasksFinite DEF TypeOK
<1>1. ASSUME NEW from, NEW to, Go(c, from, to)
      PROVE  Counts' = <<Offered, Entered,
                         Claimed + In(to, {"lock", "copy"}) - In(from, {"lock", "copy"}),
                         Copied + In(to, {"advance"}) - In(from, {"advance"}),
                         Used + In(to, {"unlock", "signal"}) - In(from, {"unlock", "signal"})>>
    BY <1>1, CountsMoved DEF Counts
<1>. QED BY <1>1, CountTypes DEF In, Counts

\* A step from busy to busy, into a call or out of one.
LEMMA BusyMoved ==
    ASSUME TypeOK, NEW t \in Task, NEW from \in Place, NEW to \in Place, Go(t, from, to)
    PROVE  Cardinality(At(Task, Place \ {"idle"})') =
             Cardinality(At(Task, Place \ {"idle"}))
               + (IF to = "idle" THEN 0 ELSE 1) - (IF from = "idle" THEN 0 ELSE 1)
<1>1. Cardinality(At(Task, Place \ {"idle"})') =
             Cardinality(At(Task, Place \ {"idle"}))
               + In(to, Place \ {"idle"}) - In(from, Place \ {"idle"})
    BY CountsMoved, SMTT(30) DEF TypeOK
<1>. QED BY <1>1 DEF In

-----------------------------------------------------------------------------
(* How a step changes the entries.                                           *)

LEMMA SizeIsNat == Size \in Nat /\ Size > 0
    BY FifoAssumption

LEMMA Places ==
    ASSUME FifoInv
    PROVE  /\ full \in Nat /\ empty \in Nat /\ EntryCount \in Nat
           /\ head \in 0 .. Size - 1 /\ tail \in 0 .. Size - 1
           /\ full + Offered + EntryCount + Copied + Used = Size
           /\ EntryCount = empty + Entered + Claimed
           /\ tail = Ring(head + Copied + EntryCount)
<1>1. full + empty + Offered + Entered + Claimed + Copied + Used = Size
    BY CountTypes DEF FifoInv, PlacesConserved, TypeOK
<1>2. /\ full \in Nat /\ empty \in Nat
      /\ head \in 0 .. Size - 1 /\ tail \in 0 .. Size - 1
      /\ tail = Ring(head + Copied + EntryCount)
    BY SizeIsNat DEF FifoInv, TypeOK, Index
<1>. QED BY <1>1, <1>2, CountTypes, SizeIsNat DEF EntryCount

\* A task counted in a place makes its count at least one.
LEMMA CountedOnce ==
    ASSUME NEW S \in SUBSET Task, NEW places, NEW t \in S, pc[t] \in places
    PROVE  Cardinality(At(S, places)) >= 1
<1>1. t \in At(S, places) /\ IsFiniteSet(At(S, places))
    BY CountsAreNat DEF At
<1>2. Cardinality(At(S, places)) # 0
    BY <1>1, FS_EmptySet
<1>. QED BY <1>2, CountsAreNat

\* A producer's copy is to a place where no entry is.
LEMMA CopyIsApart ==
    ASSUME FifoInv, NEW p \in Producer, pc[p] = "copy"
    PROVE  \A i \in 1 .. EntryCount : Ring(head + Copied + i - 1) # tail
<1>1. Offered >= 1
    BY CountedOnce, TasksFinite DEF Offered
<1>2. EntryCount + Copied + 1 <= Size
    BY <1>1, Places, CountTypes, SizeIsNat
<1>. SUFFICES ASSUME NEW i \in 1 .. EntryCount
              PROVE  Ring(head + Copied + i - 1) # tail
    OBVIOUS
<1>. QED BY <1>2, Places, CountTypes, SizeIsNat DEF Ring

\* Most steps leave the entries as they are.
LEMMA EntriesKept ==
    ASSUME FifoInv, NEW t \in Task,
           \/ Lock(t) \/ Unlock(t)
           \/ t \in Producer /\ (PutWait(t) \/ PutCopy(t) \/ PutSignal(t))
           \/ t \in Consumer /\ (GetWait(t) \/ GetAdvance(t) \/ GetSignal(t))
    PROVE  EntryCount' = EntryCount /\ \A i \in 1 .. EntryCount : EntryAt(i)' = EntryAt(i)
<1>. TypeOK
    BY DEF FifoInv
<1>1. t \in Producer \/ t \in Consumer
    BY DEF Task
<1>2. CASE (Lock(t) \/ Unlock(t)) /\ t \in Producer
    <2>1. Counts' = Counts /\ UNCHANGED <<empty, head, data>>
        BY <1>2, ProducerCounts DEF Lock, Unlock
    <2>. QED BY <2>1 DEF Counts, EntryCount, EntryAt, Ring
<1>3. CASE (Lock(t) \/ Unlock(t)) /\ t \in Consumer
    <2>1. Counts' = Counts /\ UNCHANGED <<empty, head, data>>
        BY <1>3, ConsumerCounts DEF Lock, Unlock
    <2>. QED BY <2>1 DEF Counts, EntryCount, EntryAt, Ring
<1>4. CASE PutWait(t) /\ t \in Producer
    <2>1. /\ Counts' = <<Offered + 1, Entered, Claimed, Copied, Used>>
          /\ UNCHANGED <<empty, head, data>>
        BY <1>4, ProducerCounts DEF PutWait
    <2>. QED BY <2>1 DEF Counts, EntryCount, EntryAt, Ring
<1>5. CASE PutCopy(t) /\ t \in Producer
    <2>1. /\ Counts' = Counts /\ UNCHANGED <<empty, head>> /\ pc[t] = "copy"
          /\ data' = [data EXCEPT ![tail] = value[t]]
        BY <1>5, ProducerCounts DEF PutCopy, Go
    <2>2. EntryCount' = EntryCount
        BY <2>1 DEF Counts, EntryCount
    <2>3. \A i : EntryAt(i)' = data'[Ring(head + Copied + i - 1)]
        BY <2>1 DEF Counts, EntryAt, Ring
    <2>4. \A j \in DOMAIN data : j # tail => data'[j] = data[j]
        BY <2>1
    <2>5. \A i \in 1 .. EntryCount : Ring(head + Copied + i - 1) \in DOMAIN data
        BY Places, CountTypes, SizeIsNat DEF TypeOK, Ring, Index
    <2>. QED BY <1>5, <2>1, <2>2, <2>3, <2>4, <2>5, CopyIsApart DEF EntryAt
<1>6. CASE PutSignal(t) /\ t \in Producer
    <2>1. /\ Counts' = <<Offered, Entered - 1, Claimed, Copied, Used>>
          /\ empty' = empty + 1 /\ UNCHANGED <<head, data>>
        BY <1>6, ProducerCounts DEF PutSignal
    <2>2. EntryCount' = EntryCount
        BY <2>1, Places, CountTypes DEF Counts, EntryCount
    <2>. QED BY <2>1, <2>2 DEF Counts, EntryAt, Ring
<1>7. CASE GetWait(t) /\ t \in Consumer
    <2>1. /\ Counts' = <<Offered, Entered, Claimed + 1, Copied, Used>>
          /\ empty' = empty - 1 /\ UNCHANGED <<head, data>>
        BY <1>7, ConsumerCounts DEF GetWait
    <2>2. EntryCount' = EntryCount
        BY <2>1, Places, CountTypes DEF Counts, EntryCount
    <2>. QED BY <2>1, <2>2 DEF Counts, EntryAt, Ring
<1>8. CASE GetAdvance(t) /\ t \in Consumer
    <2>1. /\ Counts' = <<Offered, Entered, Claimed, Copied - 1, Used + 1>>
          /\ head' = NextIndex(head) /\ UNCHANGED <<empty, data>>
        BY <1>8, ConsumerCounts DEF GetAdvance
    <2>2. EntryCount' = EntryCount
        BY <2>1 DEF Counts, EntryCount
    <2>3. Copied = 1 /\ Copied' = 0
        BY <2>1, <1>8, CopiedOnce DEF GetAdvance, Go, Counts, Critical
    <2>4. ASSUME NEW i \in 1 .. EntryCount
          PROVE  Ring(head' + 0 + i - 1) = Ring(head + 1 + i - 1)
        BY <2>1, <2>3, <2>4, Places, CountTypes, SizeIsNat DEF NextIndex, Ring
    <2>5. \A i \in 1 .. EntryCount : EntryAt(i)' = data[Ring(head' + 0 + i - 1)]
        BY <2>1, <2>3 DEF EntryAt, Ring
    <2>6. \A i \in 1 .. EntryCount : EntryAt(i) = data[Ring(head + 1 + i - 1)]
        BY <2>3 DEF EntryAt
    <2>. QED BY <2>2, <2>4, <2>5, <2>6
<1>9. CASE GetSignal(t) /\ t \in Consumer
    <2>1. /\ Counts' = <<Offered, Entered, Claimed, Copied, Used - 1>>
          /\ UNCHANGED <<empty, head, data>>
        BY <1>9, ConsumerCounts DEF GetSignal
    <2>. QED BY <2>1 DEF Counts, EntryCount, EntryAt, Ring
<1>. QED BY <1>1, <1>2, <1>3, <1>4, <1>5, <1>6, <1>7, <1>8, <1>9

\* A producer that advances tail adds its value at the end.
LEMMA EntryEntered ==
    ASSUME FifoInv, NEW p \in Producer, PutAdvance(p)
    PROVE  /\ EntryCount < Size
           /\ EntryCount' = EntryCount + 1
           /\ \A i \in 1 .. EntryCount : EntryAt(i)' = EntryAt(i)
           /\ EntryAt(EntryCount)' = value[p]
<1>1. /\ Counts' = <<Offered - 1, Entered + 1, Claimed, Copied, Used>>
      /\ UNCHANGED <<empty, head, data>> /\ pc[p] = "advance"
    BY ProducerCounts DEF PutAdvance, Go, FifoInv
<1>2. EntryCount' = EntryCount + 1
    BY <1>1, Places, CountTypes DEF Counts, EntryCount
<1>3. \A i : EntryAt(i)' = EntryAt(i)
    BY <1>1 DEF Counts, EntryAt, Ring
<1>4. data[tail] = value[p]
    BY <1>1 DEF FifoInv, ValuesKept
<1>5. EntryAt(EntryCount + 1) = data[tail]
    <2>1. head + Copied + (EntryCount + 1) - 1 = head + Copied + EntryCount
        BY Places, CountTypes
    <2>. QED BY <2>1, Places DEF EntryAt
<1>6. Offered >= 1
    BY <1>1, CountedOnce, TasksFinite DEF Offered
<1>7. EntryAt(EntryCount)' = EntryAt(EntryCount + 1)
    BY <1>1, <1>2 DEF Counts, EntryAt, Ring
<1>. QED BY <1>2, <1>3, <1>4, <1>5, <1>6, <1>7, Places, CountTypes, SizeIsNat

\* A consumer that copies takes the first entry.
LEMMA EntryCopied ==
    ASSUME FifoInv, NEW c \in Consumer, GetCopy(c)
    PROVE  /\ EntryCount >= 1
           /\ EntryCount' = EntryCount - 1
           /\ \A i \in 1 .. EntryCount - 1 : EntryAt(i)' = EntryAt(i + 1)
           /\ data[head] = EntryAt(1)
<1>1. /\ Counts' = <<Offered, Entered, Claimed - 1, Copied + 1, Used>>
      /\ UNCHANGED <<empty, head, data>> /\ pc[c] = "copy"
    BY ConsumerCounts DEF GetCopy, Go, FifoInv
<1>2. Claimed >= 1
    BY <1>1, CountedOnce, TasksFinite DEF Claimed
<1>3. EntryCount >= 1 /\ EntryCount' = EntryCount - 1
    BY <1>1, <1>2, Places, CountTypes DEF Counts, EntryCount
<1>4. Copied = 0 /\ Copied' = 1
    BY <1>1, CopiedOnce DEF Counts, Critical
<1>5. ASSUME NEW i \in 1 .. EntryCount - 1
      PROVE  EntryAt(i)' = EntryAt(i + 1)
    <2>1. EntryAt(i)' = data[Ring(head + 1 + i - 1)]
        BY <1>1, <1>4 DEF EntryAt, Ring
    <2>2. EntryAt(i + 1) = data[Ring(head + 0 + (i + 1) - 1)]
        BY <1>4 DEF EntryAt
    <2>3. head + 1 + i - 1 = head + 0 + (i + 1) - 1
        BY <1>5, Places, <1>3
    <2>. QED BY <2>1, <2>2, <2>3
<1>6. data[head] = EntryAt(1)
    BY <1>4, Places, SizeIsNat DEF EntryAt, Ring
<1>. QED BY <1>3, <1>5, <1>6

-----------------------------------------------------------------------------
(* The invariant is kept.                                                    *)

\* A step of a task of either kind, by its action.
StepOf(t) ==
    \/ Lock(t) \/ Unlock(t)
    \/ t \in Producer /\ (PutWait(t) \/ PutCopy(t) \/ PutAdvance(t) \/ PutSignal(t))
    \/ t \in Consumer /\ (GetWait(t) \/ GetCopy(t) \/ GetAdvance(t) \/ GetSignal(t))

LEMMA NextIsAStep ==
    ASSUME Next
    PROVE  \E t \in Task : StepOf(t)
    BY TasksFinite DEF Next, fifo_put, fifo_get, StepOf

\* The counts and the semaphores add up.
LEMMA SumsKept ==
    ASSUME FifoInv, Next
    PROVE  /\ Cardinality(At(Task, Place \ {"idle"})') = Offered' + Entered' + Claimed' + Copied' + Used'
           /\ PlacesConserved'
           /\ full' \in 0 .. Size /\ empty' \in 0 .. Size
<1>. DEFINE Busy == Cardinality(At(Task, Place \ {"idle"}))
            NextBusy == Cardinality(At(Task, Place \ {"idle"})')
<1>. TypeOK
    BY DEF FifoInv
<1>0. /\ Busy = Offered + Entered + Claimed + Copied + Used
      /\ full + empty + Busy = Size
      /\ full \in Nat /\ empty \in Nat
    BY DEF FifoInv, PlacesConserved, TypeOK
<1>1. SUFFICES /\ NextBusy = Offered' + Entered' + Claimed' + Copied' + Used'
               /\ full' + empty' + NextBusy = Size
               /\ full' \in Nat /\ empty' \in Nat
    <2>1. NextBusy \in Nat
        BY CountTypesNext
    <2>. QED BY <2>1, SizeIsNat DEF PlacesConserved
<1>2. PICK t \in Task : StepOf(t)
    BY NextIsAStep
<1>. USE DEF StepOf
<1>3. ASSUME NEW from \in Place, NEW to \in Place, Go(t, from, to)
      PROVE  NextBusy = Busy + (IF to = "idle" THEN 0 ELSE 1) - (IF from = "idle" THEN 0 ELSE 1)
    BY <1>3, BusyMoved
<1>4. /\ Busy \in Nat /\ NextBusy \in Nat
      /\ Offered \in Nat /\ Entered \in Nat /\ Claimed \in Nat /\ Copied \in Nat /\ Used \in Nat
    BY CountTypes, CountTypesNext
<1>5. CASE Lock(t) \/ Unlock(t)
    <2>1. Counts' = Counts
        BY <1>5, ProducerCounts, ConsumerCounts DEF Lock, Unlock, Task
    <2>2. NextBusy = Busy /\ UNCHANGED <<full, empty>>
        BY <1>5, <1>3, <1>4 DEF Lock, Unlock, Place
    <2>. QED BY <2>1, <2>2, <1>0, <1>4 DEF Counts
<1>6. CASE PutWait(t) /\ t \in Producer
    <2>1. Counts' = <<Offered + 1, Entered, Claimed, Copied, Used>>
        BY <1>6, ProducerCounts DEF PutWait
    <2>2. NextBusy = Busy + 1
        BY <1>6, <1>3, <1>4 DEF PutWait, Place
    <2>3. full > 0 /\ full' = full - 1 /\ empty' = empty
        BY <1>6 DEF PutWait
    <2>. QED BY <2>1, <2>2, <2>3, <1>0, <1>4 DEF Counts
<1>7. CASE PutCopy(t) /\ t \in Producer
    <2>1. Counts' = Counts
        BY <1>7, ProducerCounts DEF PutCopy
    <2>2. NextBusy = Busy /\ UNCHANGED <<full, empty>>
        BY <1>7, <1>3, <1>4 DEF PutCopy, Place
    <2>. QED BY <2>1, <2>2, <1>0, <1>4 DEF Counts
<1>8. CASE PutAdvance(t) /\ t \in Producer
    <2>1. Counts' = <<Offered - 1, Entered + 1, Claimed, Copied, Used>>
        BY <1>8, ProducerCounts DEF PutAdvance
    <2>2. NextBusy = Busy /\ UNCHANGED <<full, empty>>
        BY <1>8, <1>3, <1>4 DEF PutAdvance, Place
    <2>. QED BY <2>1, <2>2, <1>0, <1>4 DEF Counts
<1>9. CASE PutSignal(t) /\ t \in Producer
    <2>1. Counts' = <<Offered, Entered - 1, Claimed, Copied, Used>>
        BY <1>9, ProducerCounts DEF PutSignal
    <2>2. NextBusy = Busy - 1 /\ full' = full /\ empty' = empty + 1
        BY <1>9, <1>3, <1>4 DEF PutSignal, Place
    <2>. QED BY <2>1, <2>2, <1>0, <1>4 DEF Counts
<1>10. CASE GetWait(t) /\ t \in Consumer
    <2>1. Counts' = <<Offered, Entered, Claimed + 1, Copied, Used>>
        BY <1>10, ConsumerCounts DEF GetWait
    <2>2. NextBusy = Busy + 1
        BY <1>10, <1>3, <1>4 DEF GetWait, Place
    <2>3. empty > 0 /\ empty' = empty - 1 /\ full' = full
        BY <1>10 DEF GetWait
    <2>. QED BY <2>1, <2>2, <2>3, <1>0, <1>4 DEF Counts
<1>11. CASE GetCopy(t) /\ t \in Consumer
    <2>1. Counts' = <<Offered, Entered, Claimed - 1, Copied + 1, Used>>
        BY <1>11, ConsumerCounts DEF GetCopy
    <2>2. NextBusy = Busy /\ UNCHANGED <<full, empty>>
        BY <1>11, <1>3, <1>4 DEF GetCopy, Place
    <2>. QED BY <2>1, <2>2, <1>0, <1>4 DEF Counts
<1>12. CASE GetAdvance(t) /\ t \in Consumer
    <2>1. Counts' = <<Offered, Entered, Claimed, Copied - 1, Used + 1>>
        BY <1>12, ConsumerCounts DEF GetAdvance
    <2>2. NextBusy = Busy /\ UNCHANGED <<full, empty>>
        BY <1>12, <1>3, <1>4 DEF GetAdvance, Place
    <2>. QED BY <2>1, <2>2, <1>0, <1>4 DEF Counts
<1>13. CASE GetSignal(t) /\ t \in Consumer
    <2>1. Counts' = <<Offered, Entered, Claimed, Copied, Used - 1>>
        BY <1>13, ConsumerCounts DEF GetSignal
    <2>2. NextBusy = Busy - 1 /\ full' = full + 1 /\ empty' = empty
        BY <1>13, <1>3, <1>4 DEF GetSignal, Place
    <2>. QED BY <2>1, <2>2, <1>0, <1>4 DEF Counts
<1>. QED BY <1>2, <1>5, <1>6, <1>7, <1>8, <1>9, <1>10, <1>11, <1>12, <1>13

\* The types of the rest.
LEMMA TypesKept == ASSUME FifoInv, Next PROVE TypeOK'
<1>1. PICK t \in Task : StepOf(t)
    BY NextIsAStep
<1>. USE DEF StepOf
<1>. TypeOK
    BY DEF FifoInv
<1>2. pc' \in [Task -> Place] /\ mutex' \in {0, 1}
    <2>1. \E to \in Place : pc' = [pc EXCEPT ![t] = to]
        BY <1>1 DEF Lock, Unlock, PutWait, PutCopy, PutAdvance, PutSignal,
                    GetWait, GetCopy, GetAdvance, GetSignal, Go, Place
    <2>2. mutex' \in {0, 1, mutex}
        BY <1>1 DEF Lock, Unlock, PutWait, PutCopy, PutAdvance, PutSignal,
                    GetWait, GetCopy, GetAdvance, GetSignal
    <2>. QED BY <2>1, <2>2 DEF TypeOK
<1>3. head' \in Index /\ tail' \in Index
    <2>1. \A i \in Index : NextIndex(i) \in Index
        BY SizeIsNat DEF NextIndex, Index
    <2>2. head' \in {head, NextIndex(head)} /\ tail' \in {tail, NextIndex(tail)}
        BY <1>1 DEF Lock, Unlock, PutWait, PutCopy, PutAdvance, PutSignal,
                    GetWait, GetCopy, GetAdvance, GetSignal
    <2>. QED BY <2>1, <2>2 DEF TypeOK
<1>4. /\ data' \in [Index -> Value \cup {NULL}]
      /\ value' \in [Task -> Value \cup {NULL}]
    <2>1. CASE PutWait(t)
        BY <2>1 DEF PutWait, TypeOK
    <2>2. CASE PutCopy(t)
        BY <2>2 DEF PutCopy, TypeOK
    <2>3. CASE GetCopy(t)
        BY <2>3 DEF GetCopy, TypeOK
    <2>4. CASE UNCHANGED <<data, value>>
        BY <2>4 DEF TypeOK
    <2>. QED BY <1>1, <2>1, <2>2, <2>3, <2>4
             DEF Lock, Unlock, PutAdvance, PutSignal, GetWait, GetAdvance, GetSignal
<1>. QED BY <1>2, <1>3, <1>4, SumsKept DEF TypeOK

\* The mutex excludes: its value is 1 while a task is critical.
LEMMA ExclusionKept == ASSUME FifoInv, Next PROVE Exclusive'
<1>1. PICK t \in Task : StepOf(t)
    BY NextIsAStep
<1>. USE DEF StepOf
<1>2. pc \in [Task -> Place] /\ mutex \in {0, 1}
    BY DEF FifoInv, TypeOK
<1>3. /\ \A u, v \in Task : pc[u] \in Critical /\ pc[v] \in Critical => u = v
      /\ mutex = 0 <=> \A u \in Task : pc[u] \notin Critical
    BY DEF FifoInv, Exclusive, At, Critical
<1>4. SUFFICES
      /\ \A u, v \in Task : pc'[u] \in Critical /\ pc'[v] \in Critical => u = v
      /\ mutex' = 0 <=> \A u \in Task : pc'[u] \notin Critical
    BY DEF Exclusive, At, Critical
<1>5. CASE Lock(t)
    <2>1. pc' = [pc EXCEPT ![t] = "copy"] /\ mutex = 0 /\ mutex' = 1
        BY <1>5 DEF Lock, Go
    <2>. QED BY <2>1, <1>2, <1>3 DEF Critical
<1>6. CASE Unlock(t)
    <2>1. pc' = [pc EXCEPT ![t] = "signal"] /\ pc[t] = "unlock" /\ mutex' = 0
        BY <1>6 DEF Unlock, Go
    <2>. QED BY <2>1, <1>2, <1>3 DEF Critical
<1>7. CASE ~Lock(t) /\ ~Unlock(t)
    <2>1. mutex' = mutex /\ \E to \in Place :
            pc' = [pc EXCEPT ![t] = to] /\ (pc[t] \in Critical <=> to \in Critical)
        BY <1>1, <1>7 DEF PutWait, PutCopy, PutAdvance, PutSignal,
                    GetWait, GetCopy, GetAdvance, GetSignal, Go, Place, Critical
    <2>2. \A u \in Task : pc[u] \in Critical <=> pc'[u] \in Critical
        BY <2>1, <1>2
    <2>. QED BY <2>1, <2>2, <1>3
<1>. QED BY <1>5, <1>6, <1>7

\* tail stays where the entries end.
LEMMA TailKept == ASSUME FifoInv, Next PROVE tail' = Ring(head' + Copied' + EntryCount')
<1>. TypeOK
    BY DEF FifoInv
<1>1. PICK t \in Task : StepOf(t)
    BY NextIsAStep
<1>. USE DEF StepOf
<1>2. CASE PutAdvance(t) /\ t \in Producer
    <2>1. EntryCount' = EntryCount + 1 /\ EntryCount < Size
        BY <1>2, EntryEntered
    <2>2. Copied = 0 /\ Copied' = 0 /\ head' = head /\ tail' = NextIndex(tail)
        BY <1>2, CopiedOnce, ProducerCounts DEF PutAdvance, Go, Counts, Critical
    <2>. QED BY <2>1, <2>2, Places, SizeIsNat DEF NextIndex, Ring
<1>3. CASE GetCopy(t) /\ t \in Consumer
    <2>1. EntryCount' = EntryCount - 1 /\ EntryCount >= 1
        BY <1>3, EntryCopied
    <2>2. Copied' = Copied + 1 /\ head' = head /\ tail' = tail
        BY <1>3, ConsumerCounts DEF GetCopy, Counts
    <2>3. head + (Copied + 1) + (EntryCount - 1) = head + Copied + EntryCount
        BY Places, CountTypes
    <2>. QED BY <2>1, <2>2, <2>3, Places DEF Ring
<1>4. CASE GetAdvance(t) /\ t \in Consumer
    <2>1. EntryCount' = EntryCount
        BY <1>4, EntriesKept
    <2>2. /\ Counts' = <<Offered, Entered, Claimed, Copied - 1, Used + 1>>
          /\ head' = NextIndex(head) /\ tail' = tail /\ pc[t] = "advance"
        BY <1>4, ConsumerCounts DEF GetAdvance, Go
    <2>3. Copied = 1 /\ Copied' = 0
        BY <2>2, <1>4, CopiedOnce DEF Counts, Critical
    <2>4. EntryCount + 1 <= Size
        BY <2>3, Places, CountTypes, SizeIsNat
    <2>. QED BY <2>1, <2>2, <2>3, <2>4, Places, SizeIsNat DEF NextIndex, Ring
<1>5. ASSUME UNCHANGED <<head, tail>>, Copied' = Copied, EntryCount' = EntryCount
      PROVE  tail' = Ring(head' + Copied' + EntryCount')
    BY <1>5, Places DEF Ring
<1>6. CASE Lock(t) \/ Unlock(t)
    <2>1. UNCHANGED <<head, tail>> /\ Copied' = Copied
        BY <1>6, ProducerCounts, ConsumerCounts DEF Lock, Unlock, Counts, Task
    <2>. QED BY <2>1, <1>6, EntriesKept, <1>5
<1>7. CASE t \in Producer /\ (PutWait(t) \/ PutCopy(t) \/ PutSignal(t))
    <2>1. UNCHANGED <<head, tail>> /\ Copied' = Copied
        BY <1>7, ProducerCounts DEF PutWait, PutCopy, PutSignal, Counts
    <2>. QED BY <2>1, <1>7, EntriesKept, <1>5
<1>8. CASE t \in Consumer /\ (GetWait(t) \/ GetSignal(t))
    <2>1. UNCHANGED <<head, tail>> /\ Copied' = Copied
        BY <1>8, ConsumerCounts DEF GetWait, GetSignal, Counts
    <2>. QED BY <2>1, <1>8, EntriesKept, <1>5
<1>. QED BY <1>1, <1>2, <1>3, <1>4, <1>6, <1>7, <1>8

\* Whatever is offered, entered or copied is a value.
LEMMA ValuesStayKept == ASSUME FifoInv, Next PROVE ValuesKept'
<1>1. PICK t \in Task : StepOf(t)
    BY NextIsAStep
<1>. USE DEF StepOf
<1>2. /\ pc \in [Task -> Place] /\ value \in [Task -> Value \cup {NULL}]
      /\ data \in [Index -> Value \cup {NULL}] /\ tail \in Index
      /\ Producer \cap Consumer = {} /\ Task = Producer \cup Consumer
    BY FifoAssumption DEF FifoInv, TypeOK, Task
<1>3. ValuesKept
    BY DEF FifoInv
<1>4. \A u, v \in Task : pc[u] \in Critical /\ pc[v] \in Critical => u = v
    BY DEF FifoInv, Exclusive, At, Critical
<1>5. \A i \in 1 .. EntryCount' : EntryAt(i)' \in Value
    <2>1. CASE PutAdvance(t) /\ t \in Producer
        <3>1. value[t] \in Value
            BY <2>1, <1>3 DEF ValuesKept, PutAdvance, Go
        <3>2. \A i \in 1 .. EntryCount' : i \in 1 .. EntryCount \/ i = EntryCount'
            BY <2>1, EntryEntered, Places
        <3>3. EntryAt(EntryCount)' \in Value
            BY <3>1, <2>1, EntryEntered
        <3>4. \A i : i = EntryCount' => EntryAt(i)' \in Value
            BY <3>3
        <3>. QED BY <3>2, <3>4, <2>1, EntryEntered, <1>3 DEF ValuesKept
    <2>2. CASE GetCopy(t) /\ t \in Consumer
        <3>1. \A i \in 1 .. EntryCount' : i \in 1 .. EntryCount - 1 /\ i + 1 \in 1 .. EntryCount
            BY <2>2, EntryCopied, Places
        <3>. QED BY <3>1, <2>2, EntryCopied, <1>3 DEF ValuesKept
    <2>3. CASE \/ Lock(t) \/ Unlock(t)
               \/ t \in Producer /\ (PutWait(t) \/ PutCopy(t) \/ PutSignal(t))
               \/ t \in Consumer /\ (GetWait(t) \/ GetAdvance(t) \/ GetSignal(t))
        BY <2>3, EntriesKept, <1>3 DEF ValuesKept
    <2>. QED BY <1>1, <2>1, <2>2, <2>3
<1>6. \A p \in Producer : pc'[p] \in {"lock", "copy", "advance"} => value'[p] \in Value
    <2>1. CASE PutWait(t) /\ t \in Producer
        BY <2>1, <1>2, <1>3 DEF PutWait, Go, ValuesKept
    <2>2. CASE GetCopy(t) /\ t \in Consumer
        BY <2>2, <1>2, <1>3 DEF GetCopy, Go, ValuesKept
    <2>3. CASE UNCHANGED value /\ \A p \in Producer :
                   pc'[p] \in {"lock", "copy", "advance"} => pc[p] \in {"lock", "copy", "advance"}
        BY <2>3, <1>2, <1>3 DEF ValuesKept
    <2>4. CASE \/ Lock(t) \/ Unlock(t)
               \/ t \in Producer /\ (PutCopy(t) \/ PutAdvance(t) \/ PutSignal(t))
               \/ t \in Consumer /\ (GetWait(t) \/ GetAdvance(t) \/ GetSignal(t))
        BY <2>4, <2>3, <1>2 DEF Lock, Unlock, PutCopy, PutAdvance, PutSignal,
                                GetWait, GetAdvance, GetSignal, Go
    <2>. QED BY <1>1, <2>1, <2>2, <2>4
<1>7. \A c \in Consumer : pc'[c] \in {"advance", "unlock", "signal"} => value'[c] \in Value
    <2>1. CASE PutWait(t) /\ t \in Producer
        BY <2>1, <1>2, <1>3 DEF PutWait, Go, ValuesKept
    <2>2. CASE GetCopy(t) /\ t \in Consumer
        <3>1. data[head] \in Value
            BY <2>2, EntryCopied, Places, <1>3 DEF ValuesKept
        <3>. QED BY <3>1, <2>2, <1>2, <1>3 DEF GetCopy, Go, ValuesKept
    <2>3. CASE UNCHANGED value /\ \A c \in Consumer :
                   pc'[c] \in {"advance", "unlock", "signal"} => pc[c] \in {"advance", "unlock", "signal"}
        BY <2>3, <1>2, <1>3 DEF ValuesKept
    <2>4. CASE \/ Lock(t) \/ Unlock(t)
               \/ t \in Producer /\ (PutCopy(t) \/ PutAdvance(t) \/ PutSignal(t))
               \/ t \in Consumer /\ (GetWait(t) \/ GetAdvance(t) \/ GetSignal(t))
        BY <2>4, <2>3, <1>2 DEF Lock, Unlock, PutCopy, PutAdvance, PutSignal,
                                GetWait, GetAdvance, GetSignal, Go
    <2>. QED BY <1>1, <2>1, <2>2, <2>4
<1>8. \A p \in Producer : pc'[p] = "advance" => data'[tail'] = value'[p]
    <2>1. CASE PutCopy(t) /\ t \in Producer
        <3>1. /\ pc[t] = "copy" /\ pc' = [pc EXCEPT ![t] = "advance"]
              /\ data'[tail] = value[t] /\ UNCHANGED <<tail, value>>
            BY <2>1, <1>2 DEF PutCopy, Go
        <3>2. \A p \in Producer : p # t => pc'[p] # "advance"
            BY <3>1, <1>2, <1>4 DEF Critical
        <3>. QED BY <3>1, <3>2
    <2>2. CASE \/ Lock(t) \/ Unlock(t)
               \/ t \in Producer /\ (PutWait(t) \/ PutAdvance(t) \/ PutSignal(t))
               \/ t \in Consumer /\ (GetWait(t) \/ GetCopy(t) \/ GetAdvance(t) \/ GetSignal(t))
        <3>. SUFFICES ASSUME NEW p \in Producer, pc'[p] = "advance"
                      PROVE  data'[tail'] = value'[p]
            OBVIOUS
        <3>1. pc[p] = "advance" /\ p # t
            BY <1>2, <2>2 DEF Lock, Unlock, PutWait, PutAdvance, PutSignal,
                                    GetWait, GetCopy, GetAdvance, GetSignal, Go
        <3>2. data[tail] = value[p]
            BY <3>1, <1>3 DEF ValuesKept
        <3>3. pc[t] \notin Critical
            BY <3>1, <1>2, <1>4 DEF Critical
        <3>4. UNCHANGED <<data, tail>> /\ value'[p] = value[p]
            BY <1>2, <2>2, <3>1, <3>3
               DEF Lock, Unlock, PutWait, PutAdvance, PutSignal,
                   GetWait, GetCopy, GetAdvance, GetSignal, Go, Critical
        <3>. QED BY <3>2, <3>4
    <2>. QED BY <1>1, <2>1, <2>2
<1>. QED BY <1>5, <1>6, <1>7, <1>8 DEF ValuesKept

LEMMA FifoInvInit == Init => FifoInv
<1>. SUFFICES ASSUME Init PROVE FifoInv
    OBVIOUS
<1>1. /\ full = Size /\ empty = 0 /\ mutex = 0 /\ head = 0 /\ tail = 0
      /\ data = [i \in Index |-> NULL]
      /\ pc = [t \in Task |-> "idle"] /\ value = [t \in Task |-> NULL]
    BY DEF Init
<1>2. \A S \in SUBSET Task : \A places :
          "idle" \notin places => At(S, places) = {} /\ Cardinality(At(S, places)) = 0
    BY <1>1, FS_EmptySet DEF At
<1>3. /\ Cardinality(At(Task, Place \ {"idle"})) = 0
      /\ Offered = 0 /\ Entered = 0 /\ Claimed = 0 /\ Copied = 0 /\ Used = 0
      /\ At(Task, {"copy", "advance", "unlock"}) = {}
    BY <1>2, TasksFinite DEF Offered, Entered, Claimed, Copied, Used
<1>4. TypeOK
    BY <1>1, SizeIsNat DEF TypeOK, Index, Place
<1>5. ValuesKept
    <2>1. EntryCount = 0
        BY <1>1, <1>3 DEF EntryCount
    <2>. QED BY <2>1, <1>1, TasksFinite DEF ValuesKept
<1>6. tail = Ring(head + Copied + EntryCount)
    BY <1>1, <1>3, SizeIsNat DEF EntryCount, Ring
<1>. QED BY <1>1, <1>3, <1>4, <1>5, <1>6, SizeIsNat DEF FifoInv, PlacesConserved, Exclusive

LEMMA FifoInvStep == FifoInv /\ [Next]_vars => FifoInv'
<1>1. ASSUME FifoInv, Next PROVE FifoInv'
    BY <1>1, TypesKept, SumsKept, ExclusionKept, TailKept, ValuesStayKept DEF FifoInv
<1>2. ASSUME FifoInv, UNCHANGED vars PROVE FifoInv'
    BY <1>2 DEF FifoInv, vars, TypeOK, PlacesConserved, Exclusive, ValuesKept, At, Ring,
                Offered, Entered, Claimed, Copied, Used, EntryCount, EntryAt
<1>. QED BY <1>1, <1>2

\* The counts account for every place, and tail is where the entries end.
THEOREM FifoInvariant == Spec => []FifoInv
BY FifoInvInit, FifoInvStep, PTL DEF Spec

\* The semaphores never count below zero or beyond the ring, and no index leaves
\* it (fifo.c:25-47).
THEOREM Types == Spec => []TypeOK
<1>1. FifoInv => TypeOK
    BY DEF FifoInv
<1>. QED BY <1>1, FifoInvariant, PTL

\* No place of the ring is lost or used twice, for any number of producers and
\* consumers.
THEOREM PlacesAreConserved == Spec => []PlacesConserved
<1>1. FifoInv => PlacesConserved
    BY DEF FifoInv
<1>. QED BY <1>1, FifoInvariant, PTL

\* The copy and the index are one task's at a time.
THEOREM CopiesExclude == Spec => []Exclusive
<1>1. FifoInv => Exclusive
    BY DEF FifoInv
<1>. QED BY <1>1, FifoInvariant, PTL

-----------------------------------------------------------------------------
(* The queue.                                                                *)

\* The entries are a sequence of values, and so they are after a step.
LEMMA EntriesSeq ==
    ASSUME FifoInv
    PROVE  /\ Entries \in Seq(Value) /\ Len(Entries) = EntryCount
           /\ EntryCount \in Nat
           /\ \A i \in 1 .. EntryCount : Entries[i] = EntryAt(i)
<1>1. EntryCount \in Nat /\ \A i \in 1 .. EntryCount : EntryAt(i) \in Value
    BY Places DEF FifoInv, ValuesKept
<1>2. Entries \in [1 .. EntryCount -> Value]
    BY <1>1 DEF Entries
<1>3. Entries \in Seq(Value)
    BY <1>1, <1>2, SeqDef
<1>. QED BY <1>1, <1>2, <1>3, LenProperties DEF Entries

LEMMA EntriesSeqNext ==
    ASSUME FifoInv'
    PROVE  /\ Entries' \in Seq(Value) /\ Len(Entries') = EntryCount'
           /\ \A i \in 1 .. EntryCount' : Entries'[i] = EntryAt(i)'
<1>1. EntryCount' \in Nat
    <2>1. empty' \in Nat
        BY SizeIsNat DEF FifoInv, TypeOK
    <2>2. Entered' \in Nat /\ Claimed' \in Nat
        BY CountTypesNext
    <2>3. EntryCount' = empty' + Entered' + Claimed'
        BY DEF EntryCount
    <2>4. \A a, b, c \in Nat : a + b + c \in Nat
        OBVIOUS
    <2>. QED BY <2>1, <2>2, <2>3, <2>4
<1>2. \A i \in 1 .. EntryCount' : EntryAt(i)' \in Value
    BY DEF FifoInv, ValuesKept
<1>3. Entries' \in [1 .. EntryCount' -> Value]
    BY <1>1, <1>2 DEF Entries
<1>4. Entries' \in Seq(Value)
    BY <1>1, <1>3, SeqDef
<1>. QED BY <1>1, <1>3, <1>4, LenProperties DEF Entries

LEMMA QueueInit == Init => Abstract!Init
<1>. SUFFICES ASSUME Init PROVE Abstract!Init
    OBVIOUS
<1>1. Len(Entries) = 0 /\ Entries \in Seq(Value)
    <2>1. FifoInv
        BY FifoInvInit
    <2>2. EntryCount = 0
        <3>1. \A S \in SUBSET Task : \A places :
                "idle" \notin places => Cardinality(At(S, places)) = 0
            <4>1. \A S \in SUBSET Task : \A places : "idle" \notin places => At(S, places) = {}
                BY DEF Init, At
            <4>. QED BY <4>1, FS_EmptySet
        <3>2. Entered = 0 /\ Claimed = 0
            BY <3>1, TasksFinite DEF Entered, Claimed
        <3>. QED BY <3>2 DEF Init, EntryCount
    <2>. QED BY <2>1, <2>2, EntriesSeq
<1>2. Entries = <<>>
    BY <1>1, EmptySeq
<1>3. Hand = [t \in Producer \cup Consumer |-> NULL]
    BY DEF Init, Hand, Task
<1>. QED BY <1>2, <1>3 DEF Abstract!Init

LEMMA QueueStep ==
    ASSUME FifoInv, FifoInv', Next
    PROVE  [Abstract!Next]_Abstract!vars
<1>1. PICK t \in Task : StepOf(t)
    BY NextIsAStep
<1>. USE DEF StepOf
<1>2. /\ pc \in [Task -> Place] /\ value \in [Task -> Value \cup {NULL}]
      /\ Producer \cap Consumer = {} /\ Task = Producer \cup Consumer /\ NULL \notin Value
    BY FifoAssumption DEF FifoInv, TypeOK, Task
<1>3. ValuesKept
    BY DEF FifoInv
<1>4. CASE \/ Lock(t) \/ Unlock(t)
           \/ t \in Producer /\ (PutWait(t) \/ PutCopy(t) \/ PutSignal(t))
           \/ t \in Consumer /\ (GetWait(t) \/ GetAdvance(t) \/ GetSignal(t))
    <2>1. Entries' = Entries
        BY <1>4, EntriesKept DEF Entries
    <2>2. CASE t \in Producer /\ PutWait(t)
        <3>1. PICK v \in Value : value' = [value EXCEPT ![t] = v]
            BY <2>2 DEF PutWait
        <3>2. Hand[t] = NULL /\ Hand' = [Hand EXCEPT ![t] = v]
            BY <2>2, <3>1, <1>2 DEF PutWait, Go, Hand
        <3>3. Abstract!Offer(t)
            BY <2>1, <3>2 DEF Abstract!Offer
        <3>. QED BY <3>3, <2>2 DEF Abstract!Next
    <2>3. CASE t \in Consumer /\ GetSignal(t)
        <3>1. pc[t] = "signal" /\ pc' = [pc EXCEPT ![t] = "idle"] /\ value' = value
            BY <2>3 DEF GetSignal, Go
        <3>2. Hand[t] = value[t] /\ value[t] \in Value
            BY <3>1, <2>3, <1>2, <1>3 DEF Hand, ValuesKept
        <3>3. Hand' = [Hand EXCEPT ![t] = NULL]
            BY <3>1, <2>3, <1>2 DEF Hand
        <3>4. Abstract!Use(t)
            BY <2>1, <3>2, <3>3, <1>2 DEF Abstract!Use
        <3>. QED BY <3>4, <2>3 DEF Abstract!Next
    <2>4. CASE \/ Lock(t) \/ Unlock(t)
               \/ t \in Producer /\ (PutCopy(t) \/ PutSignal(t))
               \/ t \in Consumer /\ (GetWait(t) \/ GetAdvance(t))
        <3>1. value' = value /\ \E to \in Place :
                /\ pc' = [pc EXCEPT ![t] = to]
                /\ t \in Producer =>
                      (pc[t] \in {"lock", "copy", "advance"} <=> to \in {"lock", "copy", "advance"})
                /\ t \in Consumer =>
                      (pc[t] \in {"advance", "unlock", "signal"}
                           <=> to \in {"advance", "unlock", "signal"})
            BY <2>4, <1>2 DEF Lock, Unlock, PutCopy, PutSignal, GetWait, GetAdvance, Go, Place
        <3>2. Hand' = Hand
            BY <3>1, <1>2 DEF Hand
        <3>. QED BY <2>1, <3>2 DEF Abstract!vars
    <2>. QED BY <1>4, <2>2, <2>3, <2>4
<1>5. CASE t \in Producer /\ PutAdvance(t)
    <2>1. pc[t] = "advance" /\ pc' = [pc EXCEPT ![t] = "unlock"] /\ value' = value
        BY <1>5 DEF PutAdvance, Go
    <2>2. Hand[t] = value[t] /\ value[t] \in Value
        BY <2>1, <1>5, <1>2, <1>3 DEF Hand, ValuesKept
    <2>3. Hand' = [Hand EXCEPT ![t] = NULL]
        BY <2>1, <1>5, <1>2 DEF Hand
    <2>4. Entries' = Append(Entries, value[t])
        <3>1. /\ EntryCount' = EntryCount + 1
              /\ \A i \in 1 .. EntryCount : EntryAt(i)' = EntryAt(i)
              /\ \A i : i = EntryCount' => EntryAt(i)' = value[t]
            BY <1>5, EntryEntered
        <3>2. /\ Append(Entries, value[t]) \in Seq(Value)
              /\ Len(Append(Entries, value[t])) = EntryCount + 1
              /\ \A i \in 1 .. EntryCount + 1 :
                    Append(Entries, value[t])[i] = IF i <= EntryCount THEN Entries[i] ELSE value[t]
            BY <2>2, EntriesSeq, AppendProperties
        <3>3. \A i \in 1 .. EntryCount + 1 : Entries'[i] = Append(Entries, value[t])[i]
            BY <3>1, <3>2, EntriesSeq, EntriesSeqNext
        <3>. QED BY <3>1, <3>2, <3>3, EntriesSeqNext, SeqEqual
    <2>5. Len(Entries) < Size
        BY <1>5, EntryEntered, EntriesSeq
    <2>6. Abstract!Enter(t)
        BY <2>2, <2>3, <2>4, <2>5, <1>2 DEF Abstract!Enter
    <2>. QED BY <2>6, <1>5 DEF Abstract!Next
<1>6. CASE t \in Consumer /\ GetCopy(t)
    <2>1. /\ pc[t] = "copy" /\ pc' = [pc EXCEPT ![t] = "advance"]
          /\ value' = [value EXCEPT ![t] = data[head]]
        BY <1>6 DEF GetCopy, Go
    <2>2. /\ EntryCount >= 1
          /\ EntryCount' = EntryCount - 1
          /\ \A i \in 1 .. EntryCount - 1 : EntryAt(i)' = EntryAt(i + 1)
          /\ data[head] = EntryAt(1)
        BY <1>6, EntryCopied
    <2>3. Entries # <<>> /\ Head(Entries) = data[head]
        <3>1. Entries # <<>>
            BY <2>2, EntriesSeq, EmptySeq
        <3>2. Head(Entries) = Entries[1]
            BY <3>1, EntriesSeq
        <3>. QED BY <3>1, <3>2, <2>2, EntriesSeq
    <2>4. Entries' = Tail(Entries)
        <3>1. /\ Tail(Entries) \in Seq(Value) /\ Len(Tail(Entries)) = EntryCount - 1
              /\ \A i \in 1 .. EntryCount - 1 : Tail(Entries)[i] = Entries[i + 1]
            BY <2>3, EntriesSeq, HeadTailProperties
        <3>2. \A i \in 1 .. EntryCount - 1 : Entries'[i] = Tail(Entries)[i]
            BY <3>1, <2>2, EntriesSeq, EntriesSeqNext, SMTT(30)
        <3>. QED BY <3>1, <3>2, <2>2, EntriesSeqNext, SeqEqual
    <2>5. Hand[t] = NULL /\ Hand' = [Hand EXCEPT ![t] = data[head]]
        BY <2>1, <1>6, <1>2 DEF Hand
    <2>6. Abstract!Take(t)
        BY <2>3, <2>4, <2>5 DEF Abstract!Take
    <2>. QED BY <2>6, <1>6 DEF Abstract!Next
<1>. QED BY <1>1, <1>4, <1>5, <1>6

\* fifo_put and fifo_get implement a bounded queue (fifo.c:25-47): what any
\* number of producers put comes out once, in order, and whole.
THEOREM FifoIsAQueue == Spec => ImplementsQueue
<1>1. ASSUME FifoInv, FifoInv', UNCHANGED vars PROVE UNCHANGED Abstract!vars
    BY <1>1 DEF vars, Abstract!vars, Entries, EntryCount, EntryAt, Ring, Hand,
                Entered, Claimed, Copied, At
<1>2. FifoInv /\ FifoInv' /\ [Next]_vars => [Abstract!Next]_Abstract!vars
    BY <1>1, QueueStep
<1>. QED BY <1>2, QueueInit, FifoInvariant, PTL DEF Spec, ImplementsQueue, Abstract!Spec
=============================================================================
