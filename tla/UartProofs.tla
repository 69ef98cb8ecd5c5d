---------------------------- MODULE UartProofs ----------------------------
(***************************************************************************)
(* Proofs about the transmit side of a port with one writer, for any size  *)
(* of tx_fifo and of the hardware's FIFO.                                  *)
(***************************************************************************)
EXTENDS Uart, FiniteSetTheorems, SequenceTheorems, TLAPS

\* An index into the ring, and what it is for one that runs over once.
Ring(i) == i % Size
Wrapped(i) == IF i < Size THEN i ELSE i - Size

\* Whether the writer is in one of the places, as a count.
In(w, places) == IF pc[w] \in places THEN 1 ELSE 0

\* The characters of tx_fifo, with the one that is stored but not signalled.
StoredCount(w) == tx_fifo.empty + In(w, {"advance", "signal"})
StoredAt(i) == tx_fifo.data[Ring(tx_fifo.head + i - 1)]

\* The counts account for every place, and tail is where the characters end.
PlacesKept(w) ==
    /\ tx_fifo.full + tx_fifo.empty + In(w, {"copy", "advance", "signal"}) = Size
    /\ tx_fifo.tail = Ring(tx_fifo.head + tx_fifo.empty + In(w, {"signal"}))

CharsKept(w) ==
    /\ pc[w] # "idle" => char[w] \in Char
    /\ pc[w] = "advance" => tx_fifo.data[tx_fifo.tail] = char[w]
    /\ \A i \in 1 .. StoredCount(w) : StoredAt(i) \in Char

\* A writer that goes to the hardware itself has found tx_fifo empty, and it
\* still is; so the hardware has the room it was found to have.
NothingAhead(w) ==
    /\ pc[w] \in {"ready", "direct"} => tx_fifo.empty = 0
    /\ pc[w] = "direct" => Ready

UartInv(w) == TypeOK /\ PlacesKept(w) /\ CharsKept(w) /\ NothingAhead(w)

-----------------------------------------------------------------------------
(* The ring.                                                                 *)

LEMMA SizeIsNat == Size \in Nat /\ Size > 0 /\ 0 \in Index /\ HwSize \in Nat /\ HwSize > 0
BY UartAssumption DEF Index

LEMMA Wrap == \A i \in 0 .. 2 * Size - 1 : Ring(i) = Wrapped(i)
BY SizeIsNat, SMTT(30) DEF Ring, Wrapped

LEMMA NextIndexIs == \A i \in Index : NextIndex(i) = Wrapped(i + 1) /\ NextIndex(i) \in Index
<1>1. \A i \in Index : i + 1 \in 0 .. 2 * Size - 1
    BY SizeIsNat DEF Index
<1>2. \A i : NextIndex(i) = Ring(i + 1)
    BY DEF NextIndex, Ring
<1>3. \A i \in Index : Wrapped(i + 1) \in Index
    BY SizeIsNat DEF Index, Wrapped
<1>. QED BY <1>1, <1>2, <1>3, Wrap

FifoType == [full : 0 .. Size, empty : 0 .. Size, head : Index, tail : Index,
             data : [Index -> Char \cup {NULL}]]

LEMMA FifoFields ==
    ASSUME TypeOK
    PROVE  /\ tx_fifo \in FifoType
           /\ tx_fifo.full \in Nat /\ tx_fifo.empty \in Nat
           /\ tx_fifo.full <= Size /\ tx_fifo.empty <= Size
           /\ tx_fifo.head \in Index /\ tx_fifo.tail \in Index
           /\ tx_fifo.head \in Nat /\ tx_fifo.head < Size
           /\ tx_fifo.data \in [Index -> Char \cup {NULL}]
BY SizeIsNat DEF TypeOK, FifoType, Index

\* The places of the stored characters are places of the ring, and tail is the
\* next one.
LEMMA StoredPlaces ==
    ASSUME TypeOK, NEW n \in Nat, n <= Size
    PROVE  /\ \A i \in 1 .. n : /\ Ring(tx_fifo.head + i - 1) \in Index
                                /\ Ring(tx_fifo.head + i - 1) = Wrapped(tx_fifo.head + i - 1)
           /\ n < Size => /\ Ring(tx_fifo.head + n) = Wrapped(tx_fifo.head + n)
                          /\ \A i \in 1 .. n : Ring(tx_fifo.head + i - 1) # Ring(tx_fifo.head + n)
<1>1. tx_fifo.head \in Nat /\ tx_fifo.head < Size
    BY FifoFields
<1>2. \A i \in 1 .. n : tx_fifo.head + i - 1 \in 0 .. 2 * Size - 1
    BY <1>1, SizeIsNat
<1>3. \A i \in 1 .. n : Ring(tx_fifo.head + i - 1) = Wrapped(tx_fifo.head + i - 1)
    BY <1>2, Wrap
<1>4. \A i \in 1 .. n : Wrapped(tx_fifo.head + i - 1) \in Index
    BY <1>1, SizeIsNat DEF Wrapped, Index
<1>5. ASSUME n < Size
      PROVE  /\ Ring(tx_fifo.head + n) = Wrapped(tx_fifo.head + n)
             /\ \A i \in 1 .. n : Wrapped(tx_fifo.head + i - 1) # Wrapped(tx_fifo.head + n)
    <2>1. tx_fifo.head + n \in 0 .. 2 * Size - 1
        BY <1>1, <1>5, SizeIsNat
    <2>2. \A i \in 1 .. n : Wrapped(tx_fifo.head + i - 1) # Wrapped(tx_fifo.head + n)
        BY <1>1, <1>5, SizeIsNat DEF Wrapped
    <2>. QED BY <2>1, <2>2, Wrap
<1>. QED BY <1>3, <1>4, <1>5

-----------------------------------------------------------------------------
(* The steps of the writer.                                                  *)

LEMMA UartInvInit == ASSUME NEW w, Writer = {w}, Init PROVE UartInv(w)
<1>1. TypeOK
    <2>1. tx_fifo \in FifoType
        BY SizeIsNat DEF Init, FifoType
    <2>. QED BY <2>1, SizeIsNat DEF Init, TypeOK, FifoType, Place
<1>2. pc[w] = "idle" /\ tx_fifo.full = Size /\ tx_fifo.empty = 0 /\ tx_fifo.head = 0
      /\ tx_fifo.tail = 0
    BY DEF Init
<1>3. Ring(0) = 0
    BY Wrap, SizeIsNat DEF Wrapped
<1>. QED BY <1>1, <1>2, <1>3, SizeIsNat
         DEF UartInv, PlacesKept, CharsKept, NothingAhead, StoredCount, In

\* Tests, the wait and the enable: the characters stay where they are.
LEMMA WriterMoves ==
    ASSUME NEW w, Writer = {w}, UartInv(w),
           TestSize(w) \/ TestReady(w) \/ PutWait(w) \/ Enable(w)
    PROVE  /\ UartInv(w)'
           /\ UNCHANGED hw /\ StoredCount(w)' = StoredCount(w)
           /\ \A i : StoredAt(i)' = StoredAt(i)
<1>1. TypeOK /\ pc \in [{w} -> Place] /\ char \in [{w} -> Char \cup {NULL}]
    BY DEF UartInv, TypeOK
<1>2. /\ tx_fifo'.empty = tx_fifo.empty /\ tx_fifo'.head = tx_fifo.head
      /\ tx_fifo'.tail = tx_fifo.tail /\ tx_fifo'.data = tx_fifo.data
      /\ IF PutWait(w) THEN tx_fifo.full > 0 /\ tx_fifo'.full = tx_fifo.full - 1
                       ELSE tx_fifo'.full = tx_fifo.full
      /\ tx_fifo' \in FifoType
    <2>1. CASE PutWait(w)
        <3>1. tx_fifo.full > 0 /\ tx_fifo' = [tx_fifo EXCEPT !.full = tx_fifo.full - 1]
            BY <2>1 DEF PutWait
        <3>2. tx_fifo.full - 1 \in 0 .. Size
            BY <1>1, <3>1, FifoFields, SizeIsNat
        <3>. QED BY <2>1, <3>1, <3>2, <1>1, FifoFields DEF FifoType
    <2>2. CASE ~PutWait(w)
        <3>1. tx_fifo' = tx_fifo
            BY <2>2 DEF TestSize, TestReady, Enable
        <3>. QED BY <2>2, <3>1, <1>1, FifoFields
    <2>. QED BY <2>1, <2>2
<1>3. /\ pc' = [pc EXCEPT ![w] = pc'[w]]
      /\ \/ /\ pc[w] = "idle" /\ pc'[w] = (IF tx_fifo.empty = 0 THEN "ready" ELSE "wait")
            /\ char'[w] \in Char /\ ~PutWait(w)
         \/ /\ pc[w] = "ready" /\ pc'[w] = (IF Ready THEN "direct" ELSE "wait")
            /\ char' = char /\ ~PutWait(w)
         \/ pc[w] = "wait" /\ pc'[w] = "copy" /\ char' = char /\ PutWait(w)
         \/ pc[w] = "enable" /\ pc'[w] = "idle" /\ char' = char /\ ~PutWait(w)
      /\ pc' \in [{w} -> Place] /\ char' \in [{w} -> Char \cup {NULL}]
      /\ UNCHANGED hw /\ TXFEIE' \in BOOLEAN /\ handling' = handling
    <2>1. CASE TestSize(w)
        BY <1>1, <2>1 DEF TestSize, Go, Place, PutWait, UartInv, TypeOK
    <2>2. CASE TestReady(w)
        BY <1>1, <2>2 DEF TestReady, Go, Place, PutWait, UartInv, TypeOK
    <2>3. CASE PutWait(w)
        BY <1>1, <2>3 DEF Go, Place, PutWait, UartInv, TypeOK
    <2>4. CASE Enable(w)
        BY <1>1, <2>4 DEF Enable, Go, Place, PutWait, UartInv, TypeOK
    <2>. QED BY <2>1, <2>2, <2>3, <2>4
<1>4. TypeOK'
    BY <1>2, <1>3 DEF UartInv, TypeOK, FifoType, hw
<1>5. PlacesKept(w)'
    BY <1>1, <1>2, <1>3, FifoFields DEF UartInv, PlacesKept, In
<1>6. StoredCount(w)' = StoredCount(w) /\ \A i : StoredAt(i)' = StoredAt(i)
    BY <1>2, <1>3 DEF StoredCount, StoredAt, In
<1>7. CharsKept(w)'
    BY <1>2, <1>3, <1>6 DEF UartInv, CharsKept
<1>8. NothingAhead(w)'
    BY <1>2, <1>3 DEF UartInv, NothingAhead, Ready, hw
<1>. QED BY <1>3, <1>4, <1>5, <1>6, <1>7, <1>8 DEF UartInv

\* The copy stores the character behind the others.
LEMMA WriterCopies ==
    ASSUME NEW w, Writer = {w}, UartInv(w), PutCopy(w)
    PROVE  /\ UartInv(w)'
           /\ UNCHANGED <<hw, char>> /\ char[w] \in Char
           /\ StoredCount(w) < Size /\ StoredCount(w)' = StoredCount(w) + 1
           /\ \A i \in 1 .. StoredCount(w) : StoredAt(i)' = StoredAt(i)
           /\ \A i : i = StoredCount(w) + 1 => StoredAt(i)' = char[w]
<1>1. TypeOK /\ pc \in [{w} -> Place] /\ char \in [{w} -> Char \cup {NULL}]
    BY DEF UartInv, TypeOK
<1>2. /\ pc[w] = "copy" /\ pc' = [pc EXCEPT ![w] = "advance"] /\ pc'[w] = "advance"
      /\ UNCHANGED <<hw, TXFEIE, handling, char>> /\ char[w] \in Char
      /\ tx_fifo' = [tx_fifo EXCEPT !.data = [tx_fifo.data EXCEPT ![tx_fifo.tail] = char[w]]]
    BY <1>1 DEF PutCopy, Go, UartInv, CharsKept
<1>3. /\ tx_fifo'.full = tx_fifo.full /\ tx_fifo'.empty = tx_fifo.empty
      /\ tx_fifo'.head = tx_fifo.head /\ tx_fifo'.tail = tx_fifo.tail
      /\ tx_fifo'.data = [tx_fifo.data EXCEPT ![tx_fifo.tail] = char[w]]
      /\ tx_fifo' \in FifoType
    BY <1>1, <1>2, FifoFields DEF FifoType
<1>4. TypeOK'
    BY <1>1, <1>2, <1>3 DEF TypeOK, FifoType, hw, Place
<1>5. /\ StoredCount(w) = tx_fifo.empty /\ StoredCount(w) \in Nat /\ StoredCount(w) < Size
      /\ StoredCount(w)' = StoredCount(w) + 1
      /\ tx_fifo.tail = Ring(tx_fifo.head + StoredCount(w))
    BY <1>1, <1>2, <1>3, FifoFields, SizeIsNat DEF StoredCount, In, UartInv, PlacesKept
<1>6. \A i \in 1 .. StoredCount(w) : StoredAt(i)' = StoredAt(i)
    <2>1. \A i \in 1 .. StoredCount(w) :
             Ring(tx_fifo.head + i - 1) \in Index /\ Ring(tx_fifo.head + i - 1) # tx_fifo.tail
        BY <1>1, <1>5, StoredPlaces, SizeIsNat
    <2>. QED BY <1>1, <1>3, <2>1, FifoFields DEF StoredAt
<1>7. \A i : i = StoredCount(w) + 1 => StoredAt(i)' = char[w]
    <2>1. tx_fifo.head + (StoredCount(w) + 1) - 1 = tx_fifo.head + StoredCount(w)
        BY <1>1, <1>5, FifoFields
    <2>2. tx_fifo'.data[tx_fifo.tail] = char[w]
        BY <1>1, <1>3, FifoFields
    <2>. QED BY <1>3, <1>5, <2>1, <2>2 DEF StoredAt
<1>8. PlacesKept(w)'
    BY <1>1, <1>2, <1>3 DEF UartInv, PlacesKept, In
<1>9. CharsKept(w)'
    <2>1. \A i \in 1 .. StoredCount(w) + 1 : i \in 1 .. StoredCount(w) \/ i = StoredCount(w) + 1
        BY <1>5
    <2>2. \A i \in 1 .. StoredCount(w)' : StoredAt(i)' \in Char
        BY <1>2, <1>5, <1>6, <1>7, <2>1 DEF UartInv, CharsKept
    <2>3. tx_fifo'.data[tx_fifo'.tail] = char'[w]
        BY <1>1, <1>2, <1>3, FifoFields
    <2>. QED BY <1>2, <2>2, <2>3 DEF CharsKept
<1>10. NothingAhead(w)'
    BY <1>2 DEF NothingAhead
<1>. QED BY <1>2, <1>4, <1>5, <1>6, <1>7, <1>8, <1>9, <1>10 DEF UartInv

\* The index and the signal only make known what is stored.
LEMMA WriterSignals ==
    ASSUME NEW w, Writer = {w}, UartInv(w), PutAdvance(w) \/ PutSignal(w)
    PROVE  /\ UartInv(w)'
           /\ UNCHANGED <<hw, char>> /\ StoredCount(w)' = StoredCount(w)
           /\ \A i : StoredAt(i)' = StoredAt(i)
<1>1. TypeOK /\ pc \in [{w} -> Place] /\ char \in [{w} -> Char \cup {NULL}]
    BY DEF UartInv, TypeOK
<1>2. /\ UNCHANGED <<hw, TXFEIE, handling, char>> /\ char[w] \in Char
      /\ \/ /\ PutAdvance(w)
            /\ pc[w] = "advance" /\ pc' = [pc EXCEPT ![w] = "signal"] /\ pc'[w] = "signal"
            /\ tx_fifo' = [tx_fifo EXCEPT !.tail = NextIndex(tx_fifo.tail)]
         \/ /\ PutSignal(w)
            /\ pc[w] = "signal" /\ pc' = [pc EXCEPT ![w] = "enable"] /\ pc'[w] = "enable"
            /\ tx_fifo' = [tx_fifo EXCEPT !.empty = tx_fifo.empty + 1]
    BY <1>1 DEF PutAdvance, PutSignal, Go, UartInv, CharsKept
<1>3. CASE PutAdvance(w) /\ pc[w] = "advance" /\ pc'[w] = "signal"
           /\ tx_fifo' = [tx_fifo EXCEPT !.tail = NextIndex(tx_fifo.tail)]
           /\ pc' = [pc EXCEPT ![w] = "signal"]
    <2>1. /\ tx_fifo'.full = tx_fifo.full /\ tx_fifo'.empty = tx_fifo.empty
          /\ tx_fifo'.head = tx_fifo.head /\ tx_fifo'.tail = NextIndex(tx_fifo.tail)
          /\ tx_fifo'.data = tx_fifo.data /\ tx_fifo' \in FifoType
        BY <1>1, <1>3, FifoFields, NextIndexIs DEF FifoType
    <2>2. TypeOK'
        BY <1>1, <1>2, <1>3, <2>1 DEF TypeOK, FifoType, hw, Place
    <2>3. StoredCount(w)' = StoredCount(w) /\ \A i : StoredAt(i)' = StoredAt(i)
        BY <1>3, <2>1 DEF StoredCount, StoredAt, In
    <2>4. PlacesKept(w)'
        <3>1. /\ tx_fifo.full + tx_fifo.empty + 1 = Size
              /\ tx_fifo.tail = Ring(tx_fifo.head + tx_fifo.empty)
            BY <1>1, <1>3, FifoFields DEF UartInv, PlacesKept, In
        <3>2. /\ tx_fifo.head + tx_fifo.empty \in 0 .. 2 * Size - 1
              /\ tx_fifo.head + tx_fifo.empty + 1 \in 0 .. 2 * Size - 1
            BY <1>1, <3>1, FifoFields, SizeIsNat
        <3>3. /\ tx_fifo.tail = Wrapped(tx_fifo.head + tx_fifo.empty)
              /\ Ring(tx_fifo.head + tx_fifo.empty + 1) = Wrapped(tx_fifo.head + tx_fifo.empty + 1)
            BY <3>1, <3>2, Wrap
        <3>4. NextIndex(tx_fifo.tail) = Wrapped(tx_fifo.tail + 1)
            BY <1>1, FifoFields, NextIndexIs
        <3>5. NextIndex(tx_fifo.tail) = Ring(tx_fifo.head + tx_fifo.empty + 1)
            BY <1>1, <3>1, <3>2, <3>3, <3>4, FifoFields, SizeIsNat DEF Wrapped
        <3>. QED BY <1>3, <2>1, <3>1, <3>5 DEF PlacesKept, In
    <2>5. CharsKept(w)' /\ NothingAhead(w)'
        BY <1>2, <1>3, <2>3 DEF UartInv, CharsKept, NothingAhead
    <2>. QED BY <1>2, <2>2, <2>3, <2>4, <2>5 DEF UartInv
<1>4. CASE PutSignal(w) /\ pc[w] = "signal" /\ pc'[w] = "enable"
           /\ tx_fifo' = [tx_fifo EXCEPT !.empty = tx_fifo.empty + 1]
           /\ pc' = [pc EXCEPT ![w] = "enable"]
    <2>1. tx_fifo.full + tx_fifo.empty + 1 = Size
          /\ tx_fifo.tail = Ring(tx_fifo.head + tx_fifo.empty + 1)
        BY <1>1, <1>4, FifoFields DEF UartInv, PlacesKept, In
    <2>2. tx_fifo.empty + 1 \in 0 .. Size
        BY <1>1, <2>1, FifoFields, SizeIsNat
    <2>3. /\ tx_fifo'.full = tx_fifo.full /\ tx_fifo'.empty = tx_fifo.empty + 1
          /\ tx_fifo'.head = tx_fifo.head /\ tx_fifo'.tail = tx_fifo.tail
          /\ tx_fifo'.data = tx_fifo.data /\ tx_fifo' \in FifoType
        BY <1>1, <1>4, <2>2, FifoFields DEF FifoType
    <2>4. TypeOK'
        BY <1>1, <1>2, <1>4, <2>3 DEF TypeOK, FifoType, hw, Place
    <2>5. StoredCount(w)' = StoredCount(w) /\ \A i : StoredAt(i)' = StoredAt(i)
        BY <1>1, <1>4, <2>3, FifoFields DEF StoredCount, StoredAt, In
    <2>6. PlacesKept(w)'
        <3>1. tx_fifo.head + tx_fifo.empty + 1 = tx_fifo.head + (tx_fifo.empty + 1) + 0
            BY <1>1, FifoFields
        <3>2. tx_fifo'.tail = Ring(tx_fifo'.head + tx_fifo'.empty + 0)
            BY <2>1, <2>3, <3>1
        <3>3. tx_fifo'.full + tx_fifo'.empty + 0 = Size
            BY <1>1, <2>1, <2>3, FifoFields
        <3>. QED BY <1>4, <3>2, <3>3 DEF PlacesKept, In
    <2>7. CharsKept(w)' /\ NothingAhead(w)'
        BY <1>2, <1>4, <2>5 DEF UartInv, CharsKept, NothingAhead
    <2>. QED BY <1>2, <2>4, <2>5, <2>6, <2>7 DEF UartInv
<1>. QED BY <1>2, <1>3, <1>4

\* A writer that goes to the hardware itself finds nothing in tx_fifo, and room.
LEMMA WriterGoesDirect ==
    ASSUME NEW w, Writer = {w}, UartInv(w), Direct(w)
    PROVE  /\ UartInv(w)'
           /\ StoredCount(w) = 0 /\ StoredCount(w)' = 0
           /\ TDR' = Append(TDR, char[w]) /\ Len(TDR) < HwSize
           /\ UNCHANGED <<line, char>> /\ char[w] \in Char
<1>1. TypeOK /\ pc \in [{w} -> Place] /\ char \in [{w} -> Char \cup {NULL}]
    BY DEF UartInv, TypeOK
<1>2. /\ pc[w] = "direct" /\ pc' = [pc EXCEPT ![w] = "idle"] /\ pc'[w] = "idle"
      /\ UNCHANGED <<tx_fifo, line, TXFEIE, handling, char>> /\ char[w] \in Char
      /\ tx_fifo.empty = 0 /\ Len(TDR) < HwSize
      /\ TDR' = Append(TDR, char[w])
    BY <1>1 DEF Direct, Store, Go, Ready, UartInv, CharsKept, NothingAhead
<1>3. StoredCount(w) = 0 /\ StoredCount(w)' = 0
    BY <1>2 DEF StoredCount, In
<1>4. TDR' \in Seq(Char) /\ Len(TDR') <= HwSize
    <2>1. TDR \in Seq(Char)
        BY <1>1 DEF TypeOK
    <2>2. Append(TDR, char[w]) \in Seq(Char) /\ Len(Append(TDR, char[w])) = Len(TDR) + 1
        BY <1>2, <2>1, AppendProperties
    <2>. QED BY <1>2, <2>1, <2>2, SizeIsNat, LenProperties
<1>5. TypeOK'
    BY <1>1, <1>2, <1>4 DEF TypeOK, Place
<1>6. PlacesKept(w)' /\ CharsKept(w)' /\ NothingAhead(w)'
    BY <1>1, <1>2, <1>3 DEF UartInv, PlacesKept, CharsKept, NothingAhead, In
<1>. QED BY <1>2, <1>3, <1>5, <1>6 DEF UartInv

-----------------------------------------------------------------------------
(* The steps of the handler and of the hardware.                             *)

\* The places counted from the index after head.
LEMMA Shift ==
    ASSUME TypeOK, NEW k \in 1 .. Size
    PROVE  Ring(NextIndex(tx_fifo.head) + k - 1) = Ring(tx_fifo.head + k)
<1>. DEFINE h == tx_fifo.head
<1>1. h \in Nat /\ h < Size /\ h \in Index
    BY FifoFields
<1>2. NextIndex(h) = Wrapped(h + 1)
    BY <1>1, NextIndexIs
<1>3. NextIndex(h) + k - 1 \in 0 .. 2 * Size - 1 /\ h + k \in 0 .. 2 * Size - 1
    BY <1>1, <1>2, SizeIsNat DEF Wrapped
<1>4. Wrapped(NextIndex(h) + k - 1) = Wrapped(h + k)
    BY <1>1, <1>2, SizeIsNat DEF Wrapped
<1>. QED BY <1>3, <1>4, Wrap

\* The handler takes the first character on to the hardware's FIFO.
LEMMA HandlerMoves ==
    ASSUME NEW w, Writer = {w}, UartInv(w), Move
    PROVE  /\ UartInv(w)'
           /\ StoredCount(w) \in Nat /\ StoredCount(w) >= 1
           /\ StoredCount(w)' = StoredCount(w) - 1
           /\ \A i \in 1 .. StoredCount(w) - 1 : StoredAt(i)' = StoredAt(i + 1)
           /\ StoredAt(1) \in Char /\ TDR' = Append(TDR, StoredAt(1))
           /\ UNCHANGED <<line, writers>>
<1>1. TypeOK
    BY DEF UartInv
<1>2. /\ tx_fifo.empty > 0 /\ Len(TDR) < HwSize
      /\ tx_fifo' = [tx_fifo EXCEPT !.empty = tx_fifo.empty - 1,
                                    !.head = NextIndex(tx_fifo.head),
                                    !.full = tx_fifo.full + 1]
      /\ TDR' = Append(TDR, tx_fifo.data[tx_fifo.head])
      /\ UNCHANGED <<line, TXFEIE, handling, pc, char>>
    BY DEF Move, Ready, writers
<1>3. /\ tx_fifo.full + tx_fifo.empty + In(w, {"copy", "advance", "signal"}) = Size
      /\ tx_fifo.tail = Ring(tx_fifo.head + tx_fifo.empty + In(w, {"signal"}))
      /\ In(w, {"copy", "advance", "signal"}) \in {0, 1}
      /\ In(w, {"signal"}) \in {0, 1} /\ In(w, {"advance", "signal"}) \in {0, 1}
      /\ In(w, {"signal"}) <= In(w, {"copy", "advance", "signal"})
      /\ In(w, {"advance", "signal"}) <= In(w, {"copy", "advance", "signal"})
    BY DEF UartInv, PlacesKept, In
<1>0. /\ tx_fifo.full \in Nat /\ tx_fifo.empty \in Nat /\ tx_fifo.empty > 0
      /\ tx_fifo.head \in Nat /\ Size \in Nat
    BY <1>1, <1>2, FifoFields, SizeIsNat
<1>4. tx_fifo.full + 1 \in 0 .. Size /\ tx_fifo.empty - 1 \in 0 .. Size
    BY ONLY <1>0, <1>3
<1>5. /\ tx_fifo'.full = tx_fifo.full + 1 /\ tx_fifo'.empty = tx_fifo.empty - 1
      /\ tx_fifo'.head = NextIndex(tx_fifo.head) /\ tx_fifo'.tail = tx_fifo.tail
      /\ tx_fifo'.data = tx_fifo.data
      /\ tx_fifo' \in FifoType
    BY <1>1, <1>2, <1>4, FifoFields, NextIndexIs DEF FifoType
<1>6. /\ StoredCount(w) \in 1 .. Size
      /\ StoredCount(w)' = StoredCount(w) - 1
    BY <1>1, <1>2, <1>3, <1>5, FifoFields, SizeIsNat DEF StoredCount, In
<1>7. StoredAt(1) = tx_fifo.data[tx_fifo.head] /\ StoredAt(1) \in Char
    <2>1. tx_fifo.head + 1 - 1 = tx_fifo.head /\ tx_fifo.head \in 0 .. 2 * Size - 1
        BY <1>1, FifoFields, SizeIsNat
    <2>2. Ring(tx_fifo.head) = Wrapped(tx_fifo.head) /\ Wrapped(tx_fifo.head) = tx_fifo.head
        BY <1>1, <2>1, Wrap, FifoFields DEF Wrapped
    <2>3. 1 \in 1 .. StoredCount(w)
        BY <1>6, SizeIsNat
    <2>. QED BY <2>1, <2>2, <2>3 DEF StoredAt, UartInv, CharsKept
<1>8. \A i \in 1 .. StoredCount(w) - 1 : StoredAt(i)' = StoredAt(i + 1)
    <2>. SUFFICES ASSUME NEW i \in 1 .. StoredCount(w) - 1
                  PROVE  StoredAt(i)' = StoredAt(i + 1)
        OBVIOUS
    <2>1. i \in 1 .. Size /\ tx_fifo.head + (i + 1) - 1 = tx_fifo.head + i
        BY <1>1, <1>6, FifoFields, SizeIsNat
    <2>2. Ring(NextIndex(tx_fifo.head) + i - 1) = Ring(tx_fifo.head + i)
        BY <1>1, <2>1, Shift
    <2>. QED BY <1>5, <2>1, <2>2 DEF StoredAt
<1>9. TypeOK'
    <2>1. TDR \in Seq(Char)
        BY <1>1 DEF TypeOK
    <2>2. Append(TDR, StoredAt(1)) \in Seq(Char) /\ Len(Append(TDR, StoredAt(1))) = Len(TDR) + 1
        BY <1>7, <2>1, AppendProperties
    <2>3. TDR' \in Seq(Char) /\ Len(TDR') <= HwSize
        BY <1>2, <1>7, <2>1, <2>2, SizeIsNat, LenProperties
    <2>. QED BY <1>1, <1>2, <1>5, <2>3 DEF TypeOK, FifoType
<1>10. PlacesKept(w)'
    <2>1. \A places : In(w, places)' = In(w, places)
        BY <1>2 DEF In
    <2>. DEFINE k == tx_fifo.empty + In(w, {"signal"})
    <2>2. k \in 1 .. Size /\ tx_fifo.head + tx_fifo.empty + In(w, {"signal"}) = tx_fifo.head + k
        BY ONLY <1>0, <1>3
    <2>3. NextIndex(tx_fifo.head) + (tx_fifo.empty - 1) + In(w, {"signal"})
              = NextIndex(tx_fifo.head) + k - 1
        <3>1. NextIndex(tx_fifo.head) \in Int
            BY <1>1, FifoFields, NextIndexIs, SizeIsNat DEF Index
        <3>. QED BY ONLY <3>1, <1>0, <1>3
    <2>4. Ring(NextIndex(tx_fifo.head) + k - 1) = Ring(tx_fifo.head + k)
        BY <1>1, <2>2, Shift
    <2>5. tx_fifo'.tail = Ring(tx_fifo'.head + tx_fifo'.empty + In(w, {"signal"})')
        BY <1>3, <1>5, <2>1, <2>2, <2>3, <2>4
    <2>6. tx_fifo'.full + tx_fifo'.empty + In(w, {"copy", "advance", "signal"})' = Size
        <3>1. (tx_fifo.full + 1) + (tx_fifo.empty - 1) + In(w, {"copy", "advance", "signal"}) = Size
            BY ONLY <1>0, <1>3
        <3>. QED BY <1>5, <2>1, <3>1
    <2>. QED BY <2>5, <2>6 DEF PlacesKept
<1>11. CharsKept(w)'
    <2>1. \A i \in 1 .. StoredCount(w) - 1 : i + 1 \in 1 .. StoredCount(w)
        BY <1>6, SizeIsNat
    <2>2. \A i \in 1 .. StoredCount(w)' : StoredAt(i)' \in Char
        BY <1>6, <1>8, <2>1 DEF UartInv, CharsKept
    <2>. QED BY <1>2, <1>5, <2>2 DEF UartInv, CharsKept
<1>12. NothingAhead(w)'
    BY <1>2, <1>1, FifoFields DEF UartInv, NothingAhead
<1>. QED BY <1>2, <1>6, <1>7, <1>8, <1>9, <1>10, <1>11, <1>12, SizeIsNat DEF UartInv, writers

\* The rest leaves tx_fifo and the writer alone.
LEMMA OthersKeep ==
    ASSUME NEW w, Writer = {w}, UartInv(w),
           UNCHANGED <<tx_fifo, writers>>, TypeOK', Len(TDR') <= Len(TDR)
    PROVE  /\ UartInv(w)'
           /\ StoredCount(w)' = StoredCount(w) /\ \A i : StoredAt(i)' = StoredAt(i)
<1>1. Len(TDR) \in Nat /\ Len(TDR') \in Nat
    BY LenProperties DEF UartInv, TypeOK
<1>2. NothingAhead(w)'
    BY <1>1, SizeIsNat DEF UartInv, NothingAhead, Ready, writers
<1>3. PlacesKept(w)'
    BY DEF UartInv, PlacesKept, In, writers
<1>4. CharsKept(w)' /\ StoredCount(w)' = StoredCount(w) /\ \A i : StoredAt(i)' = StoredAt(i)
    BY DEF UartInv, CharsKept, StoredCount, StoredAt, In, writers
<1>. QED BY <1>2, <1>3, <1>4 DEF UartInv

LEMMA RestTypes ==
    ASSUME NEW w, Writer = {w}, UartInv(w),
           Interrupt \/ NothingLeft \/ NoRoom \/ Load \/ Sent \/ UNCHANGED vars
    PROVE  UNCHANGED <<tx_fifo, writers>> /\ TypeOK' /\ Len(TDR') <= Len(TDR)
<1>1. TypeOK /\ Len(TDR) \in Nat
    BY LenProperties DEF UartInv, TypeOK
<1>2. CASE Interrupt \/ NothingLeft \/ NoRoom \/ Sent \/ UNCHANGED vars
    <2>1. /\ UNCHANGED <<tx_fifo, writers, TDR>>
          /\ line' \in {line, NULL}
        BY <1>2 DEF Interrupt, NothingLeft, NoRoom, Sent, vars, hw
    <2>2. TXFEIE' \in BOOLEAN /\ handling' \in BOOLEAN
        BY <1>1, <1>2 DEF Interrupt, NothingLeft, NoRoom, Sent, vars, hw, TypeOK
    <2>. QED BY <1>1, <2>1, <2>2 DEF TypeOK, writers
<1>3. CASE Load
    <2>1. TDR # <<>> /\ line' = Head(TDR) /\ TDR' = Tail(TDR) /\ TDR \in Seq(Char)
          /\ UNCHANGED <<tx_fifo, TXFEIE, handling, writers>>
        BY <1>1, <1>3 DEF Load, TypeOK
    <2>2. line' \in Char /\ TDR' \in Seq(Char) /\ Len(TDR') = Len(TDR) - 1
        BY <2>1, HeadTailProperties
    <2>3. Len(TDR') <= HwSize /\ Len(TDR') <= Len(TDR)
        BY <1>1, <2>2, SizeIsNat DEF TypeOK
    <2>. QED BY <1>1, <2>1, <2>2, <2>3 DEF TypeOK, writers
<1>. QED BY <1>2, <1>3

LEMMA UartInvStep ==
    ASSUME NEW w, Writer = {w}, UartInv(w), [Next]_vars
    PROVE  UartInv(w)'
<1>1. CASE Interrupt \/ NothingLeft \/ NoRoom \/ Load \/ Sent \/ UNCHANGED vars
    BY <1>1, RestTypes, OthersKeep
<1>2. CASE uart_out_char(w)
    BY <1>2, WriterMoves, WriterCopies, WriterSignals, WriterGoesDirect DEF uart_out_char
<1>3. CASE Move
    BY <1>3, HandlerMoves
<1>. QED BY <1>1, <1>2, <1>3 DEF Next, Handle

\* With one writer, neither FIFO ever holds more than its size, and what they
\* hold are characters written.
THEOREM Types == ASSUME NEW w, Writer = {w} PROVE Spec => []TypeOK
<1>1. Init => UartInv(w)
    BY UartInvInit
<1>2. UartInv(w) /\ [Next]_vars => UartInv(w)'
    BY UartInvStep
<1>3. UartInv(w) => TypeOK
    BY DEF UartInv
<1>. QED BY <1>1, <1>2, <1>3, PTL DEF Spec

-----------------------------------------------------------------------------
(* The queue.                                                                *)

\* The stored characters as a sequence.
Stored(w) == [i \in 1 .. StoredCount(w) |-> StoredAt(i)]

LEMMA UnsentIs ==
    ASSUME NEW w, Writer = {w}
    PROVE  Unsent = TDR \o Stored(w) /\ Unsent' = TDR' \o Stored(w)'
<1>1. Cardinality(At({"advance", "signal"})) = In(w, {"advance", "signal"})
    <2>1. At({"advance", "signal"}) =
              IF pc[w] \in {"advance", "signal"} THEN {w} ELSE {}
        BY DEF At
    <2>. QED BY <2>1, FS_Singleton, FS_EmptySet DEF In
<1>2. Cardinality(At({"advance", "signal"})') = In(w, {"advance", "signal"})'
    <2>1. At({"advance", "signal"})' =
              IF pc'[w] \in {"advance", "signal"} THEN {w} ELSE {}
        BY DEF At
    <2>. QED BY <2>1, FS_Singleton, FS_EmptySet DEF In
<1>3. Unsent = TDR \o Stored(w)
    BY <1>1 DEF Unsent, Stored, StoredCount, StoredAt, Ring
<1>4. Unsent' = TDR' \o Stored(w)'
    BY <1>2 DEF Unsent, Stored, StoredCount, StoredAt, Ring
<1>. QED BY <1>3, <1>4

\* b is s followed by f, element by element.
Join(b, S, s, f, n) ==
    /\ b \in Seq(S) /\ Len(s) \in Nat
    /\ Len(b) = Len(s) + n
    /\ \A i \in 1 .. Len(s) : b[i] = s[i]
    /\ \A i \in 1 .. n : b[Len(s) + i] = f[i]

LEMMA Joined ==
    ASSUME NEW S, NEW s \in Seq(S), NEW f \in Seq(S), NEW n, Len(f) = n
    PROVE  Join(s \o f, S, s, f, n)
<1>2. Len(s) \in Nat /\ n \in Nat
    BY LenProperties
<1>3. /\ s \o f \in Seq(S) /\ Len(s \o f) = Len(s) + n
      /\ \A i \in 1 .. Len(s) + n :
            (s \o f)[i] = IF i <= Len(s) THEN s[i] ELSE f[i - Len(s)]
    BY ConcatProperties
<1>. DEFINE b == s \o f
<1>. HIDE DEF b
<1>4. \A i \in 1 .. n : b[Len(s) + i] = f[i]
    <2>. SUFFICES ASSUME NEW i \in 1 .. n PROVE b[Len(s) + i] = f[i]
        OBVIOUS
    <2>1. /\ Len(s) + i \in 1 .. Len(s) + n /\ ~(Len(s) + i <= Len(s))
          /\ Len(s) + i - Len(s) = i
        BY <1>2
    <2>. QED BY <1>3, <2>1 DEF b
<1>5. \A i \in 1 .. Len(s) : b[i] = s[i]
    <2>. SUFFICES ASSUME NEW i \in 1 .. Len(s) PROVE b[i] = s[i]
        OBVIOUS
    <2>1. i \in 1 .. Len(s) + n /\ i <= Len(s)
        BY <1>2
    <2>. QED BY <1>3, <2>1 DEF b
<1>6. b \in Seq(S) /\ Len(b) = Len(s) + n
    BY <1>3 DEF b
<1>7. Join(b, S, s, f, n)
    BY <1>2, <1>4, <1>5, <1>6 DEF Join
<1>. QED BY <1>7 DEF b

\* The three ways a step changes what is unsent.
OneMore(S, g, f, c, n) ==
    /\ f \in Seq(S) /\ g \in Seq(S) /\ c \in S
    /\ n \in Nat /\ Len(f) = n /\ Len(g) = n + 1
    /\ \A i \in 1 .. n : g[i] = f[i]
    /\ g[n + 1] = c

IsAppend(t, s, c) == t = Append(s, c)

LEMMA JoinedAppend ==
    ASSUME NEW S, NEW s \in Seq(S), NEW f, NEW g, NEW c, NEW n, OneMore(S, g, f, c, n)
    PROVE  IsAppend(s \o g, s \o f, c)
<1>. USE DEF OneMore, IsAppend
<1>. DEFINE d == s \o f
            b == s \o g
            a == Append(d, c)
<1>0. Join(d, S, s, f, n) /\ Join(b, S, s, g, n + 1)
    BY Joined, Zenon
<1>. HIDE DEF d, b
<1>1. /\ d \in Seq(S) /\ Len(s) \in Nat /\ Len(d) = Len(s) + n
      /\ \A i \in 1 .. Len(s) : d[i] = s[i]
      /\ \A i \in 1 .. n : d[Len(s) + i] = f[i]
    BY <1>0 DEF Join
<1>2. /\ b \in Seq(S) /\ Len(b) = Len(s) + (n + 1)
      /\ \A i \in 1 .. Len(s) : b[i] = s[i]
      /\ \A i \in 1 .. n + 1 : b[Len(s) + i] = g[i]
    BY <1>0 DEF Join
<1>3. /\ a \in Seq(S) /\ Len(a) = Len(s) + n + 1
      /\ \A i \in 1 .. Len(s) + n : a[i] = d[i]
      /\ a[Len(s) + n + 1] = c
    BY <1>1, AppendProperties
<1>4. \A i \in 1 .. Len(s) + n + 1 : a[i] = b[i]
    <2>. SUFFICES ASSUME NEW i \in 1 .. Len(s) + n + 1 PROVE a[i] = b[i]
        OBVIOUS
    <2>. HIDE DEF a, b
    <2>1. CASE i \in 1 .. Len(s)
        <3>1. i \in 1 .. Len(s) + n
            BY <1>1, <2>1
        <3>. QED BY <2>1, <3>1, <1>1, <1>2, <1>3
    <2>2. CASE i = Len(s) + n + 1
        <3>1. i = Len(s) + (n + 1) /\ n + 1 \in 1 .. n + 1
            BY <1>1, <2>2
        <3>. QED BY <2>2, <3>1, <1>2, <1>3
    <2>3. CASE i \notin 1 .. Len(s) /\ i # Len(s) + n + 1
        <3>1. /\ i - Len(s) \in 1 .. n /\ i - Len(s) \in 1 .. n + 1
              /\ i = Len(s) + (i - Len(s)) /\ i \in 1 .. Len(s) + n
            BY <1>1, <2>3
        <3>2. a[i] = f[i - Len(s)]
            BY <1>1, <1>3, <3>1
        <3>3. b[i] = g[i - Len(s)]
            BY <1>2, <3>1
        <3>. QED BY <3>1, <3>2, <3>3
    <2>. QED BY <2>1, <2>2, <2>3
<1>5. Len(a) = Len(b)
    BY <1>1, <1>2, <1>3
<1>. HIDE DEF a, b
<1>6. a = b
    BY <1>2, <1>3, <1>4, <1>5, SeqEqual
<1>. QED BY <1>6 DEF a, b, d

LEMMA JoinedMove ==
    ASSUME NEW S, NEW s \in Seq(S), NEW f \in Seq(S), NEW g \in Seq(S),
           NEW n \in Nat, Len(f) = n + 1, Len(g) = n, \A i \in 1 .. n : g[i] = f[i + 1]
    PROVE  Append(s, f[1]) \o g = s \o f
<1>. DEFINE t == Append(s, f[1])
            a == t \o g
            b == s \o f
<1>0. 1 \in 1 .. n + 1 /\ f[1] \in S
    <2>1. 1 \in 1 .. Len(f)
        OBVIOUS
    <2>. QED BY <2>1, ElementOfSeq
<1>1. /\ t \in Seq(S) /\ Len(s) \in Nat /\ Len(t) = Len(s) + 1
      /\ \A i \in 1 .. Len(s) : t[i] = s[i]
      /\ t[Len(s) + 1] = f[1]
    BY <1>0, AppendProperties, LenProperties
<1>. HIDE DEF t
<1>2. /\ a \in Seq(S) /\ Len(a) = Len(t) + n
      /\ \A i \in 1 .. Len(t) : a[i] = t[i]
      /\ \A i \in 1 .. n : a[Len(t) + i] = g[i]
    <2>1. Join(a, S, t, g, n)
        BY <1>1, Joined, Zenon
    <2>. HIDE DEF a, b
    <2>. QED BY <2>1 DEF Join
<1>3. /\ b \in Seq(S) /\ Len(b) = Len(s) + (n + 1)
      /\ \A i \in 1 .. Len(s) : b[i] = s[i]
      /\ \A i \in 1 .. n + 1 : b[Len(s) + i] = f[i]
    <2>1. Join(b, S, s, f, n + 1)
        BY Joined, Zenon
    <2>. HIDE DEF a, b
    <2>. QED BY <2>1 DEF Join
<1>. HIDE DEF a, b
<1>4. \A i \in 1 .. Len(s) + n + 1 : a[i] = b[i]
    <2>. SUFFICES ASSUME NEW i \in 1 .. Len(s) + n + 1 PROVE a[i] = b[i]
        OBVIOUS
    <2>1. CASE i \in 1 .. Len(s)
        <3>1. i \in 1 .. Len(t)
            BY <1>1, <2>1
        <3>. QED BY <2>1, <3>1, <1>1, <1>2, <1>3
    <2>2. CASE i = Len(s) + 1
        <3>1. i \in 1 .. Len(t) /\ t[i] = f[1]
            BY <1>1, <2>2
        <3>2. b[i] = f[1]
            BY <2>2, <1>0, <1>3
        <3>. QED BY <3>1, <3>2, <1>2
    <2>3. CASE i \notin 1 .. Len(s) /\ i # Len(s) + 1
        <3>. DEFINE k == i - Len(s) - 1
        <3>1. k \in 1 .. n /\ k + 1 \in 1 .. n + 1 /\ i = Len(t) + k /\ i = Len(s) + (k + 1)
            BY <1>1, <2>3
        <3>. HIDE DEF k
        <3>2. a[i] = g[k]
            BY <1>2, <3>1
        <3>3. b[i] = f[k + 1]
            BY <1>3, <3>1
        <3>. QED BY <3>1, <3>2, <3>3
    <2>. QED BY <2>1, <2>2, <2>3
<1>5. Len(a) = Len(b) /\ Len(a) = Len(s) + n + 1
    BY <1>1, <1>2, <1>3
<1>6. a = b
    BY <1>2, <1>3, <1>4, <1>5, SeqEqual
<1>. QED BY <1>6 DEF a, b, t

LEMMA JoinedTail ==
    ASSUME NEW S, NEW s \in Seq(S), s # <<>>, NEW f \in Seq(S), NEW n \in Nat, Len(f) = n
    PROVE  /\ s \o f # <<>> /\ Head(s \o f) = Head(s)
           /\ Tail(s) \o f = Tail(s \o f)
<1>. DEFINE b == s \o f
            t == Tail(s)
            a == t \o f
<1>1. /\ t \in Seq(S) /\ Len(s) \in Nat /\ Len(s) >= 1 /\ Len(t) = Len(s) - 1
      /\ Head(s) = s[1] /\ \A i \in 1 .. Len(s) - 1 : t[i] = s[i + 1]
    BY HeadTailProperties, LenProperties, EmptySeq
<1>. HIDE DEF t
<1>2. /\ b \in Seq(S) /\ Len(b) = Len(s) + n
      /\ \A i \in 1 .. Len(s) : b[i] = s[i]
      /\ \A i \in 1 .. n : b[Len(s) + i] = f[i]
    <2>1. Join(b, S, s, f, n)
        BY Joined, Zenon
    <2>. HIDE DEF a, b
    <2>. QED BY <2>1 DEF Join
<1>3. /\ a \in Seq(S) /\ Len(a) = Len(t) + n
      /\ \A i \in 1 .. Len(t) : a[i] = t[i]
      /\ \A i \in 1 .. n : a[Len(t) + i] = f[i]
    <2>1. Join(a, S, t, f, n)
        BY <1>1, Joined, Zenon
    <2>. HIDE DEF a, b
    <2>. QED BY <2>1 DEF Join
<1>. HIDE DEF a, b
<1>4. b # <<>>
    BY <1>1, <1>2, EmptySeq
<1>5. /\ Tail(b) \in Seq(S) /\ Len(Tail(b)) = Len(b) - 1
      /\ Head(b) = b[1] /\ \A i \in 1 .. Len(b) - 1 : Tail(b)[i] = b[i + 1]
    BY <1>2, <1>4, HeadTailProperties
<1>6. \A i \in 1 .. Len(b) - 1 : a[i] = b[i + 1]
    <2>. SUFFICES ASSUME NEW i \in 1 .. Len(b) - 1 PROVE a[i] = b[i + 1]
        OBVIOUS
    <2>1. CASE i \in 1 .. Len(t)
        <3>1. i + 1 \in 1 .. Len(s) /\ i \in 1 .. Len(s) - 1
            BY <1>1, <2>1
        <3>. QED BY <2>1, <3>1, <1>1, <1>2, <1>3
    <2>2. CASE i \notin 1 .. Len(t)
        <3>. DEFINE k == i - Len(t)
        <3>1. k \in 1 .. n /\ i = Len(t) + k /\ i + 1 = Len(s) + k
            BY <1>1, <1>2, <2>2
        <3>. HIDE DEF k
        <3>. QED BY <3>1, <1>2, <1>3
    <2>. QED BY <2>1, <2>2
<1>7. Len(a) = Len(Tail(b)) /\ Len(a) = Len(b) - 1
    BY <1>1, <1>2, <1>3, <1>5
<1>8. a = Tail(b)
    BY <1>3, <1>5, <1>6, <1>7, SeqEqual
<1>9. Head(b) = Head(s)
    BY <1>1, <1>2, <1>5
<1>. QED BY <1>4, <1>8, <1>9 DEF a, b, t

\* What is stored is a sequence of characters, before and after a step.
LEMMA StoredSeq ==
    ASSUME NEW w, Writer = {w}, UartInv(w)
    PROVE  /\ Stored(w) \in Seq(Char) /\ Len(Stored(w)) = StoredCount(w)
           /\ StoredCount(w) \in Nat
           /\ \A i \in 1 .. StoredCount(w) : Stored(w)[i] = StoredAt(i)
           /\ TDR \in Seq(Char) /\ Len(TDR) \in Nat /\ Len(TDR) <= HwSize
<1>1. StoredCount(w) \in Nat /\ \A i \in 1 .. StoredCount(w) : StoredAt(i) \in Char
    BY FifoFields DEF UartInv, CharsKept, StoredCount, In
<1>2. Stored(w) \in [1 .. StoredCount(w) -> Char]
    BY <1>1 DEF Stored
<1>3. Stored(w) \in Seq(Char)
    BY <1>1, <1>2, SeqDef
<1>4. TDR \in Seq(Char) /\ Len(TDR) \in Nat /\ Len(TDR) <= HwSize
    BY LenProperties DEF UartInv, TypeOK
<1>. QED BY <1>1, <1>2, <1>3, <1>4, LenProperties DEF Stored

LEMMA StoredSeqNext ==
    ASSUME NEW w, Writer = {w}, UartInv(w)', StoredCount(w)' \in Nat
    PROVE  /\ Stored(w)' \in Seq(Char) /\ Len(Stored(w)') = StoredCount(w)'
           /\ \A i \in 1 .. StoredCount(w)' : Stored(w)'[i] = StoredAt(i)'
<1>1. \A i \in 1 .. StoredCount(w)' : StoredAt(i)' \in Char
    BY DEF UartInv, CharsKept
<1>2. Stored(w)' \in [1 .. StoredCount(w)' -> Char]
    BY <1>1 DEF Stored
<1>3. Stored(w)' \in Seq(Char)
    BY <1>2, SeqDef
<1>. QED BY <1>2, <1>3, LenProperties DEF Stored

\* The one thing in hand besides the line's character is the writer's.
InHand(w) == IF pc[w] \in {"ready", "direct", "wait", "copy"} THEN char[w] ELSE NULL

LEMMA HandIs ==
    ASSUME NEW w, Writer = {w}
    PROVE  /\ w # "line" /\ NULL \notin Char
           /\ Hand[w] = InHand(w) /\ Hand["line"] = line
           /\ line = NULL /\ InHand(w) = NULL => Hand = [t \in Writer \cup {"line"} |-> NULL]
           /\ line' = line /\ InHand(w)' = InHand(w) => Hand' = Hand
           /\ line' = line => \A c : InHand(w)' = c => Hand' = [Hand EXCEPT ![w] = c]
           /\ InHand(w)' = InHand(w) =>
                 \A c : line' = c => Hand' = [Hand EXCEPT !["line"] = c]
<1>1. "line" \notin Writer /\ NULL \notin Char
    BY UartAssumption
<1>2. Writer \cup {"line"} = {w, "line"} /\ w # "line"
    BY <1>1
<1>. DEFINE F(l, c) == [t \in {w, "line"} |-> IF t = "line" THEN l ELSE c]
<1>3. Hand = F(line, InHand(w)) /\ Hand' = F(line', InHand(w)')
    BY <1>2 DEF Hand, InHand
<1>4. \A l, c : F(l, c)[w] = c /\ F(l, c)["line"] = l
    BY <1>2
<1>5. \A l, c, d : F(l, d) = [F(l, c) EXCEPT ![w] = d]
    BY <1>2, ZenonT(60)
<1>6. \A l, m, c : F(m, c) = [F(l, c) EXCEPT !["line"] = m]
    BY <1>2, ZenonT(60)
<1>7. \A l, c : l = NULL /\ c = NULL => F(l, c) = [t \in Writer \cup {"line"} |-> NULL]
    BY <1>2
<1>. HIDE DEF F
<1>. QED BY <1>1, <1>2, <1>3, <1>4, <1>5, <1>6, <1>7

LEMMA QueueInit == ASSUME NEW w, Writer = {w}, Init PROVE Abstract!Init
<1>1. UartInv(w) /\ tx_fifo.empty = 0 /\ pc[w] = "idle" /\ TDR = <<>> /\ line = NULL
    BY UartInvInit DEF Init
<1>2. StoredCount(w) = 0
    BY <1>1 DEF StoredCount, In
<1>3. Stored(w) = <<>>
    BY <1>1, <1>2, StoredSeq, EmptySeq
<1>4. Unsent = <<>>
    BY <1>1, <1>3, UnsentIs
<1>5. Hand = [t \in Writer \cup {"line"} |-> NULL]
    <2>1. InHand(w) = NULL
        BY <1>1 DEF InHand
    <2>. QED BY <1>1, <2>1, HandIs
<1>. QED BY <1>4, <1>5 DEF Abstract!Init

\* A step of the writer: the character it offers, or the one it enters.
LEMMA QueueWriter ==
    ASSUME NEW w, Writer = {w}, UartInv(w), uart_out_char(w)
    PROVE  [Abstract!Next]_Abstract!vars
<1>1. /\ pc \in [{w} -> Place] /\ char \in [{w} -> Char \cup {NULL}]
      /\ w # "line" /\ NULL \notin Char /\ w \in Writer
      /\ (pc[w] # "idle" => char[w] \in Char)
    BY HandIs DEF UartInv, TypeOK, CharsKept
<1>2. CASE TestSize(w) \/ TestReady(w) \/ PutWait(w) \/ Enable(w)
    <2>1. UartInv(w)' /\ UNCHANGED hw /\ StoredCount(w)' = StoredCount(w)
          /\ \A i : StoredAt(i)' = StoredAt(i)
        BY <1>2, WriterMoves
    <2>2. Unsent' = Unsent
        BY <2>1, UnsentIs DEF Stored, hw
    <2>3. CASE TestSize(w)
        <3>1. PICK c \in Char : char' = [char EXCEPT ![w] = c]
            BY <2>3 DEF TestSize
        <3>2. /\ pc[w] = "idle" /\ line' = line
              /\ pc'[w] \in {"ready", "wait"} /\ char'[w] = c
            BY <1>1, <2>3, <3>1 DEF TestSize, Go, hw
        <3>3. InHand(w) = NULL /\ InHand(w)' = c
            BY <3>2 DEF InHand
        <3>4. Hand[w] = NULL /\ Hand' = [Hand EXCEPT ![w] = c]
            BY <3>2, <3>3, HandIs, <1>1
        <3>5. Abstract!Offer(w)
            BY <2>2, <3>4 DEF Abstract!Offer
        <3>. QED BY <1>1, <3>5 DEF Abstract!Next
    <2>4. CASE TestReady(w) \/ PutWait(w) \/ Enable(w)
        <3>1. /\ char' = char /\ line' = line
              /\ \/ pc[w] = "ready" /\ pc'[w] \in {"direct", "wait"}
                 \/ pc[w] = "wait" /\ pc'[w] = "copy"
                 \/ pc[w] = "enable" /\ pc'[w] = "idle"
            BY <1>1, <2>4 DEF TestReady, PutWait, Enable, Go, hw
        <3>2. InHand(w)' = InHand(w)
            BY <3>1 DEF InHand
        <3>3. Hand' = Hand
            BY <3>1, <3>2, HandIs
        <3>. QED BY <2>2, <3>3 DEF Abstract!vars
    <2>. QED BY <1>2, <2>3, <2>4
<1>3. CASE PutAdvance(w) \/ PutSignal(w)
    <2>1. /\ UNCHANGED <<hw, char>> /\ StoredCount(w)' = StoredCount(w)
          /\ \A i : StoredAt(i)' = StoredAt(i)
        BY <1>3, WriterSignals
    <2>2. Unsent' = Unsent
        BY <2>1, UnsentIs DEF Stored, hw
    <2>3. InHand(w) = NULL /\ InHand(w)' = NULL /\ line' = line
        BY <1>1, <1>3, <2>1 DEF PutAdvance, PutSignal, Go, InHand, hw
    <2>4. Hand' = Hand
        BY <2>3, HandIs
    <2>. QED BY <2>2, <2>4 DEF Abstract!vars
<1>4. CASE PutCopy(w)
    <2>1. /\ UartInv(w)' /\ UNCHANGED <<hw, char>> /\ char[w] \in Char
          /\ StoredCount(w) < Size /\ StoredCount(w)' = StoredCount(w) + 1
          /\ \A i \in 1 .. StoredCount(w) : StoredAt(i)' = StoredAt(i)
          /\ \A i : i = StoredCount(w) + 1 => StoredAt(i)' = char[w]
        BY <1>4, WriterCopies
    <2>2. /\ Stored(w) \in Seq(Char) /\ StoredCount(w) \in Nat
          /\ Len(Stored(w)) = StoredCount(w)
          /\ \A i \in 1 .. StoredCount(w) : Stored(w)[i] = StoredAt(i)
          /\ TDR \in Seq(Char) /\ Len(TDR) \in Nat /\ Len(TDR) <= HwSize
        BY StoredSeq
    <2>. DEFINE g == Stored(w)'
    <2>3. /\ g \in Seq(Char) /\ Len(g) = StoredCount(w) + 1
          /\ \A i \in 1 .. StoredCount(w) + 1 : g[i] = StoredAt(i)'
        BY <2>1, <2>2, StoredSeqNext
    <2>. HIDE DEF g
    <2>4. /\ \A i \in 1 .. StoredCount(w) : g[i] = Stored(w)[i]
          /\ g[StoredCount(w) + 1] = char[w]
        BY <2>1, <2>2, <2>3
    <2>5. TDR \o g = Append(TDR \o Stored(w), char[w])
        <3>. DEFINE f == Stored(w)
                    n == StoredCount(w)
                    c == char[w]
        <3>1. TDR \in Seq(Char) /\ OneMore(Char, g, f, c, n)
            BY <2>1, <2>2, <2>3, <2>4 DEF OneMore
        <3>. HIDE DEF f, n, c
        <3>2. IsAppend(TDR \o g, TDR \o f, c)
            BY <3>1, JoinedAppend, Zenon
        <3>. QED BY <3>2 DEF IsAppend, f, c
    <2>6. Unsent' = Append(Unsent, char[w])
        BY <2>1, <2>5, UnsentIs DEF g, hw
    <2>7. Len(Unsent) < Size + HwSize
        <3>1. Join(TDR \o Stored(w), Char, TDR, Stored(w), StoredCount(w))
            BY <2>2, Joined, Zenon
        <3>2. Len(Unsent) = Len(TDR) + StoredCount(w)
            BY <3>1, UnsentIs DEF Join
        <3>. QED BY <2>1, <2>2, <3>2, SizeIsNat
    <2>8. InHand(w) = char[w] /\ InHand(w)' = NULL /\ line' = line
        BY <1>1, <1>4, <2>1 DEF PutCopy, Go, InHand, hw
    <2>9. Hand[w] = char[w] /\ Hand' = [Hand EXCEPT ![w] = NULL]
        BY <1>1, <2>8, HandIs
    <2>10. Abstract!Enter(w)
        BY <1>1, <2>1, <2>6, <2>7, <2>9 DEF Abstract!Enter
    <2>. QED BY <1>1, <2>10 DEF Abstract!Next
<1>5. CASE Direct(w)
    <2>1. /\ UartInv(w)' /\ StoredCount(w) = 0 /\ StoredCount(w)' = 0
          /\ TDR' = Append(TDR, char[w]) /\ Len(TDR) < HwSize
          /\ UNCHANGED <<line, char>> /\ char[w] \in Char
        BY <1>5, WriterGoesDirect
    <2>2. Stored(w) = <<>> /\ TDR \in Seq(Char) /\ Len(TDR) \in Nat
        BY <2>1, StoredSeq, EmptySeq
    <2>3. Stored(w)' = <<>>
        BY <2>1, StoredSeqNext, EmptySeq
    <2>4. Unsent = TDR
        BY <2>2, UnsentIs, ConcatEmptySeq
    <2>5. TDR' \in Seq(Char)
        BY <2>1, <2>2, AppendProperties
    <2>6. Unsent' = TDR'
        BY <2>3, <2>5, UnsentIs, ConcatEmptySeq
    <2>7. Unsent' = Append(Unsent, char[w]) /\ Len(Unsent) < Size + HwSize
        BY <2>1, <2>2, <2>4, <2>6, SizeIsNat
    <2>8. InHand(w) = char[w] /\ InHand(w)' = NULL
        BY <1>1, <1>5 DEF Direct, Go, InHand
    <2>9. Hand[w] = char[w] /\ Hand' = [Hand EXCEPT ![w] = NULL]
        BY <1>1, <2>1, <2>8, HandIs
    <2>10. Abstract!Enter(w)
        BY <1>1, <2>1, <2>7, <2>9 DEF Abstract!Enter
    <2>. QED BY <1>1, <2>10 DEF Abstract!Next
<1>. QED BY <1>2, <1>3, <1>4, <1>5 DEF uart_out_char

\* A step of the hardware: it takes the first character, or has sent it.
LEMMA QueueLine ==
    ASSUME NEW w, Writer = {w}, UartInv(w), Load \/ Sent
    PROVE  Abstract!Next
<1>1. StoredCount(w)' = StoredCount(w) /\ \A i : StoredAt(i)' = StoredAt(i)
    BY RestTypes, OthersKeep
<1>2. Stored(w)' = Stored(w)
    BY <1>1 DEF Stored
<1>3. InHand(w)' = InHand(w)
    BY DEF Load, Sent, writers, InHand
<1>4. CASE Load
    <2>1. line = NULL /\ TDR # <<>> /\ line' = Head(TDR) /\ TDR' = Tail(TDR)
        BY <1>4 DEF Load
    <2>2. Stored(w) \in Seq(Char) /\ StoredCount(w) \in Nat
          /\ Len(Stored(w)) = StoredCount(w) /\ TDR \in Seq(Char)
        BY StoredSeq
    <2>3. /\ TDR \o Stored(w) # <<>> /\ Head(TDR \o Stored(w)) = Head(TDR)
          /\ Tail(TDR) \o Stored(w) = Tail(TDR \o Stored(w))
        BY <2>1, <2>2, JoinedTail
    <2>4. Unsent # <<>> /\ Head(Unsent) = line' /\ Unsent' = Tail(Unsent)
        BY <1>2, <2>1, <2>3, UnsentIs
    <2>5. Hand["line"] = NULL /\ Hand' = [Hand EXCEPT !["line"] = line']
        BY <1>3, <2>1, HandIs
    <2>6. Abstract!Take("line")
        BY <2>4, <2>5 DEF Abstract!Take
    <2>. QED BY <2>6 DEF Abstract!Next
<1>5. CASE Sent
    <2>1. line # NULL /\ line' = NULL /\ TDR' = TDR
        BY <1>5 DEF Sent
    <2>2. Unsent' = Unsent
        BY <1>2, <2>1, UnsentIs
    <2>3. Hand["line"] # NULL /\ Hand' = [Hand EXCEPT !["line"] = NULL]
        BY <1>3, <2>1, HandIs
    <2>4. Abstract!Use("line")
        BY <2>2, <2>3 DEF Abstract!Use
    <2>. QED BY <2>4 DEF Abstract!Next
<1>. QED BY <1>4, <1>5

\* A step of the handler moves a character on without changing what is unsent.
LEMMA QueueHandler ==
    ASSUME NEW w, Writer = {w}, UartInv(w),
           Move \/ Interrupt \/ NothingLeft \/ NoRoom \/ UNCHANGED vars
    PROVE  UNCHANGED Abstract!vars
<1>1. line' = line /\ pc' = pc /\ char' = char
    BY DEF Move, Interrupt, NothingLeft, NoRoom, vars, hw, writers
<1>2. Hand' = Hand
    <2>1. InHand(w)' = InHand(w)
        BY <1>1 DEF InHand
    <2>. QED BY <1>1, <2>1, HandIs
<1>3. CASE Move
    <2>1. /\ UartInv(w)' /\ StoredCount(w) \in Nat /\ StoredCount(w) >= 1
          /\ StoredCount(w)' = StoredCount(w) - 1
          /\ \A i \in 1 .. StoredCount(w) - 1 : StoredAt(i)' = StoredAt(i + 1)
          /\ TDR' = Append(TDR, StoredAt(1))
        BY <1>3, HandlerMoves
    <2>2. /\ Stored(w) \in Seq(Char) /\ Len(Stored(w)) = StoredCount(w)
          /\ \A i \in 1 .. StoredCount(w) : Stored(w)[i] = StoredAt(i)
          /\ TDR \in Seq(Char)
        BY StoredSeq
    <2>. DEFINE g == Stored(w)'
                n == StoredCount(w) - 1
    <2>3. n \in Nat /\ StoredCount(w) = n + 1 /\ StoredCount(w)' = n
        BY <2>1
    <2>4. /\ g \in Seq(Char) /\ Len(g) = n
          /\ \A i \in 1 .. n : g[i] = StoredAt(i)'
        BY <2>1, <2>3, StoredSeqNext
    <2>. HIDE DEF g
    <2>5. \A i \in 1 .. n : i + 1 \in 1 .. StoredCount(w)
        BY <2>3
    <2>6. \A i \in 1 .. n : g[i] = Stored(w)[i + 1]
        BY <2>1, <2>2, <2>4, <2>5
    <2>. HIDE DEF n
    <2>7. Stored(w)[1] = StoredAt(1)
        BY <2>2, <2>3
    <2>8. Append(TDR, Stored(w)[1]) \o g = TDR \o Stored(w)
        <3>. DEFINE f == Stored(w)
        <3>1. /\ TDR \in Seq(Char) /\ f \in Seq(Char) /\ g \in Seq(Char)
              /\ n \in Nat /\ Len(f) = n + 1 /\ Len(g) = n
              /\ \A i \in 1 .. n : g[i] = f[i + 1]
            BY <2>2, <2>3, <2>4, <2>6
        <3>. HIDE DEF f
        <3>2. Append(TDR, f[1]) \o g = TDR \o f
            BY <3>1, JoinedMove, ZenonT(30)
        <3>. QED BY <3>2 DEF f
    <2>9. Unsent' = Unsent
        BY <2>1, <2>7, <2>8, UnsentIs DEF g
    <2>. QED BY <1>2, <2>9 DEF Abstract!vars
<1>4. CASE Interrupt \/ NothingLeft \/ NoRoom \/ UNCHANGED vars
    <2>1. TDR' = TDR
        BY <1>4 DEF Interrupt, NothingLeft, NoRoom, vars, hw
    <2>2. StoredCount(w)' = StoredCount(w) /\ \A i : StoredAt(i)' = StoredAt(i)
        BY <1>4, RestTypes, OthersKeep
    <2>3. Unsent' = Unsent
        BY <2>1, <2>2, UnsentIs DEF Stored
    <2>. QED BY <1>2, <2>3 DEF Abstract!vars
<1>. QED BY <1>3, <1>4

\* With one writer, its characters are sent once each and in order, though it
\* writes to the hardware itself when it finds tx_fifo empty and the handler does
\* when it does not (uart.c:167-181, 71-79).
THEOREM UartIsAQueue == ASSUME NEW w, Writer = {w} PROVE Spec => ImplementsQueue
<1>1. Init => Abstract!Init /\ UartInv(w)
    BY QueueInit, UartInvInit
<1>2. UartInv(w) /\ [Next]_vars => UartInv(w)'
    BY UartInvStep
<1>3. UartInv(w) /\ [Next]_vars => [Abstract!Next]_Abstract!vars
    <2>. SUFFICES ASSUME UartInv(w), [Next]_vars PROVE [Abstract!Next]_Abstract!vars
        OBVIOUS
    <2>1. CASE uart_out_char(w)
        BY <2>1, QueueWriter
    <2>2. CASE Load \/ Sent
        BY <2>2, QueueLine
    <2>3. CASE Move \/ Interrupt \/ NothingLeft \/ NoRoom \/ UNCHANGED vars
        BY <2>3, QueueHandler
    <2>. QED BY <2>1, <2>2, <2>3 DEF Next, Handle
<1>. QED BY <1>1, <1>2, <1>3, PTL DEF Spec, ImplementsQueue, Abstract!Spec
=============================================================================
