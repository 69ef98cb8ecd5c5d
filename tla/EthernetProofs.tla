--------------------------- MODULE EthernetProofs ---------------------------
(***************************************************************************)
(* Proofs about Ethernet, for any number of buffers, descriptors and caps: *)
(* the pool's counts (PoolInv), the receive ring (RxInv), the transmit     *)
(* ring (TxInv), and where each block is (NoneLost).                       *)
(***************************************************************************)
EXTENDS Ethernet, FiniteSetTheorems, SequenceTheorems, TLAPS

HeldCount(b) == IF b = NULL THEN 0 ELSE 1

InFifo == Len(tx_fifo)
InHand == IF sender.pc = "put" THEN 1 ELSE 0
Pending == Len(tx_pending)
FreeCount(p) == Len(p.free)

\* The blocks out for transmission.
TransmittingCount ==
    HeldCount(receiver.reply) + HeldCount(server.reply) + InFifo + InHand
    + Pending + HeldCount(completer.pkt)

RxDesc == [desc : [RxIdx -> {"own", "frame", "stamped", "context"}],
           block : [RxIdx -> Block], current : RxIdx, dma : RxIdx]
TxDesc == [desc : [TxIdx -> Block \cup {NULL}], current : TxIdx, dma : TxIdx]
ReceiverRec == [pc : {"wait", "receive", "process", "deliver", "send", "free"},
                frame : Block \cup {NULL}, reply : Block \cup {NULL}]
SenderRec == [pc : {"get", "put", "init"}, pkt : Block \cup {NULL}]
CompleterRec == [pc : {"wait", "get", "free"}, pkt : Block \cup {NULL}]
ServerRec == [pc : {"get", "alloc", "send"}, reply : Block \cup {NULL}]
Pool == [free : Seq(Block), rx_alloc_cnt : 0 .. RX_PKT_MAX,
         tx_alloc_cnt : 0 .. TX_PKT_MAX, dry : BOOLEAN]

\* TypeOK, but for the bounds of the semaphores.
Types ==
    /\ pool \in Pool
    /\ rx \in RxDesc
    /\ tx \in TxDesc
    /\ DMACSR \subseteq {"RI", "TI"} /\ handling \in BOOLEAN
    /\ eth_rx_semaphore \in Nat /\ eth_tx_semaphore \in Nat
    /\ tx_fifo \in Seq(Block) /\ Len(tx_fifo) <= TX_PKT_MAX
    /\ tx_pending \in Seq(Block) /\ Len(tx_pending) <= TX_DSC_CNT
    /\ socket \in 0 .. SOCKET_SIZE
    /\ receiver \in ReceiverRec /\ sender \in SenderRec
    /\ completer \in CompleterRec /\ server \in ServerRec

\* Where a task is tells what it holds.
Hands ==
    /\ receiver.frame = NULL <=> receiver.pc \in {"wait", "receive"}
    /\ receiver.reply = NULL <=> receiver.pc # "send"
    /\ server.reply = NULL <=> server.pc # "send"
    /\ sender.pkt = NULL <=> sender.pc = "get"
    /\ completer.pkt = NULL <=> completer.pc # "free"

\* The counts bound what is out, and with the free list they account for all.
PoolCounts ==
    /\ TransmittingCount <= pool.tx_alloc_cnt
    /\ RX_DSC_CNT + HeldCount(receiver.frame) <= pool.rx_alloc_cnt
    /\ ~pool.dry =>
        FreeCount(pool) + pool.rx_alloc_cnt + pool.tx_alloc_cnt = PKT_BUFFER_CNT

PoolInv == Types /\ Hands /\ PoolCounts

LEMMA Sizes ==
    /\ RX_PKT_MAX \in Nat /\ TX_PKT_MAX \in Nat /\ RX_DSC_CNT \in Nat /\ TX_DSC_CNT \in Nat
    /\ SOCKET_SIZE \in Nat /\ RX_PKT_MAX > 0 /\ TX_PKT_MAX > 0 /\ RX_DSC_CNT > 0 /\ TX_DSC_CNT > 0
    /\ SOCKET_SIZE > 0 /\ RX_DSC_CNT < RX_PKT_MAX
    /\ PKT_BUFFER_CNT \in Nat /\ RX_DSC_CNT <= PKT_BUFFER_CNT
BY EthernetAssumption, FS_CardinalityType DEF PKT_BUFFER_CNT

-----------------------------------------------------------------------------
(* The operations on the pool.                                               *)

\* The first block of the list, or none.
LEMMA TakeBlock ==
    ASSUME NEW q \in Pool, ~q.dry, NEW a, a = Take(q)
    PROVE  /\ a.pool \in Pool /\ a.block \in Block \cup {NULL}
           /\ a.pool.tx_alloc_cnt = q.tx_alloc_cnt /\ a.pool.rx_alloc_cnt = q.rx_alloc_cnt
           /\ a.block = NULL <=> a.pool.dry
           /\ a.pool.dry <=> FreeCount(q) = 0
           /\ a.block # NULL => FreeCount(a.pool) = FreeCount(q) - 1
<1>0. q.free \in Seq(Block)
    BY DEF Pool
<1>1. CASE q.free = <<>>
    <2> DEFINE r == [q EXCEPT !.dry = TRUE]
    <2>1. a.block = NULL /\ a.pool = r
        BY <1>1 DEF Take
    <2>2. /\ r \in Pool /\ r.dry /\ r.tx_alloc_cnt = q.tx_alloc_cnt
          /\ r.rx_alloc_cnt = q.rx_alloc_cnt
        BY DEF Pool
    <2>3. FreeCount(q) = 0
        BY <1>1 DEF FreeCount
    <2>. HIDE DEF r
    <2>. QED BY <2>1, <2>2, <2>3
<1>2. CASE q.free # <<>>
    <2> DEFINE r == [q EXCEPT !.free = Tail(q.free)]
    <2>1. a.block = Head(q.free) /\ a.pool = r
        BY <1>2 DEF Take
    <2>2. /\ Head(q.free) \in Block /\ Tail(q.free) \in Seq(Block)
          /\ Len(Tail(q.free)) = FreeCount(q) - 1
          /\ FreeCount(q) \in Nat \ {0}
        BY <1>0, <1>2, HeadTailProperties, EmptySeq DEF FreeCount
    <2>3. /\ r \in Pool /\ ~r.dry /\ r.tx_alloc_cnt = q.tx_alloc_cnt
          /\ r.rx_alloc_cnt = q.rx_alloc_cnt /\ r.free = Tail(q.free)
        BY <2>2 DEF Pool
    <2>4. Head(q.free) # NULL
        BY <2>2, EthernetAssumption
    <2>. HIDE DEF r
    <2>5. FreeCount(r) = Len(Tail(q.free))
        BY <2>3 DEF FreeCount
    <2>. QED BY <2>1, <2>2, <2>3, <2>4, <2>5
<1>. QED BY <1>1, <1>2

\* An allocation gives no block and leaves the pool as it was; or finds the list
\* empty; or takes the first block of the list.
LEMMA AllocRx ==
    ASSUME NEW p \in Pool, ~p.dry, NEW a, a = pkt_alloc_rx(p)
    PROVE  /\ a.pool \in Pool /\ a.block \in Block \cup {NULL}
           /\ a.pool.tx_alloc_cnt = p.tx_alloc_cnt
           /\ a.block = NULL /\ ~a.pool.dry => a.pool = p
           /\ a.pool.dry <=> p.rx_alloc_cnt < RX_PKT_MAX /\ FreeCount(p) = 0
           /\ a.pool.dry => a.block = NULL
           /\ a.block # NULL =>
                /\ a.pool.rx_alloc_cnt = p.rx_alloc_cnt + 1
                /\ FreeCount(a.pool) = FreeCount(p) - 1
           /\ a.pool.rx_alloc_cnt >= p.rx_alloc_cnt
<1>0. /\ p.free \in Seq(Block) /\ p.rx_alloc_cnt \in 0 .. RX_PKT_MAX
      /\ p.tx_alloc_cnt \in 0 .. TX_PKT_MAX
    BY DEF Pool
<1>1. CASE p.rx_alloc_cnt >= RX_PKT_MAX
    <2>1. a.block = NULL /\ a.pool = p
        BY <1>1 DEF pkt_alloc_rx
    <2>. QED BY <2>1, <1>0, <1>1, Sizes
<1> DEFINE q == [p EXCEPT !.rx_alloc_cnt = @ + 1]
<1>2. CASE p.rx_alloc_cnt < RX_PKT_MAX
    <2>1. a = Take(q)
        BY <1>0, <1>2, Sizes DEF pkt_alloc_rx
    <2>2. /\ q \in Pool /\ ~q.dry /\ FreeCount(q) = FreeCount(p)
          /\ q.rx_alloc_cnt = p.rx_alloc_cnt + 1 /\ q.tx_alloc_cnt = p.tx_alloc_cnt
        BY <1>0, <1>2, Sizes DEF Pool, FreeCount
    <2>. HIDE DEF q
    <2>. QED BY <2>1, <2>2, <1>0, <1>2, TakeBlock, Sizes
<1>. QED BY <1>0, <1>1, <1>2, Sizes

LEMMA AllocTx ==
    ASSUME NEW p \in Pool, ~p.dry, NEW a, a = pkt_alloc_tx(p)
    PROVE  /\ a.pool \in Pool /\ a.block \in Block \cup {NULL}
           /\ a.pool.rx_alloc_cnt = p.rx_alloc_cnt
           /\ a.block = NULL /\ ~a.pool.dry => a.pool = p
           /\ a.pool.dry <=> p.tx_alloc_cnt < TX_PKT_MAX /\ FreeCount(p) = 0
           /\ a.pool.dry => a.block = NULL
           /\ a.block # NULL =>
                /\ a.pool.tx_alloc_cnt = p.tx_alloc_cnt + 1
                /\ FreeCount(a.pool) = FreeCount(p) - 1
           /\ a.pool.tx_alloc_cnt >= p.tx_alloc_cnt
<1>0. /\ p.free \in Seq(Block) /\ p.rx_alloc_cnt \in 0 .. RX_PKT_MAX
      /\ p.tx_alloc_cnt \in 0 .. TX_PKT_MAX
    BY DEF Pool
<1>1. CASE p.tx_alloc_cnt >= TX_PKT_MAX
    <2>1. a.block = NULL /\ a.pool = p
        BY <1>1 DEF pkt_alloc_tx
    <2>. QED BY <2>1, <1>0, <1>1, Sizes
<1> DEFINE q == [p EXCEPT !.tx_alloc_cnt = @ + 1]
<1>2. CASE p.tx_alloc_cnt < TX_PKT_MAX
    <2>1. a = Take(q)
        BY <1>0, <1>2, Sizes DEF pkt_alloc_tx
    <2>2. /\ q \in Pool /\ ~q.dry /\ FreeCount(q) = FreeCount(p)
          /\ q.tx_alloc_cnt = p.tx_alloc_cnt + 1 /\ q.rx_alloc_cnt = p.rx_alloc_cnt
        BY <1>0, <1>2, Sizes DEF Pool, FreeCount
    <2>. HIDE DEF q
    <2>. QED BY <2>1, <2>2, <1>0, <1>2, TakeBlock, Sizes
<1>. QED BY <1>0, <1>1, <1>2, Sizes

LEMMA FreeRx ==
    ASSUME NEW p \in Pool, NEW b \in Block, p.rx_alloc_cnt > 0, NEW q, q = pkt_free_rx(p, b)
    PROVE  /\ q \in Pool /\ q.dry = p.dry /\ FreeCount(q) = FreeCount(p) + 1
           /\ q.rx_alloc_cnt = p.rx_alloc_cnt - 1 /\ q.tx_alloc_cnt = p.tx_alloc_cnt
<1> DEFINE list == <<b>> \o p.free
<1>0. p.free \in Seq(Block)
    BY DEF Pool
<1>1. <<b>> \in Seq(Block) /\ Len(<<b>>) = 1
    OBVIOUS
<1>2. list \in Seq(Block) /\ Len(list) = FreeCount(p) + 1
    BY <1>0, <1>1, ConcatProperties, LenProperties DEF FreeCount
<1> DEFINE count == p.rx_alloc_cnt - 1
<1>3. count \in 0 .. RX_PKT_MAX
    BY Sizes DEF Pool
<1>4. q = [p EXCEPT !.free = list, !.rx_alloc_cnt = count]
    BY DEF pkt_free_rx
<1>. HIDE DEF list, count
<1>5. /\ q \in Pool /\ q.dry = p.dry /\ q.free = list
      /\ q.rx_alloc_cnt = count /\ q.tx_alloc_cnt = p.tx_alloc_cnt
    BY <1>2, <1>3, <1>4 DEF Pool
<1>. QED BY <1>2, <1>5 DEF count, FreeCount

LEMMA FreeTx ==
    ASSUME NEW p \in Pool, NEW b \in Block, p.tx_alloc_cnt > 0, NEW q, q = pkt_free_tx(p, b)
    PROVE  /\ q \in Pool /\ q.dry = p.dry /\ FreeCount(q) = FreeCount(p) + 1
           /\ q.tx_alloc_cnt = p.tx_alloc_cnt - 1 /\ q.rx_alloc_cnt = p.rx_alloc_cnt
<1> DEFINE list == <<b>> \o p.free
<1>0. p.free \in Seq(Block)
    BY DEF Pool
<1>1. <<b>> \in Seq(Block) /\ Len(<<b>>) = 1
    OBVIOUS
<1>2. list \in Seq(Block) /\ Len(list) = FreeCount(p) + 1
    BY <1>0, <1>1, ConcatProperties, LenProperties DEF FreeCount
<1> DEFINE count == p.tx_alloc_cnt - 1
<1>3. count \in 0 .. TX_PKT_MAX
    BY Sizes DEF Pool
<1>4. q = [p EXCEPT !.free = list, !.tx_alloc_cnt = count]
    BY DEF pkt_free_tx
<1>. HIDE DEF list, count
<1>5. /\ q \in Pool /\ q.dry = p.dry /\ q.free = list
      /\ q.tx_alloc_cnt = count /\ q.rx_alloc_cnt = p.rx_alloc_cnt
    BY <1>2, <1>3, <1>4 DEF Pool
<1>. QED BY <1>2, <1>5 DEF count, FreeCount

-----------------------------------------------------------------------------
(* Every step keeps the invariant.                                           *)

LEMMA PoolInvInit == Init => PoolInv
<1>. SUFFICES ASSUME Init PROVE PoolInv
    OBVIOUS
<1>1. PICK blocks \in SetToSeqs(Block) :
        /\ pool = [free |-> SubSeq(blocks, RX_DSC_CNT + 1, PKT_BUFFER_CNT),
                   rx_alloc_cnt |-> RX_DSC_CNT, tx_alloc_cnt |-> 0, dry |-> FALSE]
        /\ rx = [desc |-> [i \in RxIdx |-> "own"], block |-> [i \in RxIdx |-> blocks[i + 1]],
                 current |-> 0, dma |-> 0]
    BY DEF Init
<1>2. blocks \in [1 .. PKT_BUFFER_CNT -> Block]
    BY DEF SetToSeqs, PKT_BUFFER_CNT
<1>3. /\ pool.free \in Seq(Block) /\ FreeCount(pool) = PKT_BUFFER_CNT - RX_DSC_CNT
      /\ pool.rx_alloc_cnt = RX_DSC_CNT /\ pool.tx_alloc_cnt = 0 /\ pool.dry = FALSE
    <2>1. \A i \in RX_DSC_CNT + 1 .. PKT_BUFFER_CNT : blocks[i] \in Block
        BY <1>2, Sizes
    <2>. QED BY <1>1, <2>1, Sizes, SubSeqProperties DEF FreeCount
<1>4. pool \in Pool
    BY <1>1, <1>3, Sizes DEF Pool
<1>5. rx \in RxDesc
    BY <1>1, <1>2, Sizes DEF RxDesc, RxIdx
<1>6. Types
    <2>1. tx \in TxDesc
        BY Sizes DEF Init, TxIdx, TxDesc
    <2>2. /\ DMACSR = {} /\ handling = FALSE /\ eth_rx_semaphore = 0 /\ eth_tx_semaphore = 0
          /\ tx_fifo = <<>> /\ tx_pending = <<>> /\ socket = 0
        BY DEF Init
    <2>3. /\ receiver \in ReceiverRec /\ sender \in SenderRec
          /\ completer \in CompleterRec /\ server \in ServerRec
        BY DEF Init, ReceiverRec, SenderRec, CompleterRec, ServerRec
    <2>4. <<>> \in Seq(Block) /\ Len(<<>>) = 0
        BY EmptySeq
    <2>5. /\ tx_fifo \in Seq(Block) /\ Len(tx_fifo) <= TX_PKT_MAX
          /\ tx_pending \in Seq(Block) /\ Len(tx_pending) <= TX_DSC_CNT
          /\ socket \in 0 .. SOCKET_SIZE
        BY <2>2, <2>4, Sizes
    <2>. QED BY <1>4, <1>5, <2>1, <2>2, <2>3, <2>5 DEF Types
<1>7. Hands
    BY DEF Init, Hands
<1>8. PoolCounts
    BY <1>3, Sizes DEF Init, PoolCounts, TransmittingCount, HeldCount,
                                InFifo, InHand, Pending
<1>. QED BY <1>6, <1>7, <1>8 DEF PoolInv

\* The steps that leave the pool, the queues and the tasks as they are.
LEMMA HardwareKeepsPool ==
    ASSUME PoolInv, Dma \/ Handler
    PROVE  PoolInv'
<1>1. UNCHANGED <<pool, tx_fifo, tx_pending, socket, receiver, sender, completer, server>>
    BY DEF Dma, Handler, DmaReceives, DmaReceivesStamped, DmaTransmits, EthSignals, EthClears,
           queues, tasks
<1>2. Hands' /\ PoolCounts'
    BY <1>1 DEF PoolInv, Hands, PoolCounts, TransmittingCount, HeldCount,
                  InFifo, InHand, Pending
<1>3. /\ \A i \in RxIdx : NextRx(i) \in RxIdx
      /\ \A i \in TxIdx : NextTx(i) \in TxIdx
    BY Sizes DEF NextRx, NextTx, RxIdx, TxIdx
<1>4. rx' \in RxDesc
    <2>1. CASE DmaReceives
        BY <2>1, <1>3 DEF DmaReceives, PoolInv, Types, RxDesc
    <2>2. CASE DmaReceivesStamped
        BY <2>2, <1>3 DEF DmaReceivesStamped, PoolInv, Types, RxDesc
    <2>3. CASE rx' = rx
        BY <2>3 DEF PoolInv, Types
    <2>. QED BY <2>1, <2>2, <2>3 DEF Dma, Handler, DmaTransmits, EthSignals, EthClears
<1>5. tx' \in TxDesc
    <2>1. CASE DmaTransmits
        BY <2>1, <1>3 DEF DmaTransmits, PoolInv, Types, TxDesc
    <2>2. CASE tx' = tx
        BY <2>2 DEF PoolInv, Types
    <2>. QED BY <2>1, <2>2 DEF Dma, Handler, DmaReceives, DmaReceivesStamped, EthSignals, EthClears
<1>6. /\ DMACSR' \subseteq {"RI", "TI"} /\ handling' \in BOOLEAN
      /\ eth_rx_semaphore' \in Nat /\ eth_tx_semaphore' \in Nat
    <2>1. CASE DmaReceives \/ DmaReceivesStamped \/ DmaTransmits
        BY <2>1 DEF PoolInv, Types, DmaReceives, DmaReceivesStamped, DmaTransmits, sems
    <2>2. CASE EthSignals
        BY <2>2 DEF PoolInv, Types, EthSignals
    <2>3. CASE EthClears
        BY <2>3 DEF PoolInv, Types, EthClears, ClearStatus, sems
    <2>. QED BY <2>1, <2>2, <2>3 DEF Dma, Handler
<1>. QED BY <1>1, <1>2, <1>4, <1>5, <1>6 DEF PoolInv, Types

LEMMA RefillType ==
    ASSUME NEW r \in RxDesc, NEW b \in Block
    PROVE  Refill(r, b) \in RxDesc
<1>1. \A i \in RxIdx : NextRx(i) \in RxIdx
    BY Sizes DEF NextRx, RxIdx
<1>2. \A q \in RxDesc : \A c \in Block : init_read_descriptor(q, c) \in RxDesc
    BY <1>1 DEF init_read_descriptor, RxDesc
<1>3. \A q \in RxDesc : q.block[q.current] \in Block
    BY DEF RxDesc
<1>4. PICK next : next = init_read_descriptor(r, b)
    OBVIOUS
<1>5. next \in RxDesc
    BY <1>2, <1>4
<1>6. Refill(r, b) \in {next, init_read_descriptor(next, next.block[next.current])}
    BY <1>4 DEF Refill
<1>. QED BY <1>2, <1>3, <1>5, <1>6

\* What a step of the receive task leaves alone, in parts.
LEMMA Numbers ==
    ASSUME PoolInv
    PROVE  /\ pool \in Pool /\ NULL \notin Block
           /\ pool.rx_alloc_cnt \in Nat /\ pool.tx_alloc_cnt \in Nat /\ FreeCount(pool) \in Nat
           /\ pool.rx_alloc_cnt <= RX_PKT_MAX /\ pool.tx_alloc_cnt <= TX_PKT_MAX
           /\ InFifo \in Nat /\ Pending \in Nat /\ InHand \in {0, 1}
           /\ TransmittingCount \in Nat
           /\ \A b : HeldCount(b) \in {0, 1}
<1>1. InFifo \in Nat /\ Pending \in Nat /\ InHand \in {0, 1}
    BY LenProperties DEF PoolInv, Types, InFifo, Pending, InHand
<1>2. TransmittingCount \in Nat
    BY <1>1 DEF TransmittingCount, HeldCount
<1>3. pool.free \in Seq(Block) /\ FreeCount(pool) \in Nat
    BY LenProperties DEF PoolInv, Types, Pool, FreeCount
<1>. QED BY <1>1, <1>2, <1>3, EthernetAssumption, Sizes DEF PoolInv, Types, Pool, HeldCount

\* The counts after a step that changes them by as much as what they count.
LEMMA CountsChanged ==
    ASSUME PoolInv, pool' \in Pool, TransmittingCount' \in Nat,
           TransmittingCount' - TransmittingCount <= pool'.tx_alloc_cnt - pool.tx_alloc_cnt,
           HeldCount(receiver'.frame) - HeldCount(receiver.frame)
                <= pool'.rx_alloc_cnt - pool.rx_alloc_cnt,
           pool'.dry \/ /\ ~pool.dry
                        /\ FreeCount(pool') + pool'.rx_alloc_cnt + pool'.tx_alloc_cnt
                            = FreeCount(pool) + pool.rx_alloc_cnt + pool.tx_alloc_cnt
    PROVE  PoolCounts'
<1>1. /\ TransmittingCount <= pool.tx_alloc_cnt
      /\ RX_DSC_CNT + HeldCount(receiver.frame) <= pool.rx_alloc_cnt
      /\ ~pool.dry =>
            FreeCount(pool) + pool.rx_alloc_cnt + pool.tx_alloc_cnt = PKT_BUFFER_CNT
    BY DEF PoolInv, PoolCounts
<1>2. pool'.rx_alloc_cnt \in Nat /\ pool'.tx_alloc_cnt \in Nat
    BY Sizes DEF Pool
<1>3. /\ HeldCount(receiver.frame) \in Nat /\ HeldCount(receiver'.frame) \in Nat
      /\ TransmittingCount \in Nat
      /\ pool.rx_alloc_cnt \in Nat /\ pool.tx_alloc_cnt \in Nat
    BY Numbers
<1>4. TransmittingCount' <= pool'.tx_alloc_cnt
    BY <1>1, <1>2, <1>3
<1>5. RX_DSC_CNT + HeldCount(receiver'.frame) <= pool'.rx_alloc_cnt
    BY <1>1, <1>2, <1>3, Sizes
<1>6. ~pool'.dry =>
            FreeCount(pool') + pool'.rx_alloc_cnt + pool'.tx_alloc_cnt = PKT_BUFFER_CNT
    BY <1>1
<1>7. /\ HeldCount(receiver.frame)' = HeldCount(receiver'.frame)
      /\ PKT_BUFFER_CNT' = PKT_BUFFER_CNT
      /\ FreeCount(pool)' = FreeCount(pool')
    BY DEF HeldCount, PKT_BUFFER_CNT, FreeCount
<1>. QED BY <1>4, <1>5, <1>6, <1>7 DEF PoolCounts

\* A step that only moves a task, holding what it held.
LEMMA CountsSame ==
    ASSUME PoolCounts, pool' = pool, TransmittingCount' = TransmittingCount,
           receiver'.frame = receiver.frame
    PROVE  PoolCounts'
BY DEF PoolCounts, HeldCount, PKT_BUFFER_CNT, FreeCount

\* What is out after a step, in parts.
LEMMA TransmittingParts ==
    ASSUME PoolInv, Types'
    PROVE  /\ TransmittingCount = HeldCount(receiver.reply) + HeldCount(server.reply)
                + InFifo + InHand + Pending + HeldCount(completer.pkt)
           /\ TransmittingCount' = HeldCount(receiver'.reply) + HeldCount(server'.reply)
                + InFifo' + InHand' + Pending' + HeldCount(completer'.pkt)
           /\ InFifo' \in Nat /\ Pending' \in Nat /\ InHand' \in {0, 1}
           /\ TransmittingCount' \in Nat
<1>1. InFifo' \in Nat /\ Pending' \in Nat /\ InHand' \in {0, 1}
    BY LenProperties DEF Types, InFifo, Pending, InHand
<1>2. TransmittingCount' = HeldCount(receiver'.reply) + HeldCount(server'.reply)
                + InFifo' + InHand' + Pending' + HeldCount(completer'.pkt)
    BY DEF TransmittingCount, HeldCount
<1>3. /\ HeldCount(receiver'.reply) \in Nat /\ HeldCount(server'.reply) \in Nat
      /\ HeldCount(completer'.pkt) \in Nat
    BY DEF HeldCount
<1>4. \A a, b, c, d, e, f \in Nat : a + b + c + d + e + f \in Nat
    OBVIOUS
<1>5. TransmittingCount' \in Nat
    BY <1>1, <1>2, <1>3, <1>4
<1>. QED BY <1>1, <1>2, <1>5 DEF TransmittingCount

\* The steps of the receive task that leave the pool alone.
LEMMA ReceiverMovesKeepPool ==
    ASSUME PoolInv, ReceiveWait \/ Ignore \/ Datagram \/ Deliver
    PROVE  PoolInv'
<1>. Types /\ Hands /\ PoolCounts
    BY DEF PoolInv
<1>1. /\ receiver' \in ReceiverRec /\ receiver'.reply = receiver.reply
      /\ receiver'.frame = receiver.frame
      /\ receiver.pc \in {"wait", "process", "deliver"}
      /\ receiver'.pc \in {"receive", "deliver", "free"}
      /\ receiver.pc = "wait" <=> receiver'.pc = "receive"
    BY DEF ReceiveWait, Ignore, Datagram, Deliver, Types, ReceiverRec
<1>2. UNCHANGED <<pool, hw, eth_tx_semaphore, tx_fifo, tx_pending, sender, completer, server>>
    BY DEF ReceiveWait, Ignore, Datagram, Deliver, queues, sems
<1>3. eth_rx_semaphore' \in Nat /\ socket' \in 0 .. SOCKET_SIZE
    BY Sizes DEF ReceiveWait, Ignore, Datagram, Deliver, queues, sems, Types
<1>4. Types'
    BY <1>1, <1>2, <1>3 DEF Types, hw
<1>5. Hands'
    BY <1>1, <1>2 DEF Hands
<1>6. TransmittingCount' = TransmittingCount
    BY <1>1, <1>2 DEF TransmittingCount, HeldCount, InFifo, InHand, Pending
<1>7. PoolCounts'
    BY <1>1, <1>2, <1>6, CountsSame
<1>. QED BY <1>4, <1>5, <1>7 DEF PoolInv

LEMMA EchoKeepsPool ==
    ASSUME PoolInv, ~pool.dry, Echo
    PROVE  PoolInv'
<1>. Types /\ Hands /\ PoolCounts
    BY DEF PoolInv
<1>1. PICK a : a = pkt_alloc_tx(pool)
    OBVIOUS
<1>2. /\ a.pool \in Pool /\ a.block \in Block \cup {NULL}
      /\ a.pool.rx_alloc_cnt = pool.rx_alloc_cnt
      /\ a.block = NULL /\ ~a.pool.dry => a.pool = pool
      /\ a.pool.dry => a.block = NULL
      /\ a.block # NULL => /\ a.pool.tx_alloc_cnt = pool.tx_alloc_cnt + 1
                           /\ FreeCount(a.pool) = FreeCount(pool) - 1
      /\ a.pool.tx_alloc_cnt >= pool.tx_alloc_cnt
    BY <1>1, Numbers, AllocTx
<1>3. /\ receiver.pc = "process" /\ pool' = a.pool
      /\ UNCHANGED <<hw, sems, queues, sender, completer, server>>
    BY <1>1 DEF Echo
<1>4. /\ receiver' \in ReceiverRec /\ receiver'.reply = a.block
      /\ receiver'.frame = receiver.frame
      /\ receiver'.pc = (IF a.block = NULL THEN "free" ELSE "send")
    BY <1>1, <1>2 DEF Echo, Types, ReceiverRec
<1>5. Types'
    BY <1>2, <1>3, <1>4 DEF Types, hw, sems, queues
<1>6. Hands'
    BY <1>3, <1>4 DEF Hands
<1>7. UNCHANGED <<InFifo, InHand, Pending>> /\ UNCHANGED <<server, completer>>
    BY <1>3 DEF InFifo, InHand, Pending, queues
<1>8. TransmittingCount' = TransmittingCount + HeldCount(a.block)
    <2>1. receiver.reply = NULL /\ HeldCount(receiver.reply) = 0
        BY <1>3 DEF Hands, HeldCount
    <2>. QED BY <1>4, <1>5, <1>7, <2>1, Numbers, TransmittingParts DEF TransmittingCount
<1>9. PoolCounts'
    <2>1. TransmittingCount' - TransmittingCount <= pool'.tx_alloc_cnt - pool.tx_alloc_cnt
        <3>1. pool'.tx_alloc_cnt \in Nat /\ pool'.tx_alloc_cnt >= pool.tx_alloc_cnt
            BY <1>2, <1>3 DEF Pool
        <3>. QED BY <1>2, <1>3, <1>8, <3>1, Numbers DEF HeldCount
    <2>2. HeldCount(receiver'.frame) - HeldCount(receiver.frame)
            <= pool'.rx_alloc_cnt - pool.rx_alloc_cnt
        BY <1>2, <1>3, <1>4, Numbers
    <2>3. pool'.dry \/ FreeCount(pool') + pool'.rx_alloc_cnt + pool'.tx_alloc_cnt
                            = FreeCount(pool) + pool.rx_alloc_cnt + pool.tx_alloc_cnt
        BY <1>2, <1>3, Numbers
    <2>. QED BY <1>2, <1>3, <1>5, <2>1, <2>2, <2>3, TransmittingParts, CountsChanged
<1>. QED BY <1>5, <1>6, <1>9 DEF PoolInv

LEMMA EchoSendKeepsPool ==
    ASSUME PoolInv, EchoSend
    PROVE  PoolInv'
<1>. Types /\ Hands /\ PoolCounts
    BY DEF PoolInv
<1>1. /\ receiver.pc = "send" /\ Len(tx_fifo) < TX_PKT_MAX
      /\ tx_fifo' = Append(tx_fifo, receiver.reply)
      /\ UNCHANGED <<pool, hw, sems, tx_pending, socket, sender, completer, server>>
    BY DEF EchoSend, send_frame, TxFifoSize
<1>2. receiver.reply \in Block
    BY <1>1 DEF Types, Hands, ReceiverRec
<1>3. /\ receiver' \in ReceiverRec /\ receiver'.reply = NULL
      /\ receiver'.frame = receiver.frame /\ receiver'.pc = "free"
    BY DEF EchoSend, Types, ReceiverRec
<1>4. /\ tx_fifo' \in Seq(Block) /\ InFifo' = InFifo + 1 /\ Len(tx_fifo') <= TX_PKT_MAX
    BY <1>1, <1>2, AppendProperties, LenProperties, Sizes DEF Types, InFifo
<1>5. Types'
    BY <1>1, <1>3, <1>4 DEF Types, hw, sems
<1>6. Hands'
    BY <1>1, <1>3 DEF Hands
<1>7. UNCHANGED <<InHand, Pending>>
    BY <1>1 DEF InHand, Pending
<1>8. TransmittingCount' = TransmittingCount
    <2>1. HeldCount(receiver.reply) = 1 /\ HeldCount(receiver'.reply) = 0
        BY <1>2, <1>3, Numbers DEF HeldCount
    <2>2. /\ HeldCount(server'.reply) = HeldCount(server.reply)
          /\ HeldCount(completer'.pkt) = HeldCount(completer.pkt)
        BY <1>1
    <2>3. /\ HeldCount(server.reply) \in Nat /\ HeldCount(completer.pkt) \in Nat
          /\ InFifo \in Nat /\ InHand \in Nat /\ Pending \in Nat
        BY Numbers
    <2>4. /\ TransmittingCount' = HeldCount(receiver'.reply) + HeldCount(server'.reply)
                + InFifo' + InHand' + Pending' + HeldCount(completer'.pkt)
      /\ TransmittingCount = HeldCount(receiver.reply) + HeldCount(server.reply)
                + InFifo + InHand + Pending + HeldCount(completer.pkt)
        BY <1>5, TransmittingParts
    <2>. QED BY <1>4, <1>7, <2>1, <2>2, <2>3, <2>4, SMTT(30)
<1>9. PoolCounts'
    BY <1>1, <1>3, <1>8, CountsSame
<1>. QED BY <1>5, <1>6, <1>9 DEF PoolInv

LEMMA FreeFrameKeepsPool ==
    ASSUME PoolInv, ~pool.dry, FreeFrame
    PROVE  PoolInv'
<1>. Types /\ Hands /\ PoolCounts
    BY DEF PoolInv
<1>1. receiver.frame \in Block /\ HeldCount(receiver.frame) = 1
    BY Numbers DEF FreeFrame, Types, Hands, ReceiverRec, HeldCount
<1>2. pool.rx_alloc_cnt > 0
    BY <1>1, Numbers, Sizes DEF PoolCounts
<1>3. PICK q : q = pkt_free_rx(pool, receiver.frame)
    OBVIOUS
<1>4. /\ q \in Pool /\ q.dry = pool.dry /\ FreeCount(q) = FreeCount(pool) + 1
      /\ q.rx_alloc_cnt = pool.rx_alloc_cnt - 1 /\ q.tx_alloc_cnt = pool.tx_alloc_cnt
    BY <1>1, <1>2, <1>3, Numbers, FreeRx
<1>5. pool' = q /\ UNCHANGED <<hw, sems, queues, sender, completer, server>>
    BY <1>3 DEF FreeFrame
<1>6. /\ receiver' \in ReceiverRec /\ receiver'.reply = receiver.reply
      /\ receiver'.frame = NULL /\ receiver'.pc = "wait" /\ receiver.pc = "free"
    BY DEF FreeFrame, Types, ReceiverRec
<1>7. Types'
    BY <1>4, <1>5, <1>6 DEF Types, hw, sems, queues
<1>8. Hands'
    BY <1>5, <1>6 DEF Hands
<1>9. PoolCounts'
    <2>1. TransmittingCount' = TransmittingCount
        BY <1>5, <1>6 DEF TransmittingCount, HeldCount, InFifo, InHand, Pending, queues
    <2>2. HeldCount(receiver'.frame) = 0
        BY <1>6 DEF HeldCount
    <2>3. TransmittingCount' - TransmittingCount <= pool'.tx_alloc_cnt - pool.tx_alloc_cnt
        BY <1>4, <1>5, <2>1, Numbers
    <2>4. HeldCount(receiver'.frame) - HeldCount(receiver.frame)
            <= pool'.rx_alloc_cnt - pool.rx_alloc_cnt
        BY <1>1, <1>4, <1>5, <2>2, Numbers
    <2>5. FreeCount(pool') + pool'.rx_alloc_cnt + pool'.tx_alloc_cnt
            = FreeCount(pool) + pool.rx_alloc_cnt + pool.tx_alloc_cnt
        BY <1>4, <1>5, Numbers
    <2>. QED BY <1>4, <1>5, <1>7, <2>3, <2>4, <2>5, TransmittingParts, CountsChanged
<1>. QED BY <1>7, <1>8, <1>9 DEF PoolInv

LEMMA ReceiveFrameKeepsPool ==
    ASSUME PoolInv, ~pool.dry, ReceiveFrame
    PROVE  PoolInv'
<1>. Types /\ Hands /\ PoolCounts
    BY DEF PoolInv
<1>1. PICK a : a = pkt_alloc_rx(pool)
    OBVIOUS
<1>2. /\ a.pool \in Pool /\ a.block \in Block \cup {NULL}
      /\ a.pool.tx_alloc_cnt = pool.tx_alloc_cnt
      /\ a.block = NULL /\ ~a.pool.dry => a.pool = pool
      /\ a.pool.dry => a.block = NULL
      /\ a.block # NULL => /\ a.pool.rx_alloc_cnt = pool.rx_alloc_cnt + 1
                           /\ FreeCount(a.pool) = FreeCount(pool) - 1
      /\ a.pool.rx_alloc_cnt >= pool.rx_alloc_cnt
    BY <1>1, Numbers, AllocRx
<1> DEFINE frame == IF rx.desc[rx.current] = "own" THEN NULL ELSE rx.block[rx.current]
<1>3. frame \in Block \cup {NULL}
    BY DEF Types, RxDesc
<1>4. /\ receiver.pc = "receive" /\ pool' = a.pool
      /\ IF a.block = NULL THEN UNCHANGED <<rx, receiver>>
         ELSE /\ rx' = Refill(rx, a.block)
              /\ receiver' = [receiver EXCEPT !.frame = frame,
                                 !.pc = IF frame = NULL THEN "wait" ELSE "process"]
      /\ UNCHANGED <<tx, DMACSR, handling, sems, queues, sender, completer, server>>
    BY <1>1 DEF ReceiveFrame
<1>5. rx' \in RxDesc
    BY <1>2, <1>4, RefillType DEF Types
<1>. HIDE DEF frame
<1>6. receiver.frame = NULL /\ receiver.reply = NULL
    BY <1>4 DEF Hands
<1>7. /\ receiver' \in ReceiverRec /\ receiver'.reply = receiver.reply
      /\ receiver'.frame = (IF a.block = NULL THEN NULL ELSE frame)
      /\ receiver'.pc = (IF a.block = NULL THEN "receive"
                         ELSE IF frame = NULL THEN "wait" ELSE "process")
    <2>1. CASE a.block = NULL
        BY <1>4, <1>6, <2>1 DEF Types
    <2>2. CASE a.block # NULL
        BY <1>3, <1>4, <2>2 DEF Types, ReceiverRec
    <2>. QED BY <2>1, <2>2
<1>8. Types'
    BY <1>2, <1>4, <1>5, <1>7 DEF Types, sems, queues
<1>9. Hands'
    BY <1>4, <1>6, <1>7 DEF Hands
<1>10. PoolCounts'
    <2>1. TransmittingCount' = TransmittingCount
        BY <1>4, <1>7 DEF TransmittingCount, HeldCount, InFifo, InHand, Pending, queues
    <2>2. /\ HeldCount(receiver.frame) = 0 /\ HeldCount(receiver'.frame) \in {0, 1}
          /\ a.block = NULL => HeldCount(receiver'.frame) = 0
        BY <1>6, <1>7 DEF HeldCount
    <2>3. TransmittingCount' - TransmittingCount <= pool'.tx_alloc_cnt - pool.tx_alloc_cnt
        BY <1>2, <1>4, <2>1, Numbers
    <2>4. HeldCount(receiver'.frame) - HeldCount(receiver.frame)
            <= pool'.rx_alloc_cnt - pool.rx_alloc_cnt
        <3>1. pool'.rx_alloc_cnt \in Nat
            BY <1>2, <1>4, Sizes DEF Pool
        <3>. QED BY <1>2, <1>4, <2>2, <3>1, Numbers
    <2>5. pool'.dry \/ FreeCount(pool') + pool'.rx_alloc_cnt + pool'.tx_alloc_cnt
            = FreeCount(pool) + pool.rx_alloc_cnt + pool.tx_alloc_cnt
        BY <1>2, <1>4, Numbers
    <2>. QED BY <1>2, <1>4, <1>8, <2>3, <2>4, <2>5, TransmittingParts, CountsChanged
<1>. QED BY <1>8, <1>9, <1>10 DEF PoolInv

LEMMA ReceiverKeepsPool ==
    ASSUME PoolInv, ~pool.dry, Receiver
    PROVE  PoolInv'
BY ReceiverMovesKeepPool, EchoKeepsPool, EchoSendKeepsPool, FreeFrameKeepsPool,
   ReceiveFrameKeepsPool DEF Receiver

LEMMA ServerKeepsPool ==
    ASSUME PoolInv, ~pool.dry, Server
    PROVE  PoolInv'
<1>. Types /\ Hands /\ PoolCounts
    BY DEF PoolInv
<1>1. CASE ServerGet
    <2>1. /\ server' \in ServerRec /\ server'.reply = server.reply
          /\ server.pc = "get" /\ server'.pc = "alloc"
        BY <1>1 DEF ServerGet, Types, ServerRec
    <2>2. /\ UNCHANGED <<pool, hw, sems, tx_fifo, tx_pending, receiver, sender, completer>>
          /\ socket' \in 0 .. SOCKET_SIZE
        BY <1>1, Sizes DEF ServerGet, Types
    <2>3. Types'
        BY <2>1, <2>2 DEF Types, hw, sems
    <2>4. Hands'
        BY <2>1, <2>2 DEF Hands
    <2>5. TransmittingCount' = TransmittingCount
        BY <2>1, <2>2 DEF TransmittingCount, HeldCount, InFifo, InHand, Pending
    <2>6. PoolCounts'
        BY <2>2, <2>5, CountsSame
    <2>. QED BY <2>3, <2>4, <2>6 DEF PoolInv
<1>2. CASE ServerAlloc
    <2>1. PICK a : a = pkt_alloc_tx(pool)
        OBVIOUS
    <2>2. /\ a.pool \in Pool /\ a.block \in Block \cup {NULL}
          /\ a.pool.rx_alloc_cnt = pool.rx_alloc_cnt
          /\ a.block = NULL /\ ~a.pool.dry => a.pool = pool
          /\ a.pool.dry => a.block = NULL
          /\ a.block # NULL => /\ a.pool.tx_alloc_cnt = pool.tx_alloc_cnt + 1
                               /\ FreeCount(a.pool) = FreeCount(pool) - 1
          /\ a.pool.tx_alloc_cnt >= pool.tx_alloc_cnt
        BY <2>1, Numbers, AllocTx
    <2>3. /\ server.pc = "alloc" /\ pool' = a.pool
          /\ UNCHANGED <<hw, sems, queues, receiver, sender, completer>>
        BY <1>2, <2>1 DEF ServerAlloc
    <2>4. /\ server' \in ServerRec /\ server'.reply = a.block
          /\ server'.pc = (IF a.block = NULL THEN "get" ELSE "send")
        BY <1>2, <2>1, <2>2 DEF ServerAlloc, ServerRec
    <2>5. Types'
        BY <2>2, <2>3, <2>4 DEF Types, hw, sems, queues
    <2>6. Hands'
        BY <2>3, <2>4 DEF Hands
    <2>7. UNCHANGED <<InFifo, InHand, Pending>> /\ UNCHANGED <<receiver, completer>>
        BY <2>3 DEF InFifo, InHand, Pending, queues
    <2>8. TransmittingCount' = TransmittingCount + HeldCount(a.block)
        <3>1. server.reply = NULL /\ HeldCount(server.reply) = 0
            BY <2>3 DEF Hands, HeldCount
        <3>. QED BY <2>4, <2>5, <2>7, <3>1, Numbers, TransmittingParts DEF TransmittingCount
    <2>9. TransmittingCount' - TransmittingCount <= pool'.tx_alloc_cnt - pool.tx_alloc_cnt
        <3>1. pool'.tx_alloc_cnt \in Nat /\ pool'.tx_alloc_cnt >= pool.tx_alloc_cnt
            BY <2>2, <2>3 DEF Pool
        <3>. QED BY <2>2, <2>3, <2>8, <3>1, Numbers DEF HeldCount
    <2>10. HeldCount(receiver'.frame) - HeldCount(receiver.frame)
            <= pool'.rx_alloc_cnt - pool.rx_alloc_cnt
        BY <2>2, <2>3, Numbers
    <2>11. pool'.dry \/ FreeCount(pool') + pool'.rx_alloc_cnt + pool'.tx_alloc_cnt
                            = FreeCount(pool) + pool.rx_alloc_cnt + pool.tx_alloc_cnt
        BY <2>2, <2>3, Numbers
    <2>12. PoolCounts'
        BY <2>2, <2>3, <2>5, <2>9, <2>10, <2>11, TransmittingParts, CountsChanged
    <2>. QED BY <2>5, <2>6, <2>12 DEF PoolInv
<1>3. CASE ServerSend
    <2>1. /\ server.pc = "send" /\ Len(tx_fifo) < TX_PKT_MAX
          /\ tx_fifo' = Append(tx_fifo, server.reply)
          /\ UNCHANGED <<pool, hw, sems, tx_pending, socket, receiver, sender, completer>>
        BY <1>3 DEF ServerSend, send_frame, TxFifoSize
    <2>2. server.reply \in Block
        BY <2>1 DEF Types, Hands, ServerRec
    <2>3. server' \in ServerRec /\ server'.reply = NULL /\ server'.pc = "get"
        BY <1>3 DEF ServerSend, ServerRec
    <2>4. /\ tx_fifo' \in Seq(Block) /\ InFifo' = InFifo + 1 /\ Len(tx_fifo') <= TX_PKT_MAX
        BY <2>1, <2>2, AppendProperties, LenProperties, Sizes DEF Types, InFifo
    <2>5. Types'
        BY <2>1, <2>3, <2>4 DEF Types, hw, sems
    <2>6. Hands'
        BY <2>1, <2>3 DEF Hands
    <2>7. TransmittingCount' = TransmittingCount
        <3>1. HeldCount(server.reply) = 1 /\ HeldCount(server'.reply) = 0
            BY <2>2, <2>3, Numbers DEF HeldCount
        <3>2. /\ HeldCount(receiver'.reply) = HeldCount(receiver.reply)
              /\ HeldCount(completer'.pkt) = HeldCount(completer.pkt)
              /\ InHand' = InHand /\ Pending' = Pending
            BY <2>1 DEF InHand, Pending
        <3>3. /\ HeldCount(receiver.reply) \in Nat /\ HeldCount(completer.pkt) \in Nat
              /\ InFifo \in Nat /\ InHand \in Nat /\ Pending \in Nat
            BY Numbers
        <3>4. /\ TransmittingCount' = HeldCount(receiver'.reply) + HeldCount(server'.reply)
                    + InFifo' + InHand' + Pending' + HeldCount(completer'.pkt)
              /\ TransmittingCount = HeldCount(receiver.reply) + HeldCount(server.reply)
                    + InFifo + InHand + Pending + HeldCount(completer.pkt)
            BY <2>5, TransmittingParts
        <3>. QED BY <2>4, <3>1, <3>2, <3>3, <3>4
    <2>8. PoolCounts'
        BY <2>1, <2>7, CountsSame
    <2>. QED BY <2>5, <2>6, <2>8 DEF PoolInv
<1>. QED BY <1>1, <1>2, <1>3 DEF Server

LEMMA SenderKeepsPool ==
    ASSUME PoolInv, Sender
    PROVE  PoolInv'
<1>. Types /\ Hands /\ PoolCounts
    BY DEF PoolInv
<1>1. CASE SendGet
    <2>1. /\ Head(tx_fifo) \in Block /\ tx_fifo' \in Seq(Block) /\ InFifo' = InFifo - 1
          /\ Len(tx_fifo') <= TX_PKT_MAX
        BY <1>1, HeadTailProperties, EmptySeq, LenProperties, Sizes
            DEF SendGet, Types, InFifo
    <2>2. sender' \in SenderRec /\ sender'.pkt = Head(tx_fifo) /\ sender'.pc = "put"
        BY <1>1, <2>1 DEF SendGet, SenderRec
    <2>3. /\ sender.pc = "get"
          /\ UNCHANGED <<pool, hw, sems, tx_pending, socket, receiver, completer, server>>
        BY <1>1 DEF SendGet
    <2>4. Types'
        BY <2>1, <2>2, <2>3 DEF Types, hw, sems
    <2>5. Hands'
        BY <2>1, <2>2, <2>3, EthernetAssumption DEF Hands
    <2>6. TransmittingCount' = TransmittingCount
        <3>1. InHand = 0 /\ InHand' = 1 /\ Pending' = Pending
            BY <2>2, <2>3 DEF InHand, Pending
        <3>2. /\ HeldCount(receiver'.reply) = HeldCount(receiver.reply)
              /\ HeldCount(server'.reply) = HeldCount(server.reply)
              /\ HeldCount(completer'.pkt) = HeldCount(completer.pkt)
            BY <2>3
        <3>3. /\ HeldCount(receiver.reply) \in Nat /\ HeldCount(completer.pkt) \in Nat
              /\ HeldCount(server.reply) \in Nat /\ InFifo \in Nat /\ Pending \in Nat
            BY Numbers
        <3>4. /\ TransmittingCount' = HeldCount(receiver'.reply) + HeldCount(server'.reply)
                    + InFifo' + InHand' + Pending' + HeldCount(completer'.pkt)
              /\ TransmittingCount = HeldCount(receiver.reply) + HeldCount(server.reply)
                    + InFifo + InHand + Pending + HeldCount(completer.pkt)
            BY <2>4, TransmittingParts
        <3>. QED BY <2>1, <3>1, <3>2, <3>3, <3>4, SMTT(30)
    <2>7. PoolCounts'
        BY <2>3, <2>6, CountsSame
    <2>. QED BY <2>4, <2>5, <2>7 DEF PoolInv
<1>2. CASE SendPut
    <2>1. /\ sender.pc = "put" /\ Len(tx_pending) < TX_DSC_CNT
          /\ tx_pending' = Append(tx_pending, sender.pkt)
          /\ UNCHANGED <<pool, hw, sems, tx_fifo, socket, receiver, completer, server>>
        BY <1>2 DEF SendPut, TxPendingSize
    <2>2. sender.pkt \in Block
        BY <2>1 DEF Types, Hands, SenderRec
    <2>3. sender' \in SenderRec /\ sender'.pkt = sender.pkt /\ sender'.pc = "init"
        BY <1>2 DEF SendPut, Types, SenderRec
    <2>4. /\ tx_pending' \in Seq(Block) /\ Pending' = Pending + 1
          /\ Len(tx_pending') <= TX_DSC_CNT
        BY <2>1, <2>2, AppendProperties, LenProperties, Sizes DEF Types, Pending
    <2>5. Types'
        BY <2>1, <2>3, <2>4 DEF Types, hw, sems
    <2>6. Hands'
        BY <2>1, <2>3 DEF Hands
    <2>7. TransmittingCount' = TransmittingCount
        <3>1. InHand = 1 /\ InHand' = 0 /\ InFifo' = InFifo
            BY <2>1, <2>3 DEF InHand, InFifo
        <3>2. /\ HeldCount(receiver'.reply) = HeldCount(receiver.reply)
              /\ HeldCount(server'.reply) = HeldCount(server.reply)
              /\ HeldCount(completer'.pkt) = HeldCount(completer.pkt)
            BY <2>1
        <3>3. /\ HeldCount(receiver.reply) \in Nat /\ HeldCount(completer.pkt) \in Nat
              /\ HeldCount(server.reply) \in Nat /\ InFifo \in Nat /\ Pending \in Nat
            BY Numbers
        <3>4. /\ TransmittingCount' = HeldCount(receiver'.reply) + HeldCount(server'.reply)
                    + InFifo' + InHand' + Pending' + HeldCount(completer'.pkt)
              /\ TransmittingCount = HeldCount(receiver.reply) + HeldCount(server.reply)
                    + InFifo + InHand + Pending + HeldCount(completer.pkt)
            BY <2>5, TransmittingParts
        <3>5. TransmittingCount' = HeldCount(receiver.reply) + HeldCount(server.reply)
                    + InFifo + 0 + (Pending + 1) + HeldCount(completer.pkt)
            BY <2>4, <3>1, <3>2, <3>4
        <3>6. TransmittingCount = HeldCount(receiver.reply) + HeldCount(server.reply)
                    + InFifo + 1 + Pending + HeldCount(completer.pkt)
            BY <3>1, <3>4
        <3>. QED BY ONLY <3>3, <3>5, <3>6
    <2>8. PoolCounts'
        BY <2>1, <2>7, CountsSame
    <2>. QED BY <2>5, <2>6, <2>8 DEF PoolInv
<1>3. CASE SendInit
    <2>1. /\ sender.pc = "init"
          /\ UNCHANGED <<pool, rx, DMACSR, handling, sems, queues, receiver, completer, server>>
        BY <1>3 DEF SendInit
    <2>2. sender' \in SenderRec /\ sender'.pkt = NULL /\ sender'.pc = "get"
        BY <1>3 DEF SendInit, SenderRec
    <2>3. tx' \in TxDesc
        <3>1. \A i \in TxIdx : NextTx(i) \in TxIdx
            BY Sizes DEF NextTx, TxIdx
        <3>2. sender.pkt \in Block
            BY <2>1 DEF Types, Hands, SenderRec
        <3>. QED BY <1>3, <3>1, <3>2 DEF SendInit, init_tx_descriptor, Types, TxDesc
    <2>4. Types'
        BY <2>1, <2>2, <2>3 DEF Types, sems, queues
    <2>5. Hands'
        BY <2>1, <2>2 DEF Hands
    <2>6. TransmittingCount' = TransmittingCount
        BY <2>1, <2>2 DEF TransmittingCount, HeldCount, InFifo, InHand, Pending, queues
    <2>7. PoolCounts'
        BY <2>1, <2>6, CountsSame
    <2>. QED BY <2>4, <2>5, <2>7 DEF PoolInv
<1>. QED BY <1>1, <1>2, <1>3 DEF Sender

LEMMA CompleterKeepsPool ==
    ASSUME PoolInv, ~pool.dry, Completer
    PROVE  PoolInv'
<1>. Types /\ Hands /\ PoolCounts
    BY DEF PoolInv
<1>1. CASE CompleteWait
    <2>1. /\ completer' \in CompleterRec /\ completer'.pkt = completer.pkt
          /\ completer.pc = "wait" /\ completer'.pc = "get"
        BY <1>1 DEF CompleteWait, Types, CompleterRec
    <2>2. /\ UNCHANGED <<pool, hw, eth_rx_semaphore, queues, receiver, sender, server>>
          /\ eth_tx_semaphore' \in Nat
        BY <1>1 DEF CompleteWait, Types
    <2>3. Types'
        BY <2>1, <2>2 DEF Types, hw, queues
    <2>4. Hands'
        BY <2>1, <2>2 DEF Hands
    <2>5. TransmittingCount' = TransmittingCount
        BY <2>1, <2>2 DEF TransmittingCount, HeldCount, InFifo, InHand, Pending, queues
    <2>6. PoolCounts'
        BY <2>2, <2>5, CountsSame
    <2>. QED BY <2>3, <2>4, <2>6 DEF PoolInv
<1>2. CASE CompleteGet
    <2>1. /\ Head(tx_pending) \in Block /\ tx_pending' \in Seq(Block)
          /\ Pending' = Pending - 1 /\ Len(tx_pending') <= TX_DSC_CNT
        BY <1>2, HeadTailProperties, EmptySeq, LenProperties, Sizes
            DEF CompleteGet, Types, Pending
    <2>2. /\ completer' \in CompleterRec /\ completer'.pkt = Head(tx_pending)
          /\ completer'.pc = "free"
        BY <1>2, <2>1 DEF CompleteGet, CompleterRec
    <2>3. /\ completer.pc = "get"
          /\ UNCHANGED <<pool, hw, sems, tx_fifo, socket, receiver, sender, server>>
        BY <1>2 DEF CompleteGet
    <2>4. Types'
        BY <2>1, <2>2, <2>3 DEF Types, hw, sems
    <2>5. Hands'
        BY <2>1, <2>2, <2>3, EthernetAssumption DEF Hands
    <2>6. TransmittingCount' = TransmittingCount
        <3>1. /\ HeldCount(completer.pkt) = 0 /\ HeldCount(completer'.pkt) = 1
              /\ InFifo' = InFifo /\ InHand' = InHand
            BY <2>1, <2>2, <2>3, Numbers DEF Hands, HeldCount, InFifo, InHand
        <3>2. /\ HeldCount(receiver'.reply) = HeldCount(receiver.reply)
              /\ HeldCount(server'.reply) = HeldCount(server.reply)
            BY <2>3
        <3>3. /\ HeldCount(receiver.reply) \in Nat /\ HeldCount(server.reply) \in Nat
              /\ InFifo \in Nat /\ InHand \in Nat /\ Pending \in Nat
            BY Numbers
        <3>4. /\ TransmittingCount' = HeldCount(receiver'.reply) + HeldCount(server'.reply)
                    + InFifo' + InHand' + Pending' + HeldCount(completer'.pkt)
              /\ TransmittingCount = HeldCount(receiver.reply) + HeldCount(server.reply)
                    + InFifo + InHand + Pending + HeldCount(completer.pkt)
            BY <2>4, TransmittingParts
        <3>5. \A a, b, c, d, e \in Nat : a + b + c + d + (e - 1) + 1 = a + b + c + d + e + 0
            OBVIOUS
        <3>6. TransmittingCount' = HeldCount(receiver.reply) + HeldCount(server.reply)
                    + InFifo + InHand + (Pending - 1) + 1
            BY <2>1, <3>1, <3>2, <3>4
        <3>. QED BY <3>1, <3>3, <3>4, <3>5, <3>6
    <2>7. PoolCounts'
        BY <2>3, <2>6, CountsSame
    <2>. QED BY <2>4, <2>5, <2>7 DEF PoolInv
<1>3. CASE CompleteFree
    <2>1. completer.pc = "free" /\ completer.pkt \in Block /\ HeldCount(completer.pkt) = 1
        BY <1>3, Numbers DEF CompleteFree, Types, Hands, CompleterRec, HeldCount
    <2>2. pool.tx_alloc_cnt > 0
        <3>1. TransmittingCount <= pool.tx_alloc_cnt
            BY DEF PoolCounts
        <3>2. /\ HeldCount(receiver.reply) \in Nat /\ HeldCount(server.reply) \in Nat
              /\ InFifo \in Nat /\ InHand \in Nat /\ Pending \in Nat
            BY Numbers
        <3>3. TransmittingCount > 0
            BY <2>1, <3>2 DEF TransmittingCount
        <3>. QED BY <3>1, <3>3, Numbers
    <2>3. PICK q : q = pkt_free_tx(pool, completer.pkt)
        OBVIOUS
    <2>4. /\ q \in Pool /\ q.dry = pool.dry /\ FreeCount(q) = FreeCount(pool) + 1
          /\ q.tx_alloc_cnt = pool.tx_alloc_cnt - 1 /\ q.rx_alloc_cnt = pool.rx_alloc_cnt
        BY <2>1, <2>2, <2>3, Numbers, FreeTx
    <2>5. pool' = q /\ UNCHANGED <<hw, sems, queues, receiver, sender, server>>
        BY <1>3, <2>3 DEF CompleteFree
    <2>6. completer' \in CompleterRec /\ completer'.pkt = NULL /\ completer'.pc = "wait"
        BY <1>3 DEF CompleteFree, CompleterRec
    <2>7. Types'
        BY <2>4, <2>5, <2>6 DEF Types, hw, sems, queues
    <2>8. Hands'
        BY <2>5, <2>6 DEF Hands
    <2>9. TransmittingCount' = TransmittingCount - 1
        <3>1. /\ HeldCount(completer'.pkt) = 0
              /\ InFifo' = InFifo /\ InHand' = InHand /\ Pending' = Pending
            BY <2>5, <2>6 DEF HeldCount, InFifo, InHand, Pending, queues
        <3>2. /\ HeldCount(receiver'.reply) = HeldCount(receiver.reply)
              /\ HeldCount(server'.reply) = HeldCount(server.reply)
            BY <2>5
        <3>3. /\ HeldCount(receiver.reply) \in Nat /\ HeldCount(server.reply) \in Nat
              /\ InFifo \in Nat /\ InHand \in Nat /\ Pending \in Nat
            BY Numbers
        <3>4. /\ TransmittingCount' = HeldCount(receiver'.reply) + HeldCount(server'.reply)
                    + InFifo' + InHand' + Pending' + HeldCount(completer'.pkt)
              /\ TransmittingCount = HeldCount(receiver.reply) + HeldCount(server.reply)
                    + InFifo + InHand + Pending + HeldCount(completer.pkt)
            BY <2>7, TransmittingParts
        <3>. QED BY <2>1, <3>1, <3>2, <3>3, <3>4
    <2>10. TransmittingCount' - TransmittingCount <= pool'.tx_alloc_cnt - pool.tx_alloc_cnt
        BY <2>4, <2>5, <2>9, Numbers
    <2>11. HeldCount(receiver'.frame) - HeldCount(receiver.frame)
            <= pool'.rx_alloc_cnt - pool.rx_alloc_cnt
        BY <2>4, <2>5, Numbers
    <2>12. FreeCount(pool') + pool'.rx_alloc_cnt + pool'.tx_alloc_cnt
            = FreeCount(pool) + pool.rx_alloc_cnt + pool.tx_alloc_cnt
        BY <2>4, <2>5, Numbers
    <2>13. PoolCounts'
        BY <2>4, <2>5, <2>7, <2>10, <2>11, <2>12, TransmittingParts, CountsChanged
    <2>. QED BY <2>7, <2>8, <2>13 DEF PoolInv
<1>. QED BY <1>1, <1>2, <1>3 DEF Completer

LEMMA PoolInvNext == PoolInv /\ [Next]_vars => PoolInv'
<1>. SUFFICES ASSUME PoolInv, [Next]_vars PROVE PoolInv'
    OBVIOUS
<1>1. CASE Next
    BY <1>1, HardwareKeepsPool, ReceiverKeepsPool, ServerKeepsPool, SenderKeepsPool,
       CompleterKeepsPool DEF Next
<1>2. CASE UNCHANGED vars
    <2>1. Types' /\ Hands'
        BY <1>2 DEF vars, hw, sems, queues, tasks, PoolInv, Types, Hands
    <2>2. TransmittingCount' = TransmittingCount
        BY <1>2 DEF vars, queues, tasks, TransmittingCount, HeldCount, InFifo, InHand, Pending
    <2>3. PoolCounts'
        BY <1>2, <2>2, CountsSame DEF vars, tasks, PoolInv
    <2>. QED BY <2>1, <2>3 DEF PoolInv
<1>. QED BY <1>1, <1>2

-----------------------------------------------------------------------------
(* The theorems.                                                             *)

\* The counts of the packet buffers bound what is out, in every behaviour.
THEOREM PoolInvariant == Spec => []PoolInv
BY PoolInvInit, PoolInvNext, PTL DEF Spec

\* network.c: the cap on blocks for transmission leaves a place in tx_fifo for
\* each of them, so send_frame never blocks the receive task or the time server.
THEOREM SendingNeverBlocks == Spec => []SendNeverBlocks
<1>1. PoolInv => SendNeverBlocks
    <2>. SUFFICES ASSUME PoolInv, receiver.pc = "send" \/ server.pc = "send"
                  PROVE  Len(tx_fifo) < TxFifoSize
        BY DEF SendNeverBlocks
    <2>1. /\ HeldCount(receiver.reply) \in {0, 1} /\ HeldCount(server.reply) \in {0, 1}
          /\ HeldCount(completer.pkt) \in {0, 1}
          /\ InFifo \in Nat /\ InHand \in {0, 1} /\ Pending \in Nat
        BY Numbers
    <2>2. HeldCount(receiver.reply) = 1 \/ HeldCount(server.reply) = 1
        BY Numbers DEF PoolInv, Hands, HeldCount
    <2>3. TransmittingCount >= InFifo + 1
        BY <2>1, <2>2 DEF TransmittingCount
    <2>4. TransmittingCount <= TX_PKT_MAX
        BY Numbers, Sizes DEF PoolInv, PoolCounts
    <2>5. InFifo < TX_PKT_MAX
        BY <2>1, <2>3, <2>4, Numbers, Sizes
    <2>. QED BY <2>5 DEF InFifo, TxFifoSize
<1>. QED BY <1>1, PoolInvariant, PTL

-----------------------------------------------------------------------------
(* The descriptor rings.                                                     *)

\* The index k places after i in a ring of n.
Along(n, i, k) == IF i + k < n THEN i + k ELSE i + k - n

LEMMA Wrap ==
    ASSUME NEW n \in Nat \ {0}, NEW i \in 0 .. 2 * n - 1
    PROVE  i % n = Along(n, i, 0)
BY SMTT(30) DEF Along

LEMMA NextAlong ==
    /\ \A i \in RxIdx : NextRx(i) = Along(RX_DSC_CNT, i, 1)
    /\ \A i \in TxIdx : NextTx(i) = Along(TX_DSC_CNT, i, 1)
<1>1. ASSUME NEW i \in RxIdx PROVE NextRx(i) = Along(RX_DSC_CNT, i, 1)
    <2>1. i + 1 \in 0 .. 2 * RX_DSC_CNT - 1 /\ RX_DSC_CNT \in Nat \ {0}
        BY Sizes DEF RxIdx
    <2>2. (i + 1) % RX_DSC_CNT = Along(RX_DSC_CNT, i + 1, 0)
        BY <2>1, Wrap
    <2>3. Along(RX_DSC_CNT, i + 1, 0) = Along(RX_DSC_CNT, i, 1)
        BY <2>1, Sizes DEF RxIdx, Along
    <2>. QED BY <2>2, <2>3 DEF NextRx
<1>2. ASSUME NEW i \in TxIdx PROVE NextTx(i) = Along(TX_DSC_CNT, i, 1)
    <2>1. i + 1 \in 0 .. 2 * TX_DSC_CNT - 1 /\ TX_DSC_CNT \in Nat \ {0}
        BY Sizes DEF TxIdx
    <2>2. (i + 1) % TX_DSC_CNT = Along(TX_DSC_CNT, i + 1, 0)
        BY <2>1, Wrap
    <2>3. Along(TX_DSC_CNT, i + 1, 0) = Along(TX_DSC_CNT, i, 1)
        BY <2>1, Sizes DEF TxIdx, Along
    <2>. QED BY <2>2, <2>3 DEF NextTx
<1>. QED BY <1>1, <1>2

\* A walk along a ring: each index once, and then the first again.
LEMMA RingWalk ==
    ASSUME NEW n \in Nat \ {0}, NEW i \in 0 .. n - 1
    PROVE  /\ \A k \in 0 .. n : Along(n, i, k) \in 0 .. n - 1
           /\ Along(n, i, 0) = i /\ Along(n, i, n) = i
           /\ \A k \in 0 .. n - 1 : Along(n, Along(n, i, k), 1) = Along(n, i, k + 1)
           /\ \A k \in 0 .. n - 1 : Along(n, Along(n, i, 1), k) = Along(n, i, k + 1)
           /\ \A k, l \in 0 .. n - 1 : Along(n, i, k) = Along(n, i, l) => k = l
<1>1. /\ \A k \in 0 .. n : Along(n, i, k) \in 0 .. n - 1
      /\ Along(n, i, 0) = i /\ Along(n, i, n) = i
    BY DEF Along
<1>2. /\ \A k \in 0 .. n - 1 : Along(n, Along(n, i, k), 1) = Along(n, i, k + 1)
      /\ \A k \in 0 .. n - 1 : Along(n, Along(n, i, 1), k) = Along(n, i, k + 1)
      /\ \A k, l \in 0 .. n - 1 : Along(n, i, k) = Along(n, i, l) => k = l
    BY DEF Along
<1>. QED BY <1>1, <1>2

LEMMA AlongTwice ==
    ASSUME NEW n \in Nat \ {0}, NEW i \in 0 .. n - 1, NEW k \in 0 .. n - 1
    PROVE  /\ Along(n, Along(n, i, k), 1) = Along(n, i, k + 1)
           /\ Along(n, Along(n, i, 1), k) = Along(n, i, k + 1)
BY DEF Along

LEMMA RingReaches ==
    ASSUME NEW n \in Nat \ {0}, NEW i \in 0 .. n - 1, NEW j \in 0 .. n - 1
    PROVE  \E k \in 0 .. n - 1 : j = Along(n, i, k)
<1>1. CASE j >= i
    <2>1. j - i \in 0 .. n - 1 /\ j = Along(n, i, j - i)
        BY <1>1 DEF Along
    <2>. QED BY <2>1
<1>2. CASE j < i
    <2>1. j - i + n \in 0 .. n - 1 /\ j = Along(n, i, j - i + n)
        BY <1>2 DEF Along
    <2>. QED BY <2>1
<1>. QED BY <1>1, <1>2

-----------------------------------------------------------------------------
(* The receive ring.                                                         *)

\* What the descriptor k places after the current one holds.
RxAhead(r, k) == r.desc[Along(RX_DSC_CNT, r.current, k)]

\* The first n descriptors from the current one on are filled, up to where the
\* DMA is; each stamped frame has its time of arrival next to it.
RxFilled(r, n) ==
    /\ r.dma = Along(RX_DSC_CNT, r.current, n)
    /\ \A k \in 0 .. RX_DSC_CNT - 1 : RxAhead(r, k) = "own" <=> k >= n
    /\ \A k \in 0 .. n - 1 :
        RxAhead(r, k) = "stamped" => k + 1 < n /\ RxAhead(r, k + 1) = "context"
    /\ \A k \in 0 .. n - 1 :
        RxAhead(r, k) = "context" => k > 0 /\ RxAhead(r, k - 1) = "stamped"

Frames(r) == {i \in RxIdx : r.desc[i] \in {"frame", "stamped"}}

\* The times the receive task is, or is to be, told of a frame.
RxSignals ==
    eth_rx_semaphore + (IF "RI" \in DMACSR /\ ~handling THEN 1 ELSE 0)
    + (IF receiver.pc = "receive" THEN 1 ELSE 0)

RxInv ==
    /\ \E n \in 0 .. RX_DSC_CNT : RxFilled(rx, n)
    /\ RxSignals <= Cardinality(Frames(rx))

LEMMA RxWalk ==
    ASSUME NEW r \in RxDesc
    PROVE  /\ RX_DSC_CNT \in Nat \ {0} /\ r.current \in 0 .. RX_DSC_CNT - 1
           /\ r.current \in RxIdx /\ r.dma \in RxIdx
           /\ DOMAIN r.desc = RxIdx /\ r.desc \in [RxIdx -> {"own", "frame", "stamped", "context"}]
           /\ \A k \in 0 .. RX_DSC_CNT : Along(RX_DSC_CNT, r.current, k) \in RxIdx
           /\ \A k \in 0 .. RX_DSC_CNT - 1 :
                RxAhead(r, k) \in {"own", "frame", "stamped", "context"}
<1>1. /\ RX_DSC_CNT \in Nat \ {0} /\ r.current \in 0 .. RX_DSC_CNT - 1
      /\ r.current \in RxIdx /\ r.dma \in RxIdx
      /\ r.desc \in [RxIdx -> {"own", "frame", "stamped", "context"}]
    BY Sizes DEF RxDesc, RxIdx
<1>2. \A k \in 0 .. RX_DSC_CNT : Along(RX_DSC_CNT, r.current, k) \in RxIdx
    BY <1>1, RingWalk DEF RxIdx
<1>3. ASSUME NEW k \in 0 .. RX_DSC_CNT - 1
      PROVE  RxAhead(r, k) \in {"own", "frame", "stamped", "context"}
    <2>1. Along(RX_DSC_CNT, r.current, k) \in RxIdx
        BY <1>1, <1>2
    <2>. QED BY <1>1, <2>1 DEF RxAhead
<1>. QED BY <1>1, <1>2, <1>3

LEMMA FramesFinite ==
    \A r : /\ IsFiniteSet(Frames(r)) /\ Cardinality(Frames(r)) \in Nat
           /\ Cardinality(Frames(r)) <= RX_DSC_CNT
<1>1. IsFiniteSet(RxIdx) /\ Cardinality(RxIdx) = RX_DSC_CNT
    BY FS_Interval, Sizes DEF RxIdx
<1>2. \A r : Frames(r) \in SUBSET RxIdx
    BY DEF Frames
<1>. QED BY <1>1, <1>2, FS_Subset, FS_CardinalityType

\* One descriptor more is filled.
LEMMA RxFillsOne ==
    ASSUME NEW r \in RxDesc, NEW n \in 0 .. RX_DSC_CNT, RxFilled(r, n),
           r.desc[r.dma] = "own",
           NEW q, q = [r EXCEPT !.desc[r.dma] = "frame", !.dma = NextRx(@)]
    PROVE  /\ n + 1 \in 0 .. RX_DSC_CNT /\ RxFilled(q, n + 1)
           /\ Frames(q) = Frames(r) \cup {r.dma} /\ r.dma \notin Frames(r)
<1>0. /\ RX_DSC_CNT \in Nat \ {0} /\ r.current \in 0 .. RX_DSC_CNT - 1 /\ r.dma \in RxIdx
      /\ r.desc \in [RxIdx -> {"own", "frame", "stamped", "context"}] /\ n \in Nat
    BY RxWalk
<1>1. n < RX_DSC_CNT
    <2>1. ASSUME n = RX_DSC_CNT PROVE FALSE
        <3>1. r.dma = r.current /\ Along(RX_DSC_CNT, r.current, 0) = r.current
            BY <1>0, <2>1, RingWalk DEF RxFilled
        <3>2. RxAhead(r, 0) = "own"
            BY <3>1 DEF RxAhead
        <3>3. 0 \in 0 .. RX_DSC_CNT - 1
            BY <1>0
        <3>. QED BY <1>0, <2>1, <3>2, <3>3 DEF RxFilled
    <2>. QED BY <1>0, <2>1
<1>2. /\ q.current = r.current /\ q.dma = NextRx(r.dma)
      /\ q.desc = [r.desc EXCEPT ![r.dma] = "frame"]
    BY DEF RxDesc
<1>3. q.dma = Along(RX_DSC_CNT, q.current, n + 1)
    <2>1. n \in 0 .. RX_DSC_CNT - 1
        BY <1>0, <1>1
    <2>2. Along(RX_DSC_CNT, Along(RX_DSC_CNT, r.current, n), 1)
            = Along(RX_DSC_CNT, r.current, n + 1)
        BY <1>0, <2>1 DEF Along
    <2>. QED BY <1>0, <1>2, <2>2, NextAlong DEF RxFilled
<1>4. ASSUME NEW k \in 0 .. RX_DSC_CNT - 1
      PROVE  RxAhead(q, k) = IF k = n THEN "frame" ELSE RxAhead(r, k)
    <2>1. n \in 0 .. RX_DSC_CNT - 1 /\ r.dma = Along(RX_DSC_CNT, r.current, n)
        BY <1>0, <1>1 DEF RxFilled
    <2>2. Along(RX_DSC_CNT, r.current, k) = r.dma <=> k = n
        BY <1>0, <2>1 DEF Along
    <2>3. Along(RX_DSC_CNT, r.current, k) \in RxIdx
        BY <1>0, RxWalk
    <2>. QED BY <1>0, <1>2, <2>2, <2>3 DEF RxAhead
<1>5. RxFilled(q, n + 1)
    <2>1. \A k \in 0 .. RX_DSC_CNT - 1 : RxAhead(q, k) = "own" <=> k >= n + 1
        BY <1>0, <1>1, <1>4 DEF RxFilled
    <2>2. ASSUME NEW k \in 0 .. (n + 1) - 1, RxAhead(q, k) = "stamped"
          PROVE  k + 1 < n + 1 /\ RxAhead(q, k + 1) = "context"
        <3>1. k \in 0 .. n - 1 /\ k \in 0 .. RX_DSC_CNT - 1 /\ RxAhead(r, k) = "stamped"
            BY <1>0, <1>1, <1>4, <2>2
        <3>2. k + 1 < n /\ RxAhead(r, k + 1) = "context"
            BY <3>1 DEF RxFilled
        <3>3. k + 1 \in 0 .. RX_DSC_CNT - 1 /\ k + 1 # n
            BY <1>0, <1>1, <3>2
        <3>. QED BY <1>0, <1>4, <3>2, <3>3
    <2>3. ASSUME NEW k \in 0 .. (n + 1) - 1, RxAhead(q, k) = "context"
          PROVE  k > 0 /\ RxAhead(q, k - 1) = "stamped"
        <3>1. k \in 0 .. n - 1 /\ k \in 0 .. RX_DSC_CNT - 1 /\ RxAhead(r, k) = "context"
            BY <1>0, <1>1, <1>4, <2>3
        <3>2. k > 0 /\ RxAhead(r, k - 1) = "stamped"
            BY <3>1 DEF RxFilled
        <3>3. k - 1 \in 0 .. RX_DSC_CNT - 1 /\ k - 1 # n
            BY <1>0, <1>1, <3>1, <3>2
        <3>. QED BY <1>4, <3>2, <3>3
    <2>. QED BY <1>3, <2>1, <2>2, <2>3 DEF RxFilled
<1>6. Frames(q) = Frames(r) \cup {r.dma} /\ r.dma \notin Frames(r)
    BY <1>0, <1>2 DEF Frames
<1>. QED BY <1>0, <1>1, <1>5, <1>6

\* Two more are filled, a frame and its time of arrival.
StampedAt(r, i, j) ==
    [r EXCEPT !.desc = [@ EXCEPT ![i] = "stamped", ![j] = "context"], !.dma = NextRx(j)]

LEMMA RxFillsTwo ==
    ASSUME NEW r \in RxDesc, NEW n \in 0 .. RX_DSC_CNT, RxFilled(r, n),
           NEW i, NEW j, i = r.dma, j = NextRx(i), i # j,
           r.desc[i] = "own", r.desc[j] = "own",
           NEW q, q = StampedAt(r, i, j)
    PROVE  /\ n + 2 \in 0 .. RX_DSC_CNT /\ RxFilled(q, n + 2)
           /\ Frames(q) = Frames(r) \cup {i} /\ i \notin Frames(r)
<1>0. /\ RX_DSC_CNT \in Nat \ {0} /\ r.current \in 0 .. RX_DSC_CNT - 1 /\ r.dma \in RxIdx
      /\ r.desc \in [RxIdx -> {"own", "frame", "stamped", "context"}] /\ n \in Nat
    BY RxWalk
<1>1. i = Along(RX_DSC_CNT, r.current, n) /\ i \in 0 .. RX_DSC_CNT - 1
    BY <1>0 DEF RxFilled, RxIdx
<1>2. j = Along(RX_DSC_CNT, i, 1) /\ j \in RxIdx
    <2>1. j = Along(RX_DSC_CNT, i, 1)
        BY <1>0, NextAlong
    <2>. QED BY <1>0, <1>1, <2>1 DEF Along, RxIdx
<1>3. n < RX_DSC_CNT
    <2>1. ASSUME n = RX_DSC_CNT PROVE FALSE
        <3>1. i = r.current /\ Along(RX_DSC_CNT, r.current, 0) = r.current
            BY <1>0, <1>1, <2>1, RingWalk
        <3>2. RxAhead(r, 0) = "own"
            BY <3>1 DEF RxAhead
        <3>3. 0 \in 0 .. RX_DSC_CNT - 1
            BY <1>0
        <3>. QED BY <1>0, <2>1, <3>2, <3>3 DEF RxFilled
    <2>. QED BY <1>0, <2>1
<1>4. j = Along(RX_DSC_CNT, r.current, n + 1)
    BY <1>0, <1>1, <1>2, <1>3 DEF Along
<1>5. n + 1 < RX_DSC_CNT
    <2>1. ASSUME n + 1 = RX_DSC_CNT PROVE FALSE
        <3>1. j = r.current /\ Along(RX_DSC_CNT, r.current, 0) = r.current
            BY <1>0, <1>4, <2>1, RingWalk
        <3>2. RxAhead(r, 0) = "own"
            BY <3>1 DEF RxAhead
        <3>3. 0 \in 0 .. RX_DSC_CNT - 1
            BY <1>0
        <3>4. n = 0
            BY <1>0, <3>2, <3>3 DEF RxFilled
        <3>. QED BY <1>0, <1>1, <3>1, <3>4, RingWalk
    <2>. QED BY <1>0, <1>3, <2>1
<1>6. /\ q.current = r.current /\ q.dma = NextRx(j)
      /\ q.desc = [r.desc EXCEPT ![i] = "stamped", ![j] = "context"]
    BY DEF RxDesc, StampedAt
<1>7. q.dma = Along(RX_DSC_CNT, q.current, n + 2)
    <2>1. NextRx(j) = Along(RX_DSC_CNT, j, 1)
        BY <1>2, NextAlong
    <2>2. Along(RX_DSC_CNT, j, 1) = Along(RX_DSC_CNT, r.current, n + 2)
        BY <1>0, <1>4, <1>5 DEF Along
    <2>. QED BY <1>6, <2>1, <2>2
<1>8. ASSUME NEW k \in 0 .. RX_DSC_CNT - 1
      PROVE  RxAhead(q, k) = IF k = n THEN "stamped"
                             ELSE IF k = n + 1 THEN "context" ELSE RxAhead(r, k)
    <2>1. /\ Along(RX_DSC_CNT, r.current, k) = i <=> k = n
          /\ Along(RX_DSC_CNT, r.current, k) = j <=> k = n + 1
        BY <1>0, <1>1, <1>3, <1>4, <1>5 DEF Along
    <2>2. Along(RX_DSC_CNT, r.current, k) \in RxIdx
        BY <1>0, RxWalk
    <2>3. \A m \in RxIdx : q.desc[m] = IF m = i THEN "stamped"
                                        ELSE IF m = j THEN "context" ELSE r.desc[m]
        BY <1>0, <1>6
    <2>. QED BY <1>6, <2>1, <2>2, <2>3 DEF RxAhead
<1>9. RxFilled(q, n + 2)
    <2>1. \A k \in 0 .. RX_DSC_CNT - 1 : RxAhead(q, k) = "own" <=> k >= n + 2
        BY <1>0, <1>3, <1>5, <1>8 DEF RxFilled
    <2>2. ASSUME NEW k \in 0 .. (n + 2) - 1, RxAhead(q, k) = "stamped"
          PROVE  k + 1 < n + 2 /\ RxAhead(q, k + 1) = "context"
        <3>0. k \in 0 .. RX_DSC_CNT - 1 /\ k # n + 1 /\ k + 1 \in 0 .. RX_DSC_CNT - 1
            BY <1>0, <1>5, <1>8, <2>2
        <3>1. CASE k = n
            BY <1>0, <1>8, <3>0, <3>1
        <3>2. CASE k # n
            <4>1. k \in 0 .. n - 1 /\ RxAhead(r, k) = "stamped"
                BY <1>0, <1>8, <2>2, <3>0, <3>2
            <4>2. k + 1 < n /\ RxAhead(r, k + 1) = "context"
                BY <4>1 DEF RxFilled
            <4>. QED BY <1>0, <1>8, <3>0, <4>2
        <3>. QED BY <3>1, <3>2
    <2>3. ASSUME NEW k \in 0 .. (n + 2) - 1, RxAhead(q, k) = "context"
          PROVE  k > 0 /\ RxAhead(q, k - 1) = "stamped"
        <3>0. k \in 0 .. RX_DSC_CNT - 1 /\ k # n
            BY <1>0, <1>5, <1>8, <2>3
        <3>1. CASE k = n + 1
            <4>1. k > 0 /\ k - 1 \in 0 .. RX_DSC_CNT - 1 /\ k - 1 = n
                BY <1>0, <1>3, <3>1
            <4>. QED BY <1>8, <4>1
        <3>2. CASE k # n + 1
            <4>1. k \in 0 .. n - 1 /\ RxAhead(r, k) = "context"
                BY <1>0, <1>8, <2>3, <3>0, <3>2
            <4>2. k > 0 /\ RxAhead(r, k - 1) = "stamped"
                BY <4>1 DEF RxFilled
            <4>3. k - 1 \in 0 .. RX_DSC_CNT - 1 /\ k - 1 # n /\ k - 1 # n + 1
                BY <1>0, <4>1, <4>2, <3>0
            <4>. QED BY <1>8, <4>2, <4>3
        <3>. QED BY <3>1, <3>2
    <2>. QED BY <1>7, <2>1, <2>2, <2>3 DEF RxFilled
<1>10. Frames(q) = Frames(r) \cup {i} /\ i \notin Frames(r)
    BY <1>0, <1>2, <1>6 DEF Frames
<1>. QED BY <1>0, <1>5, <1>9, <1>10

\* A descriptor is handed back, and the next one becomes the current one.
LEMMA InitRead ==
    ASSUME NEW r \in RxDesc, NEW b \in Block, NEW n \in 1 .. RX_DSC_CNT,
           r.dma = Along(RX_DSC_CNT, r.current, n),
           NEW q, q = init_read_descriptor(r, b)
    PROVE  /\ q \in RxDesc /\ q.dma = Along(RX_DSC_CNT, q.current, n - 1)
           /\ \A k \in 0 .. RX_DSC_CNT - 1 :
                RxAhead(q, k) = IF k = RX_DSC_CNT - 1 THEN "own" ELSE RxAhead(r, k + 1)
           /\ q.desc = [r.desc EXCEPT ![r.current] = "own"]
           /\ q.block = [r.block EXCEPT ![r.current] = b]
           /\ q.current = Along(RX_DSC_CNT, r.current, 1)
<1>0. /\ RX_DSC_CNT \in Nat \ {0} /\ r.current \in 0 .. RX_DSC_CNT - 1 /\ r.current \in RxIdx
      /\ r.desc \in [RxIdx -> {"own", "frame", "stamped", "context"}]
    BY RxWalk
<1>1. /\ q.current = NextRx(r.current) /\ q.dma = r.dma
      /\ q.desc = [r.desc EXCEPT ![r.current] = "own"]
      /\ q.block = [r.block EXCEPT ![r.current] = b]
    BY DEF init_read_descriptor, RxDesc
<1>2. q.current = Along(RX_DSC_CNT, r.current, 1) /\ q.current \in 0 .. RX_DSC_CNT - 1
    <2>1. q.current = Along(RX_DSC_CNT, r.current, 1)
        BY <1>0, <1>1, NextAlong
    <2>. QED BY <1>0, <2>1 DEF Along
<1>3. q \in RxDesc
    BY <1>0, <1>2 DEF init_read_descriptor, RxDesc, RxIdx
<1>4. q.dma = Along(RX_DSC_CNT, q.current, n - 1)
    BY <1>0, <1>1, <1>2 DEF Along
<1>5. ASSUME NEW k \in 0 .. RX_DSC_CNT - 1
      PROVE  RxAhead(q, k) = IF k = RX_DSC_CNT - 1 THEN "own" ELSE RxAhead(r, k + 1)
    <2>1. Along(RX_DSC_CNT, q.current, k) = Along(RX_DSC_CNT, r.current, k + 1)
        BY <1>0, <1>2 DEF Along
    <2>2. Along(RX_DSC_CNT, r.current, k + 1) = r.current <=> k = RX_DSC_CNT - 1
        <3>1. r.current \in Nat /\ r.current < RX_DSC_CNT /\ k \in Nat /\ k < RX_DSC_CNT
            BY <1>0
        <3>. QED BY <1>0, <3>1 DEF Along
    <2>3. Along(RX_DSC_CNT, r.current, k + 1) \in RxIdx
        BY <1>0 DEF Along, RxIdx
    <2>4. \A m \in RxIdx : q.desc[m] = IF m = r.current THEN "own" ELSE r.desc[m]
        BY <1>0, <1>1
    <2>. QED BY <2>1, <2>2, <2>3, <2>4 DEF RxAhead
<1>. QED BY <1>1, <1>2, <1>3, <1>4, <1>5

\* The first descriptor holds a frame, if any is filled.
LEMMA FirstIsFrame ==
    ASSUME NEW r \in RxDesc, NEW n \in 1 .. RX_DSC_CNT, RxFilled(r, n)
    PROVE  r.desc[r.current] \in {"frame", "stamped"}
<1>0. RX_DSC_CNT \in Nat \ {0} /\ r.current \in 0 .. RX_DSC_CNT - 1 /\ n \in Nat /\ n > 0
    BY RxWalk
<1>1. RxAhead(r, 0) = r.desc[r.current] /\ 0 \in 0 .. RX_DSC_CNT - 1 /\ 0 \in 0 .. n - 1
    BY <1>0 DEF RxAhead, Along
<1>2. RxAhead(r, 0) # "own" /\ RxAhead(r, 0) # "context"
    BY <1>0, <1>1 DEF RxFilled
<1>3. RxAhead(r, 0) \in {"own", "frame", "stamped", "context"}
    BY <1>1, RxWalk
<1>. QED BY <1>1, <1>2, <1>3

\* The frame that is read next leaves the ring, with its time of arrival.
LEMMA RxRefills ==
    ASSUME NEW r \in RxDesc, NEW b \in Block, NEW n \in 1 .. RX_DSC_CNT, RxFilled(r, n),
           NEW q, q = Refill(r, b)
    PROVE  /\ r.desc[r.current] \in {"frame", "stamped"}
           /\ \E m \in 0 .. RX_DSC_CNT : RxFilled(q, m)
           /\ Frames(q) = Frames(r) \ {r.current}
           /\ q.block = [r.block EXCEPT ![r.current] = b]
<1>0. /\ RX_DSC_CNT \in Nat \ {0} /\ r.current \in 0 .. RX_DSC_CNT - 1 /\ r.current \in RxIdx
      /\ r.desc \in [RxIdx -> {"own", "frame", "stamped", "context"}] /\ n \in Nat /\ n > 0
      /\ r.block \in [RxIdx -> Block]
    <2>1. r.block \in [RxIdx -> Block]
        BY DEF RxDesc
    <2>. QED BY <2>1, RxWalk
<1>1. RxAhead(r, 0) = r.desc[r.current] /\ 0 \in 0 .. RX_DSC_CNT - 1 /\ 0 \in 0 .. n - 1
    BY <1>0 DEF RxAhead, Along
<1>2. r.desc[r.current] \in {"frame", "stamped"}
    BY FirstIsFrame
<1>3. PICK next : next = init_read_descriptor(r, b)
    OBVIOUS
<1>4. /\ next \in RxDesc /\ next.dma = Along(RX_DSC_CNT, next.current, n - 1)
      /\ \A k \in 0 .. RX_DSC_CNT - 1 :
            RxAhead(next, k) = IF k = RX_DSC_CNT - 1 THEN "own" ELSE RxAhead(r, k + 1)
      /\ next.desc = [r.desc EXCEPT ![r.current] = "own"]
      /\ next.block = [r.block EXCEPT ![r.current] = b]
      /\ next.current = Along(RX_DSC_CNT, r.current, 1)
    <2>1. r.dma = Along(RX_DSC_CNT, r.current, n)
        BY DEF RxFilled
    <2>. QED BY <1>3, <2>1, InitRead
<1>5. CASE r.desc[r.current] = "frame"
    <2>1. q = next
        BY <1>3, <1>5 DEF Refill
    <2>2. RxFilled(next, n - 1)
        <3>1. \A k \in 0 .. RX_DSC_CNT - 1 : RxAhead(next, k) = "own" <=> k >= n - 1
            BY <1>0, <1>4 DEF RxFilled
        <3>2. ASSUME NEW k \in 0 .. (n - 1) - 1, RxAhead(next, k) = "stamped"
              PROVE  k + 1 < n - 1 /\ RxAhead(next, k + 1) = "context"
            <4>1. /\ k \in 0 .. RX_DSC_CNT - 1 /\ k # RX_DSC_CNT - 1 /\ k + 1 \in 0 .. n - 1
                  /\ RxAhead(r, k + 1) = "stamped"
                BY <1>0, <1>4, <3>2
            <4>2. (k + 1) + 1 < n /\ RxAhead(r, (k + 1) + 1) = "context"
                BY <4>1 DEF RxFilled
            <4>3. k + 1 \in 0 .. RX_DSC_CNT - 1 /\ k + 1 # RX_DSC_CNT - 1 /\ k + 1 < n - 1
                BY <1>0, <4>2
            <4>. QED BY <1>4, <4>2, <4>3
        <3>3. ASSUME NEW k \in 0 .. (n - 1) - 1, RxAhead(next, k) = "context"
              PROVE  k > 0 /\ RxAhead(next, k - 1) = "stamped"
            <4>1. /\ k \in 0 .. RX_DSC_CNT - 1 /\ k # RX_DSC_CNT - 1 /\ k + 1 \in 0 .. n - 1
                  /\ RxAhead(r, k + 1) = "context"
                BY <1>0, <1>4, <3>3
            <4>2. RxAhead(r, (k + 1) - 1) = "stamped" /\ (k + 1) - 1 = k
                BY <4>1 DEF RxFilled
            <4>3. k # 0
                BY <1>1, <1>5, <4>2
            <4>4. k - 1 \in 0 .. RX_DSC_CNT - 1 /\ k - 1 # RX_DSC_CNT - 1 /\ (k - 1) + 1 = k
                BY <1>0, <4>1, <4>3
            <4>. QED BY <1>4, <4>2, <4>3, <4>4
        <3>. QED BY <1>4, <3>1, <3>2, <3>3 DEF RxFilled
    <2>3. n - 1 \in 0 .. RX_DSC_CNT
        BY <1>0
    <2>4. Frames(next) = Frames(r) \ {r.current}
        BY <1>0, <1>4 DEF Frames
    <2>. QED BY <1>2, <1>4, <2>1, <2>2, <2>3, <2>4
<1>6. CASE r.desc[r.current] = "stamped"
    <2>0. 1 < n /\ RxAhead(r, 1) = "context"
        <3>1. 0 + 1 < n /\ RxAhead(r, 0 + 1) = "context"
            BY <1>1, <1>6 DEF RxFilled
        <3>. QED BY <3>1
    <2>1. next.block[next.current] \in Block
        BY <1>4 DEF RxDesc
    <2>2. q = init_read_descriptor(next, next.block[next.current])
        BY <1>3, <1>6 DEF Refill
    <2>3. n - 1 \in 1 .. RX_DSC_CNT /\ (n - 1) - 1 = n - 2
        BY <1>0, <2>0
    <2>4. /\ q.dma = Along(RX_DSC_CNT, q.current, n - 2)
          /\ \A k \in 0 .. RX_DSC_CNT - 1 :
                RxAhead(q, k) = IF k = RX_DSC_CNT - 1 THEN "own" ELSE RxAhead(next, k + 1)
          /\ q.desc = [next.desc EXCEPT ![next.current] = "own"]
          /\ q.block = [next.block EXCEPT ![next.current] = next.block[next.current]]
        <3>. HIDE DEF init_read_descriptor
        <3>1. next.dma = Along(RX_DSC_CNT, next.current, n - 1)
            BY <1>4
        <3>. QED BY <1>4, <2>1, <2>2, <2>3, <3>1, InitRead
    <2>5. \A k \in 0 .. RX_DSC_CNT - 1 :
            RxAhead(q, k) = IF k >= RX_DSC_CNT - 2 THEN "own" ELSE RxAhead(r, k + 2)
        <3>. TAKE k \in 0 .. RX_DSC_CNT - 1
        <3>1. CASE k = RX_DSC_CNT - 1
            BY <1>0, <2>4, <3>1
        <3>2. CASE k < RX_DSC_CNT - 1
            <4>1. k + 1 \in 0 .. RX_DSC_CNT - 1 /\ (k + 1) + 1 = k + 2
                BY <1>0, <3>2
            <4>2. RxAhead(q, k) = RxAhead(next, k + 1)
                BY <1>0, <2>4, <3>2
            <4>3. RxAhead(next, k + 1) = IF k + 1 = RX_DSC_CNT - 1 THEN "own"
                                         ELSE RxAhead(r, k + 2)
                BY <1>4, <4>1
            <4>. QED BY <1>0, <3>2, <4>2, <4>3
        <3>. QED BY <1>0, <3>1, <3>2
    <2>6. RxFilled(q, n - 2)
        <3>1. \A k \in 0 .. RX_DSC_CNT - 1 : RxAhead(q, k) = "own" <=> k >= n - 2
            BY <1>0, <2>0, <2>5 DEF RxFilled
        <3>2. ASSUME NEW k \in 0 .. (n - 2) - 1, RxAhead(q, k) = "stamped"
              PROVE  k + 1 < n - 2 /\ RxAhead(q, k + 1) = "context"
            <4>1. /\ k \in 0 .. RX_DSC_CNT - 1 /\ k < RX_DSC_CNT - 2 /\ k + 2 \in 0 .. n - 1
                  /\ RxAhead(r, k + 2) = "stamped"
                BY <1>0, <2>0, <2>5, <3>2
            <4>2. (k + 2) + 1 < n /\ RxAhead(r, (k + 2) + 1) = "context"
                BY <4>1 DEF RxFilled
            <4>3. /\ k + 1 \in 0 .. RX_DSC_CNT - 1 /\ k + 1 < RX_DSC_CNT - 2 /\ k + 1 < n - 2
                  /\ (k + 1) + 2 = (k + 2) + 1
                BY <1>0, <4>1, <4>2
            <4>. QED BY <1>0, <2>5, <4>2, <4>3
        <3>3. ASSUME NEW k \in 0 .. (n - 2) - 1, RxAhead(q, k) = "context"
              PROVE  k > 0 /\ RxAhead(q, k - 1) = "stamped"
            <4>1. /\ k \in 0 .. RX_DSC_CNT - 1 /\ k < RX_DSC_CNT - 2 /\ k + 2 \in 0 .. n - 1
                  /\ RxAhead(r, k + 2) = "context"
                BY <1>0, <2>0, <2>5, <3>3
            <4>2. RxAhead(r, (k + 2) - 1) = "stamped" /\ (k + 2) - 1 = k + 1
                BY <4>1 DEF RxFilled
            <4>3. k # 0
                BY <2>0, <4>2
            <4>4. /\ k - 1 \in 0 .. RX_DSC_CNT - 1 /\ k - 1 < RX_DSC_CNT - 2
                  /\ (k - 1) + 2 = k + 1
                BY <1>0, <4>1, <4>3
            <4>. QED BY <1>0, <2>5, <4>1, <4>2, <4>3, <4>4
        <3>. QED BY <2>4, <3>1, <3>2, <3>3 DEF RxFilled
    <2>7. n - 2 \in 0 .. RX_DSC_CNT
        BY <1>0, <2>0
    <2>8. Frames(q) = Frames(r) \ {r.current}
        <3>1. next.current \in RxIdx /\ r.desc[next.current] = "context" /\ next.current # r.current
            BY <1>0, <1>4, <1>6, <2>0 DEF RxAhead, RxDesc
        <3>2. \A m \in RxIdx : q.desc[m] = IF m \in {r.current, next.current} THEN "own"
                                            ELSE r.desc[m]
            BY <1>0, <1>4, <2>4, <3>1
        <3>. QED BY <3>1, <3>2 DEF Frames
    <2>9. q.block = next.block
        <3>1. next.block \in [RxIdx -> Block]
            BY <1>4 DEF RxDesc
        <3>. QED BY <2>4, <3>1
    <2>. QED BY <1>2, <1>4, <2>6, <2>7, <2>8, <2>9
<1>. QED BY <1>2, <1>5, <1>6

\* As long as a frame is there, a descriptor is filled.
LEMMA FrameAhead ==
    ASSUME NEW r \in RxDesc, RxFilled(r, 0)
    PROVE  Frames(r) = {}
<1>. SUFFICES ASSUME NEW i \in RxIdx PROVE r.desc[i] = "own"
    BY DEF Frames
<1>0. RX_DSC_CNT \in Nat \ {0} /\ r.current \in 0 .. RX_DSC_CNT - 1
    BY RxWalk
<1>1. PICK k \in 0 .. RX_DSC_CNT - 1 : i = Along(RX_DSC_CNT, r.current, k)
    <2>1. i \in 0 .. RX_DSC_CNT - 1
        BY DEF RxIdx
    <2>. QED BY <1>0, <2>1, RingReaches
<1>2. RxAhead(r, k) = "own"
    BY <1>0 DEF RxFilled
<1>. QED BY <1>1, <1>2 DEF RxAhead

LEMMA RxInvPrimed ==
    RxInv' <=> /\ \E n \in 0 .. RX_DSC_CNT : RxFilled(rx', n)
               /\ eth_rx_semaphore' + (IF "RI" \in DMACSR' /\ ~handling' THEN 1 ELSE 0)
                    + (IF receiver'.pc = "receive" THEN 1 ELSE 0) <= Cardinality(Frames(rx'))
BY DEF RxInv, RxFilled, RxAhead, RxSignals, Frames

\* Told of a frame, the receive task finds one.
LEMMA FrameReady ==
    ASSUME PoolInv, RxInv, receiver.pc = "receive"
    PROVE  \E n \in 1 .. RX_DSC_CNT : RxFilled(rx, n)
<1>1. PICK n \in 0 .. RX_DSC_CNT : RxFilled(rx, n)
    BY DEF RxInv
<1>2. rx \in RxDesc /\ eth_rx_semaphore \in Nat
    BY DEF PoolInv, Types
<1>3. Cardinality(Frames(rx)) > 0
    <2>1. RxSignals \in Nat /\ RxSignals > 0 /\ RxSignals <= Cardinality(Frames(rx))
        BY <1>2 DEF RxInv, RxSignals
    <2>. QED BY <2>1, FramesFinite
<1>4. n # 0
    BY <1>1, <1>2, <1>3, FrameAhead, FS_EmptySet
<1>. QED BY <1>1, <1>4

LEMMA RxInvInit == Init => RxInv
<1>. SUFFICES ASSUME Init PROVE RxInv
    OBVIOUS
<1>0. RX_DSC_CNT \in Nat \ {0}
    BY Sizes
<1>1. rx.current = 0 /\ rx.dma = 0 /\ rx.desc = [i \in RxIdx |-> "own"]
    BY DEF Init
<1>2. RxFilled(rx, 0)
    <2>1. Along(RX_DSC_CNT, 0, 0) = 0
        BY <1>0 DEF Along
    <2>2. ASSUME NEW k \in 0 .. RX_DSC_CNT - 1 PROVE RxAhead(rx, k) = "own"
        <3>1. Along(RX_DSC_CNT, 0, k) \in RxIdx
            BY <1>0 DEF Along, RxIdx
        <3>. QED BY <1>1, <3>1 DEF RxAhead
    <2>. QED BY <1>0, <1>1, <2>1, <2>2 DEF RxFilled
<1>3. RxSignals = 0
    BY DEF Init, RxSignals
<1>. QED BY <1>0, <1>2, <1>3, FramesFinite DEF RxInv

LEMMA RxInvNext ==
    ASSUME PoolInv, RxInv, ~pool.dry, Next
    PROVE  RxInv'
<1>0. /\ rx \in RxDesc /\ eth_rx_semaphore \in Nat /\ DMACSR \subseteq {"RI", "TI"}
      /\ handling \in BOOLEAN /\ receiver \in ReceiverRec /\ pool \in Pool
    BY DEF PoolInv, Types
<1>1. PICK n \in 0 .. RX_DSC_CNT : RxFilled(rx, n)
    BY DEF RxInv
<1>2. /\ RxSignals <= Cardinality(Frames(rx)) /\ RxSignals \in Nat
      /\ RxSignals = eth_rx_semaphore + (IF "RI" \in DMACSR /\ ~handling THEN 1 ELSE 0)
                        + (IF receiver.pc = "receive" THEN 1 ELSE 0)
      /\ IsFiniteSet(Frames(rx)) /\ Cardinality(Frames(rx)) \in Nat
    BY <1>0, FramesFinite DEF RxInv, RxSignals
<1>3. CASE DmaReceives \/ DmaReceivesStamped
    <2>1. /\ \E m \in 0 .. RX_DSC_CNT : RxFilled(rx', m)
          /\ \E i : Frames(rx') = Frames(rx) \cup {i} /\ i \notin Frames(rx)
        <3>1. CASE DmaReceives
            BY <1>0, <1>1, <3>1, RxFillsOne DEF DmaReceives
        <3>2. CASE DmaReceivesStamped
            <4>1. PICK i : i = rx.dma
                OBVIOUS
            <4>2. PICK j : j = NextRx(i)
                OBVIOUS
            <4>3. PICK q : q = StampedAt(rx, i, j)
                OBVIOUS
            <4>4. i # j /\ rx.desc[i] = "own" /\ rx.desc[j] = "own" /\ rx' = q
                BY <3>2, <4>1, <4>2, <4>3 DEF DmaReceivesStamped, StampedAt
            <4>5. /\ n + 2 \in 0 .. RX_DSC_CNT /\ RxFilled(q, n + 2)
                  /\ Frames(q) = Frames(rx) \cup {i} /\ i \notin Frames(rx)
                BY <1>0, <1>1, <4>1, <4>2, <4>3, <4>4, RxFillsTwo
            <4>. QED BY <4>4, <4>5
        <3>. QED BY <1>3, <3>1, <3>2
    <2>2. Cardinality(Frames(rx')) = Cardinality(Frames(rx)) + 1
        BY <1>2, <2>1, FS_AddElement
    <2>3. /\ eth_rx_semaphore' = eth_rx_semaphore /\ handling' = handling
          /\ DMACSR' = DMACSR \cup {"RI"} /\ receiver' = receiver
        BY <1>3 DEF DmaReceives, DmaReceivesStamped, sems, tasks
    <2>. QED BY <1>0, <1>2, <2>1, <2>2, <2>3, RxInvPrimed
<1>4. CASE ReceiveFrame
    <2>1. PICK a : a = pkt_alloc_rx(pool)
        OBVIOUS
    <2>2. /\ receiver.pc = "receive"
          /\ UNCHANGED <<eth_rx_semaphore, DMACSR, handling>>
          /\ a.block = NULL => UNCHANGED <<rx, receiver>>
          /\ a.block # NULL => rx' = Refill(rx, a.block) /\ receiver'.pc # "receive"
        BY <1>0, <1>4, <2>1 DEF ReceiveFrame, sems, ReceiverRec
    <2>3. CASE a.block = NULL
        BY <1>1, <1>2, <2>2, <2>3, RxInvPrimed
    <2>4. CASE a.block # NULL
        <3>1. a.block \in Block
            BY <1>0, <2>1, <2>4, AllocRx
        <3>2. PICK k \in 1 .. RX_DSC_CNT : RxFilled(rx, k)
            BY <2>2, FrameReady
        <3>3. /\ rx.desc[rx.current] \in {"frame", "stamped"}
              /\ \E m \in 0 .. RX_DSC_CNT : RxFilled(rx', m)
              /\ Frames(rx') = Frames(rx) \ {rx.current}
            BY <1>0, <1>1, <2>2, <2>4, <3>1, <3>2, RxRefills
        <3>4. rx.current \in Frames(rx)
            BY <1>0, <3>3 DEF Frames, RxDesc
        <3>5. Cardinality(Frames(rx')) = Cardinality(Frames(rx)) - 1
            BY <1>2, <3>3, <3>4, FS_RemoveElement
        <3>. QED BY <1>0, <1>2, <2>2, <2>4, <3>3, <3>5, RxInvPrimed
    <2>. QED BY <2>3, <2>4
<1>5. ASSUME rx' = rx, RxSignals' <= RxSignals
      PROVE  RxInv'
    <2>1. RxSignals' = eth_rx_semaphore' + (IF "RI" \in DMACSR' /\ ~handling' THEN 1 ELSE 0)
                    + (IF receiver'.pc = "receive" THEN 1 ELSE 0)
        BY DEF RxSignals
    <2>. QED BY <1>1, <1>2, <1>5, <2>1, RxInvPrimed
<1>6. CASE DmaTransmits
    <2>1. /\ UNCHANGED <<rx, eth_rx_semaphore, handling, receiver>>
          /\ "RI" \in DMACSR' <=> "RI" \in DMACSR
        BY <1>6 DEF DmaTransmits, sems, tasks
    <2>. QED BY <1>0, <1>5, <2>1 DEF RxSignals
<1>7. CASE Handler
    <2>1. /\ UNCHANGED <<rx, receiver>>
          /\ \/ /\ ~handling /\ handling'
                /\ eth_rx_semaphore' = eth_rx_semaphore + (IF "RI" \in DMACSR THEN 1 ELSE 0)
             \/ handling /\ DMACSR' = {} /\ eth_rx_semaphore' = eth_rx_semaphore
        BY <1>7 DEF Handler, EthSignals, EthClears, ClearStatus, sems, tasks
    <2>. QED BY <1>0, <1>5, <2>1 DEF RxSignals
<1>8. CASE ReceiveWait
    <2>1. /\ UNCHANGED <<rx, DMACSR, handling>> /\ receiver.pc = "wait"
          /\ eth_rx_semaphore' = eth_rx_semaphore - 1 /\ receiver'.pc = "receive"
        BY <1>0, <1>8 DEF ReceiveWait, hw, ReceiverRec
    <2>. QED BY <1>0, <1>5, <2>1 DEF RxSignals
<1>9. CASE \/ FreeFrame \/ Ignore \/ Echo \/ EchoSend \/ Datagram \/ Deliver
          \/ Server \/ Sender \/ Completer
    <2>1. UNCHANGED <<rx, DMACSR, handling, eth_rx_semaphore>>
        BY <1>9 DEF FreeFrame, Ignore, Echo, EchoSend, Datagram, Deliver, Server, ServerGet,
           ServerAlloc, ServerSend, Sender, SendGet, SendPut, SendInit, Completer, CompleteWait,
           CompleteGet, CompleteFree, hw, sems
    <2>2. receiver'.pc # "receive" \/ receiver' = receiver
        BY <1>0, <1>9 DEF FreeFrame, Ignore, Echo, EchoSend, Datagram, Deliver, Server, ServerGet,
           ServerAlloc, ServerSend, Sender, SendGet, SendPut, SendInit, Completer, CompleteWait,
           CompleteGet, CompleteFree, ReceiverRec
    <2>. QED BY <1>0, <1>5, <2>1, <2>2 DEF RxSignals
<1>. QED BY <1>3, <1>4, <1>6, <1>7, <1>8, <1>9 DEF Next, Dma, Receiver

-----------------------------------------------------------------------------
(* The transmit ring.                                                        *)

\* What the DMA has to send in the descriptor k places after the one it is at.
TxAhead(t, k) == t.desc[Along(TX_DSC_CNT, t.dma, k)]

\* The DMA owns m descriptors, from the one it is at up to the current one. They
\* hold the last m of the first n packets of s.
TxFilled(t, s, n, m) ==
    /\ m <= n /\ n <= Len(s)
    /\ t.current = Along(TX_DSC_CNT, t.dma, m)
    /\ \A k \in 0 .. TX_DSC_CNT - 1 : k >= m => TxAhead(t, k) = NULL
    /\ \A k \in 0 .. m - 1 : TxAhead(t, k) = s[n - m + 1 + k]

\* How many packets of tx_pending the DMA was given.
HandedCount == Len(tx_pending) - (IF sender.pc = "init" THEN 1 ELSE 0)

\* The times the completion task is, or is to be, told of a packet.
TxSignals ==
    eth_tx_semaphore + (IF "TI" \in DMACSR /\ ~handling THEN 1 ELSE 0)
    + (IF completer.pc = "get" THEN 1 ELSE 0)

TxInv ==
    /\ \E m \in 0 .. TX_DSC_CNT :
        TxFilled(tx, tx_pending, HandedCount, m) /\ TxSignals + m <= HandedCount
    /\ sender.pc = "init" => tx_pending # <<>> /\ tx_pending[Len(tx_pending)] = sender.pkt

LEMMA TxWalk ==
    ASSUME NEW t \in TxDesc
    PROVE  /\ TX_DSC_CNT \in Nat \ {0} /\ t.dma \in 0 .. TX_DSC_CNT - 1
           /\ t.current \in TxIdx /\ t.dma \in TxIdx
           /\ t.desc \in [TxIdx -> Block \cup {NULL}]
           /\ \A k \in 0 .. TX_DSC_CNT - 1 : Along(TX_DSC_CNT, t.dma, k) \in TxIdx
<1>1. /\ TX_DSC_CNT \in Nat \ {0} /\ t.dma \in 0 .. TX_DSC_CNT - 1
      /\ t.current \in TxIdx /\ t.dma \in TxIdx /\ t.desc \in [TxIdx -> Block \cup {NULL}]
    BY Sizes DEF TxDesc, TxIdx
<1>2. \A k \in 0 .. TX_DSC_CNT - 1 : Along(TX_DSC_CNT, t.dma, k) \in TxIdx
    BY <1>1 DEF TxIdx, Along
<1>. QED BY <1>1, <1>2

LEMMA HandedIs ==
    ASSUME PoolInv, TxInv
    PROVE  HandedCount \in Nat /\ HandedCount <= Len(tx_pending) /\ Len(tx_pending) \in Nat
<1>1. Len(tx_pending) \in Nat /\ (tx_pending # <<>> => Len(tx_pending) > 0)
    BY EmptySeq, LenProperties DEF PoolInv, Types
<1>. QED BY <1>1 DEF TxInv, HandedCount

\* The DMA sends a packet, the first of those it has.
LEMMA TxSends ==
    ASSUME NEW t \in TxDesc, NEW s \in Seq(Block), NEW n \in Nat, NEW m \in 0 .. TX_DSC_CNT,
           TxFilled(t, s, n, m), t.desc[t.dma] # NULL,
           NEW q, q = [t EXCEPT !.desc[t.dma] = NULL, !.dma = NextTx(@)]
    PROVE  m > 0 /\ m - 1 \in 0 .. TX_DSC_CNT /\ TxFilled(q, s, n, m - 1)
<1>0. /\ TX_DSC_CNT \in Nat \ {0} /\ t.dma \in 0 .. TX_DSC_CNT - 1 /\ t.dma \in TxIdx
      /\ t.desc \in [TxIdx -> Block \cup {NULL}] /\ m \in Nat
    BY TxWalk
<1>1. m > 0
    <2>1. TxAhead(t, 0) = t.desc[t.dma] /\ 0 \in 0 .. TX_DSC_CNT - 1
        BY <1>0 DEF TxAhead, Along
    <2>. QED BY <1>0, <2>1 DEF TxFilled
<1>2. /\ q.current = t.current /\ q.dma = NextTx(t.dma)
      /\ q.desc = [t.desc EXCEPT ![t.dma] = NULL]
    BY DEF TxDesc
<1>3. q.dma = Along(TX_DSC_CNT, t.dma, 1) /\ q.dma \in 0 .. TX_DSC_CNT - 1
    <2>1. q.dma = Along(TX_DSC_CNT, t.dma, 1)
        BY <1>0, <1>2, NextAlong
    <2>. QED BY <1>0, <2>1 DEF Along
<1>4. q.current = Along(TX_DSC_CNT, q.dma, m - 1)
    <2>1. q.current = Along(TX_DSC_CNT, t.dma, m)
        BY <1>2 DEF TxFilled
    <2>2. Along(TX_DSC_CNT, t.dma, m) = Along(TX_DSC_CNT, Along(TX_DSC_CNT, t.dma, 1), m - 1)
        <3>1. m - 1 \in 0 .. TX_DSC_CNT - 1 /\ (m - 1) + 1 = m
            BY <1>0, <1>1
        <3>. QED BY <1>0, <3>1, AlongTwice
    <2>. QED BY <1>3, <2>1, <2>2
<1>5. ASSUME NEW k \in 0 .. TX_DSC_CNT - 1
      PROVE  TxAhead(q, k) = IF k = TX_DSC_CNT - 1 THEN NULL ELSE TxAhead(t, k + 1)
    <2>0. t.dma \in Nat /\ t.dma < TX_DSC_CNT /\ k \in Nat /\ k < TX_DSC_CNT
        BY <1>0
    <2>1. Along(TX_DSC_CNT, Along(TX_DSC_CNT, t.dma, 1), k) = Along(TX_DSC_CNT, t.dma, k + 1)
        BY <1>0, AlongTwice
    <2>2. Along(TX_DSC_CNT, t.dma, k + 1) = t.dma <=> k = TX_DSC_CNT - 1
        BY <1>0, <2>0 DEF Along
    <2>3. Along(TX_DSC_CNT, t.dma, k + 1) \in TxIdx
        BY <1>0, <2>0 DEF Along, TxIdx
    <2>4. \A j \in TxIdx : q.desc[j] = IF j = t.dma THEN NULL ELSE t.desc[j]
        BY <1>0, <1>2
    <2>. QED BY <1>3, <2>1, <2>2, <2>3, <2>4 DEF TxAhead
<1>6. ASSUME NEW k \in 0 .. TX_DSC_CNT - 1, k >= m - 1
      PROVE  TxAhead(q, k) = NULL
    <2>1. CASE k = TX_DSC_CNT - 1
        BY <1>5, <2>1
    <2>2. CASE k # TX_DSC_CNT - 1
        <3>1. k + 1 \in 0 .. TX_DSC_CNT - 1 /\ k + 1 >= m
            BY <1>0, <1>6, <2>2
        <3>. QED BY <1>5, <2>2, <3>1 DEF TxFilled
    <2>. QED BY <2>1, <2>2
<1>7. ASSUME NEW k \in 0 .. (m - 1) - 1
      PROVE  TxAhead(q, k) = s[n - (m - 1) + 1 + k]
    <2>1. /\ k \in 0 .. TX_DSC_CNT - 1 /\ k # TX_DSC_CNT - 1 /\ k + 1 \in 0 .. m - 1
          /\ n - m + 1 + (k + 1) = n - (m - 1) + 1 + k
        <3>1. k \in Nat /\ k < m - 1 /\ m <= TX_DSC_CNT
            BY <1>0, <1>1
        <3>. QED BY <1>0, <3>1
    <2>2. TxAhead(t, k + 1) = s[n - m + 1 + (k + 1)]
        BY <2>1 DEF TxFilled
    <2>. QED BY <1>5, <2>1, <2>2
<1>8. m - 1 <= n /\ n <= Len(s)
    BY <1>0 DEF TxFilled
<1>. QED BY <1>0, <1>1, <1>4, <1>6, <1>7, <1>8 DEF TxFilled

\* The next packet is handed to the DMA.
LEMMA TxFills ==
    ASSUME NEW t \in TxDesc, NEW s \in Seq(Block), NEW n \in Nat, NEW m \in 0 .. TX_DSC_CNT,
           TxFilled(t, s, n, m), m < TX_DSC_CNT, n + 1 <= Len(s),
           NEW q, q = init_tx_descriptor(t, s[n + 1])
    PROVE  /\ t.desc[t.current] = NULL
           /\ m + 1 \in 0 .. TX_DSC_CNT /\ TxFilled(q, s, n + 1, m + 1)
<1>0. /\ TX_DSC_CNT \in Nat \ {0} /\ t.dma \in 0 .. TX_DSC_CNT - 1 /\ t.current \in TxIdx
      /\ t.desc \in [TxIdx -> Block \cup {NULL}] /\ m \in Nat /\ m \in 0 .. TX_DSC_CNT - 1
      /\ t.current = Along(TX_DSC_CNT, t.dma, m)
    BY TxWalk DEF TxFilled
<1>1. t.desc[t.current] = NULL
    BY <1>0 DEF TxFilled, TxAhead
<1>2. /\ q.dma = t.dma /\ q.current = NextTx(t.current)
      /\ q.desc = [t.desc EXCEPT ![t.current] = s[n + 1]]
    BY DEF init_tx_descriptor, TxDesc
<1>3. q.current = Along(TX_DSC_CNT, q.dma, m + 1)
    <2>1. NextTx(t.current) = Along(TX_DSC_CNT, t.current, 1)
        BY <1>0, NextAlong
    <2>2. Along(TX_DSC_CNT, Along(TX_DSC_CNT, t.dma, m), 1) = Along(TX_DSC_CNT, t.dma, m + 1)
        BY <1>0, AlongTwice
    <2>. QED BY <1>0, <1>2, <2>1, <2>2
<1>4. ASSUME NEW k \in 0 .. TX_DSC_CNT - 1
      PROVE  TxAhead(q, k) = IF k = m THEN s[n + 1] ELSE TxAhead(t, k)
    <2>1. Along(TX_DSC_CNT, t.dma, k) = t.current <=> k = m
        BY <1>0 DEF Along
    <2>2. Along(TX_DSC_CNT, t.dma, k) \in TxIdx
        BY <1>0, TxWalk
    <2>. QED BY <1>0, <1>2, <2>1, <2>2 DEF TxAhead
<1>5. \A k \in 0 .. TX_DSC_CNT - 1 : k >= m + 1 => TxAhead(q, k) = NULL
    BY <1>0, <1>4 DEF TxFilled
<1>6. ASSUME NEW k \in 0 .. (m + 1) - 1
      PROVE  TxAhead(q, k) = s[(n + 1) - (m + 1) + 1 + k]
    <2>1. k \in 0 .. TX_DSC_CNT - 1 /\ (n + 1) - (m + 1) + 1 + k = n - m + 1 + k
        BY <1>0
    <2>2. CASE k = m
        <3>1. n - m + 1 + k = n + 1
            BY <1>0, <2>2
        <3>. QED BY <1>4, <2>1, <2>2, <3>1
    <2>3. CASE k # m
        <3>1. k \in 0 .. m - 1
            BY <1>0, <2>3
        <3>2. TxAhead(t, k) = s[n - m + 1 + k]
            BY <3>1 DEF TxFilled
        <3>. QED BY <1>4, <2>1, <2>3, <3>2
    <2>. QED BY <2>2, <2>3
<1>7. m + 1 <= n + 1 /\ m + 1 \in 0 .. TX_DSC_CNT
    BY <1>0 DEF TxFilled
<1>. QED BY <1>1, <1>3, <1>5, <1>6, <1>7 DEF TxFilled

\* The first packet is taken away, once the DMA is done with it; or one more is
\* put at the end.
LEMMA TxTaken ==
    ASSUME NEW t, NEW s \in Seq(Block), NEW n \in Nat, NEW m \in 0 .. TX_DSC_CNT,
           TxFilled(t, s, n, m), m < n
    PROVE  n - 1 \in Nat /\ TxFilled(t, Tail(s), n - 1, m)
<1>0. TX_DSC_CNT \in Nat /\ m \in Nat /\ Len(s) \in Nat /\ n <= Len(s)
    BY Sizes, LenProperties DEF TxFilled
<1>1. s # <<>>
    BY <1>0, EmptySeq
<1>2. /\ Len(Tail(s)) = Len(s) - 1
      /\ \A i \in 1 .. Len(s) - 1 : Tail(s)[i] = s[i + 1]
    BY <1>0, <1>1, HeadTailProperties
<1>3. ASSUME NEW k \in 0 .. m - 1
      PROVE  TxAhead(t, k) = Tail(s)[(n - 1) - m + 1 + k]
    <2>1. TxAhead(t, k) = s[n - m + 1 + k]
        BY DEF TxFilled
    <2>2. /\ (n - 1) - m + 1 + k \in 1 .. Len(s) - 1
          /\ ((n - 1) - m + 1 + k) + 1 = n - m + 1 + k
        BY <1>0
    <2>. QED BY <1>2, <2>1, <2>2
<1>. QED BY <1>0, <1>2, <1>3 DEF TxFilled

LEMMA TxPut ==
    ASSUME NEW t, NEW s \in Seq(Block), NEW n \in Nat, NEW m \in 0 .. TX_DSC_CNT,
           TxFilled(t, s, n, m), NEW b \in Block
    PROVE  TxFilled(t, Append(s, b), n, m)
<1>0. TX_DSC_CNT \in Nat /\ m \in Nat /\ Len(s) \in Nat /\ n <= Len(s) /\ m <= n
    BY Sizes, LenProperties DEF TxFilled
<1>1. /\ Len(Append(s, b)) = Len(s) + 1
      /\ \A i \in 1 .. Len(s) : Append(s, b)[i] = s[i]
    BY <1>0, AppendProperties
<1>2. ASSUME NEW k \in 0 .. m - 1
      PROVE  TxAhead(t, k) = Append(s, b)[n - m + 1 + k]
    <2>1. TxAhead(t, k) = s[n - m + 1 + k]
        BY DEF TxFilled
    <2>2. n - m + 1 + k \in 1 .. Len(s)
        BY <1>0
    <2>. QED BY <1>1, <2>1, <2>2
<1>. QED BY <1>0, <1>1, <1>2 DEF TxFilled

LEMMA TxInvPrimed ==
    TxInv' <=>
    /\ \E m \in 0 .. TX_DSC_CNT :
        /\ TxFilled(tx', tx_pending', HandedCount', m)
        /\ TxSignals' + m <= HandedCount'
    /\ sender'.pc = "init" =>
        tx_pending' # <<>> /\ tx_pending'[Len(tx_pending')] = sender'.pkt
BY DEF TxInv, TxFilled, TxAhead, TxSignals, HandedCount

LEMMA TxInvInit == Init => TxInv
<1>. SUFFICES ASSUME Init PROVE TxInv
    OBVIOUS
<1>0. TX_DSC_CNT \in Nat \ {0}
    BY Sizes
<1>1. tx.current = 0 /\ tx.dma = 0 /\ tx.desc = [i \in TxIdx |-> NULL] /\ tx_pending = <<>>
    BY DEF Init
<1>2. TxFilled(tx, tx_pending, 0, 0)
    <2>1. Along(TX_DSC_CNT, 0, 0) = 0 /\ Len(tx_pending) = 0
        BY <1>0, <1>1, EmptySeq DEF Along
    <2>2. ASSUME NEW k \in 0 .. TX_DSC_CNT - 1 PROVE TxAhead(tx, k) = NULL
        <3>1. Along(TX_DSC_CNT, 0, k) \in TxIdx
            BY <1>0 DEF Along, TxIdx
        <3>. QED BY <1>1, <3>1 DEF TxAhead
    <2>. QED BY <1>0, <1>1, <2>1, <2>2 DEF TxFilled
<1>3. TxSignals = 0 /\ HandedCount = 0 /\ sender.pc = "get"
    BY <1>1, EmptySeq DEF Init, TxSignals, HandedCount
<1>. QED BY <1>0, <1>2, <1>3 DEF TxInv

LEMMA TxInvNext ==
    ASSUME PoolInv, TxInv, Next
    PROVE  TxInv'
<1>0. /\ tx \in TxDesc /\ eth_tx_semaphore \in Nat /\ DMACSR \subseteq {"RI", "TI"}
      /\ handling \in BOOLEAN /\ completer \in CompleterRec /\ sender \in SenderRec
      /\ tx_pending \in Seq(Block) /\ Len(tx_pending) \in Nat /\ Len(tx_pending) <= TX_DSC_CNT
    BY LenProperties DEF PoolInv, Types
<1>1. PICK m \in 0 .. TX_DSC_CNT :
        TxFilled(tx, tx_pending, HandedCount, m) /\ TxSignals + m <= HandedCount
    BY DEF TxInv
<1>2. /\ sender.pc = "init" => tx_pending # <<>> /\ tx_pending[Len(tx_pending)] = sender.pkt
      /\ HandedCount \in Nat /\ HandedCount <= Len(tx_pending) /\ TxSignals \in Nat
      /\ m \in Nat /\ TX_DSC_CNT \in Nat /\ TxSignals + m <= HandedCount
    BY <1>0, <1>1, HandedIs, Sizes DEF TxInv, TxSignals
<1>num. /\ TxSignals \in Nat /\ HandedCount \in Nat /\ m \in Nat
      /\ TxSignals + m <= HandedCount
    BY <1>2
<1>3. ASSUME UNCHANGED <<tx, tx_pending>>, TxSignals' <= TxSignals, TxSignals' \in Nat,
             sender' = sender \/ (sender.pc = "get" /\ sender'.pc = "put")
      PROVE  TxInv'
    <2>1. HandedCount' = HandedCount
        BY <1>3 DEF HandedCount
    <2>2. TxSignals' + m <= HandedCount'
        <3>1. \A a, b, c, d \in Nat : a <= b /\ b + c <= d => a + c <= d
            OBVIOUS
        <3>2. TxSignals' \in Nat /\ TxSignals' <= TxSignals
            BY <1>3
        <3>. QED BY ONLY <1>num, <2>1, <3>1, <3>2
    <2>. QED BY <1>1, <1>2, <1>3, <2>1, <2>2, TxInvPrimed
<1>4. CASE DmaTransmits
    <2>1. /\ UNCHANGED <<tx_pending, sender>> /\ TxSignals' \in Nat
          /\ TxSignals' <= TxSignals + 1
        BY <1>0, <1>4 DEF DmaTransmits, sems, tasks, queues, TxSignals
    <2>2. m > 0 /\ m - 1 \in 0 .. TX_DSC_CNT /\ TxFilled(tx', tx_pending, HandedCount, m - 1)
        BY <1>0, <1>1, <1>2, <1>4, TxSends DEF DmaTransmits
    <2>3. HandedCount' = HandedCount
        BY <2>1 DEF HandedCount
    <2>4. TxSignals' + (m - 1) <= HandedCount'
        <3>1. \A a, b, c, d \in Nat : a <= b + 1 /\ b + c <= d => a + (c - 1) <= d
            OBVIOUS
        <3>2. TxSignals' \in Nat /\ TxSignals' <= TxSignals + 1
            BY <2>1
        <3>. QED BY ONLY <1>num, <2>3, <3>1, <3>2
    <2>. QED BY <1>2, <2>1, <2>2, <2>3, <2>4, TxInvPrimed
<1>5. CASE DmaReceives \/ DmaReceivesStamped
    <2>1. /\ UNCHANGED <<tx, tx_pending, eth_tx_semaphore, handling, completer, sender>>
          /\ "TI" \in DMACSR' <=> "TI" \in DMACSR
        BY <1>5 DEF DmaReceives, DmaReceivesStamped, sems, tasks, queues
    <2>. QED BY <1>0, <1>3, <2>1 DEF TxSignals
<1>6. CASE Handler
    <2>1. /\ UNCHANGED <<tx, tx_pending, completer, sender>>
          /\ \/ /\ ~handling /\ handling'
                /\ eth_tx_semaphore' = eth_tx_semaphore + (IF "TI" \in DMACSR THEN 1 ELSE 0)
             \/ handling /\ DMACSR' = {} /\ eth_tx_semaphore' = eth_tx_semaphore
        BY <1>6 DEF Handler, EthSignals, EthClears, ClearStatus, sems, tasks, queues
    <2>. QED BY <1>0, <1>3, <2>1 DEF TxSignals
<1>7. CASE Receiver \/ Server \/ SendGet
    <2>1. /\ UNCHANGED <<tx, tx_pending, eth_tx_semaphore, DMACSR, handling, completer>>
          /\ sender' = sender \/ (sender.pc = "get" /\ sender'.pc = "put")
        BY <1>7 DEF Receiver, ReceiveWait, ReceiveFrame, FreeFrame, Ignore, Echo, EchoSend,
           Datagram, Deliver, Server, ServerGet, ServerAlloc, ServerSend, SendGet, send_frame,
           hw, sems, queues
    <2>. QED BY <1>0, <1>3, <2>1 DEF TxSignals
<1>8. CASE SendPut
    <2>1. /\ sender.pc = "put" /\ sender'.pc = "init" /\ sender'.pkt = sender.pkt
          /\ tx_pending' = Append(tx_pending, sender.pkt)
          /\ UNCHANGED <<tx, eth_tx_semaphore, DMACSR, handling, completer>>
        BY <1>0, <1>8 DEF SendPut, hw, sems, SenderRec
    <2>2. sender.pkt \in Block
        BY <1>0, <2>1 DEF PoolInv, Hands, SenderRec
    <2>3. /\ Len(tx_pending') = Len(tx_pending) + 1 /\ tx_pending'[Len(tx_pending) + 1] = sender.pkt
          /\ tx_pending' # <<>>
        BY <1>0, <2>1, <2>2, AppendProperties
    <2>4. HandedCount' = HandedCount /\ TxSignals' = TxSignals
        BY <1>0, <2>1, <2>3 DEF HandedCount, TxSignals
    <2>5. TxFilled(tx, tx_pending', HandedCount, m)
        BY <1>0, <1>1, <1>2, <2>1, <2>2, TxPut
    <2>. QED BY <1>1, <2>1, <2>3, <2>4, <2>5, TxInvPrimed
<1>9. CASE SendInit
    <2>1. /\ sender.pc = "init" /\ sender'.pc = "get"
          /\ tx' = init_tx_descriptor(tx, sender.pkt)
          /\ UNCHANGED <<tx_pending, eth_tx_semaphore, DMACSR, handling, completer>>
        BY <1>9 DEF SendInit, sems, queues
    <2>2. HandedCount = Len(tx_pending) - 1 /\ HandedCount' = HandedCount + 1
        BY <1>0, <2>1 DEF HandedCount
    <2>3. HandedCount + 1 = Len(tx_pending) /\ sender.pkt = tx_pending[HandedCount + 1]
        BY <1>0, <1>2, <2>1, <2>2
    <2>4. m < TX_DSC_CNT
        BY <1>0, <1>1, <1>2, <2>2
    <2>5. m + 1 \in 0 .. TX_DSC_CNT /\ TxFilled(tx', tx_pending, HandedCount + 1, m + 1)
        BY <1>0, <1>1, <1>2, <2>1, <2>3, <2>4, TxFills
    <2>6. TxSignals' = TxSignals
        BY <2>1 DEF TxSignals
    <2>7. TxSignals' + (m + 1) <= HandedCount'
        BY <1>1, <1>2, <2>2, <2>6
    <2>. QED BY <2>1, <2>2, <2>5, <2>7, TxInvPrimed
<1>10. CASE CompleteWait \/ CompleteFree
    <2>1. /\ UNCHANGED <<tx, tx_pending, DMACSR, handling, sender>>
          /\ \/ /\ eth_tx_semaphore > 0 /\ eth_tx_semaphore' = eth_tx_semaphore - 1
                /\ completer.pc = "wait" /\ completer'.pc = "get"
             \/ eth_tx_semaphore' = eth_tx_semaphore /\ completer'.pc = "wait"
        BY <1>0, <1>10 DEF CompleteWait, CompleteFree, hw, sems, queues, CompleterRec
    <2>. QED BY <1>0, <1>3, <2>1 DEF TxSignals
<1>11. CASE CompleteGet
    <2>1. /\ completer.pc = "get" /\ completer'.pc = "free"
          /\ tx_pending' = Tail(tx_pending) /\ tx_pending # <<>>
          /\ UNCHANGED <<tx, eth_tx_semaphore, DMACSR, handling, sender>>
        BY <1>11 DEF CompleteGet, hw, sems
    <2>2. TxSignals > 0 /\ TxSignals' = TxSignals - 1
        BY <1>0, <2>1 DEF TxSignals
    <2>3. m < HandedCount
        BY <1>1, <1>2, <2>2
    <2>4. /\ Len(tx_pending') = Len(tx_pending) - 1
          /\ \A i \in 1 .. Len(tx_pending') : tx_pending'[i] = tx_pending[i + 1]
        BY <1>0, <2>1, HeadTailProperties
    <2>5. HandedCount' = HandedCount - 1
        BY <1>0, <2>1, <2>4 DEF HandedCount
    <2>6. TxFilled(tx, tx_pending', HandedCount - 1, m)
        BY <1>0, <1>1, <1>2, <2>1, <2>3, TxTaken
    <2>7. sender'.pc = "init" => tx_pending' # <<>> /\ tx_pending'[Len(tx_pending')] = sender'.pkt
        <3>. SUFFICES ASSUME sender.pc = "init"
                      PROVE  tx_pending' # <<>> /\ tx_pending'[Len(tx_pending')] = sender.pkt
            BY <2>1
        <3>1. Len(tx_pending') > 0 /\ Len(tx_pending') \in 1 .. Len(tx_pending')
            BY <1>0, <1>2, <2>3, <2>4 DEF HandedCount
        <3>2. tx_pending'[Len(tx_pending')] = tx_pending[Len(tx_pending)]
            BY <1>0, <2>4, <3>1
        <3>. QED BY <1>2, <3>1, <3>2, EmptySeq
    <2>8. TxSignals' + m <= HandedCount'
        BY <1>1, <1>2, <2>2, <2>5
    <2>. QED BY <2>1, <2>5, <2>6, <2>7, <2>8, TxInvPrimed
<1>. QED BY <1>4, <1>5, <1>6, <1>7, <1>8, <1>9, <1>10, <1>11
         DEF Next, Dma, Sender, Completer

-----------------------------------------------------------------------------
(* Where the blocks are.                                                     *)

Somewhere(b) ==
    \/ b \in ToSet(pool.free) \/ b \in ToSet(tx_fifo) \/ b \in ToSet(tx_pending)
    \/ \E i \in RxIdx : rx.block[i] = b
    \/ receiver.frame = b \/ receiver.reply = b \/ server.reply = b \/ completer.pkt = b
    \/ sender.pc = "put" /\ sender.pkt = b

NoneLost == ~pool.dry => \A b \in Block : Somewhere(b)

\* What is in a sequence that gets a last or a first element, or loses its first.
LEMMA ToSetIs ==
    ASSUME NEW S, NEW s \in Seq(S)
    PROVE  Len(s) \in Nat /\ ToSet(s) = {s[i] : i \in 1 .. Len(s)}
BY LenProperties DEF ToSet

HoldsAlso(t, s, b) == ToSet(t) = ToSet(s) \cup {b}

LEMMA AppendedSet ==
    ASSUME NEW S, NEW s \in Seq(S), NEW b \in S, NEW t, t = Append(s, b)
    PROVE  HoldsAlso(t, s, b)
<1>1. /\ t \in Seq(S) /\ Len(t) = Len(s) + 1 /\ t[Len(s) + 1] = b
      /\ \A i \in 1 .. Len(s) : t[i] = s[i]
    BY AppendProperties
<1>2. ToSet(t) = {t[i] : i \in 1 .. Len(s) + 1}
    <2>1. ToSet(t) = {t[i] : i \in 1 .. Len(t)}
        BY <1>1, ToSetIs
    <2>. QED BY <1>1, <2>1
<1>3. 1 .. Len(s) + 1 = 1 .. Len(s) \cup {Len(s) + 1}
    BY ToSetIs
<1>4. ToSet(s) = {s[i] : i \in 1 .. Len(s)}
    BY ToSetIs
<1>. QED BY <1>1, <1>2, <1>3, <1>4 DEF HoldsAlso

LEMMA PushedSet ==
    ASSUME NEW S, NEW s \in Seq(S), NEW b \in S, NEW t, t = <<b>> \o s
    PROVE  HoldsAlso(t, s, b)
<1>1. <<b>> \in Seq(S) /\ Len(<<b>>) = 1 /\ <<b>>[1] = b
    OBVIOUS
<1>2. /\ t \in Seq(S) /\ Len(t) = 1 + Len(s)
      /\ \A i \in 1 .. 1 + Len(s) : t[i] = IF i <= 1 THEN <<b>>[i] ELSE s[i - 1]
    BY <1>1, ConcatProperties
<1>3. /\ Len(s) \in Nat /\ ToSet(s) = {s[i] : i \in 1 .. Len(s)}
      /\ ToSet(t) = {t[i] : i \in 1 .. 1 + Len(s)}
    <2>1. t \in Seq(S) /\ Len(t) = 1 + Len(s)
        BY <1>2
    <2>2. DOMAIN t = 1 .. 1 + Len(s)
        BY <2>1, LenProperties
    <2>. QED BY <2>2, ToSetIs DEF ToSet
<1>4. /\ t[1] = b /\ 1 \in 1 .. 1 + Len(s)
      /\ \A i \in 1 .. Len(s) : t[i + 1] = s[i] /\ i + 1 \in 1 .. 1 + Len(s)
    BY <1>1, <1>2, <1>3
<1>5. \A i \in 1 .. 1 + Len(s) : i = 1 \/ (i - 1 \in 1 .. Len(s) /\ t[i] = s[i - 1])
    BY <1>2, <1>3
<1>6. ASSUME NEW x \in ToSet(t) PROVE x \in ToSet(s) \cup {b}
    <2>1. PICK i \in 1 .. 1 + Len(s) : x = t[i]
        BY <1>3
    <2>. QED BY <1>3, <1>4, <1>5, <2>1
<1>7. ASSUME NEW x \in ToSet(s) PROVE x \in ToSet(t)
    <2>1. PICK i \in 1 .. Len(s) : x = s[i]
        BY <1>3
    <2>. QED BY <1>3, <1>4, <2>1
<1>8. b \in ToSet(t)
    BY <1>3, <1>4
<1>. QED BY <1>6, <1>7, <1>8 DEF HoldsAlso

LEMMA HeadTailSet ==
    ASSUME NEW S, NEW s \in Seq(S), s # <<>>
    PROVE  ToSet(s) = ToSet(Tail(s)) \cup {Head(s)}
<1>1. /\ Tail(s) \in Seq(S) /\ Len(Tail(s)) = Len(s) - 1 /\ Head(s) = s[1]
      /\ \A i \in 1 .. Len(Tail(s)) : Tail(s)[i] = s[i + 1]
    BY HeadTailProperties
<1>2. /\ Len(s) \in Nat /\ ToSet(s) = {s[i] : i \in 1 .. Len(s)}
      /\ ToSet(Tail(s)) = {Tail(s)[i] : i \in 1 .. Len(s) - 1}
    BY <1>1, ToSetIs
<1>3. Len(s) > 0
    BY <1>2, EmptySeq
<1>4. /\ \A i \in 1 .. Len(s) : i = 1 \/ (i - 1 \in 1 .. Len(s) - 1 /\ s[i] = Tail(s)[i - 1])
      /\ \A i \in 1 .. Len(s) - 1 : Tail(s)[i] = s[i + 1] /\ i + 1 \in 1 .. Len(s)
      /\ Head(s) = s[1] /\ 1 \in 1 .. Len(s)
    BY <1>1, <1>2, <1>3
<1>5. ASSUME NEW x \in ToSet(s) PROVE x \in ToSet(Tail(s)) \cup {Head(s)}
    <2>1. PICK i \in 1 .. Len(s) : x = s[i]
        BY <1>2
    <2>. QED BY <1>2, <1>4, <2>1
<1>6. ASSUME NEW x \in ToSet(Tail(s)) PROVE x \in ToSet(s)
    <2>1. PICK i \in 1 .. Len(s) - 1 : x = Tail(s)[i]
        BY <1>2
    <2>. QED BY <1>2, <1>4, <2>1
<1>7. Head(s) \in ToSet(s)
    BY <1>2, <1>4
<1>. QED BY <1>5, <1>6, <1>7

\* A block that is allocated comes from the list.
LEMMA Allocated ==
    ASSUME NEW p \in Pool, NEW a, a \in {pkt_alloc_rx(p), pkt_alloc_tx(p)}, a.block # NULL
    PROVE  ToSet(p.free) = ToSet(a.pool.free) \cup {a.block}
<1>1. PICK q \in [free : {p.free}, rx_alloc_cnt : Int, tx_alloc_cnt : Int, dry : BOOLEAN] :
        a = Take(q)
    <2>1. /\ [p EXCEPT !.rx_alloc_cnt = @ + 1] \in
                [free : {p.free}, rx_alloc_cnt : Int, tx_alloc_cnt : Int, dry : BOOLEAN]
          /\ [p EXCEPT !.tx_alloc_cnt = @ + 1] \in
                [free : {p.free}, rx_alloc_cnt : Int, tx_alloc_cnt : Int, dry : BOOLEAN]
        BY Sizes DEF Pool
    <2>2. \/ a = [block |-> NULL, pool |-> p]
          \/ a = Take([p EXCEPT !.rx_alloc_cnt = @ + 1])
          \/ a = Take([p EXCEPT !.tx_alloc_cnt = @ + 1])
        BY DEF pkt_alloc_rx, pkt_alloc_tx
    <2>. QED BY <2>1, <2>2
<1>2. q.free = p.free /\ p.free \in Seq(Block)
    BY DEF Pool
<1>3. q.free # <<>> /\ a.block = Head(q.free) /\ a.pool = [q EXCEPT !.free = Tail(@)]
    BY <1>1 DEF Take
<1>4. a.pool.free = Tail(q.free)
    BY <1>3
<1>5. Head(p.free) \in Block
    BY <1>2, <1>3, HeadTailProperties
<1>6. ToSet(p.free) = ToSet(Tail(p.free)) \cup {Head(p.free)}
    BY <1>2, <1>3, <1>5, HeadTailSet
<1>. QED BY <1>2, <1>3, <1>4, <1>6

LEMMA NoneLostInit == Init => NoneLost
<1>. SUFFICES ASSUME Init, NEW b \in Block PROVE Somewhere(b)
    BY DEF NoneLost
<1>1. PICK blocks \in SetToSeqs(Block) :
        /\ pool = [free |-> SubSeq(blocks, RX_DSC_CNT + 1, PKT_BUFFER_CNT),
                   rx_alloc_cnt |-> RX_DSC_CNT, tx_alloc_cnt |-> 0, dry |-> FALSE]
        /\ rx = [desc |-> [i \in RxIdx |-> "own"], block |-> [i \in RxIdx |-> blocks[i + 1]],
                 current |-> 0, dma |-> 0]
    BY DEF Init
<1>2. /\ blocks \in [1 .. PKT_BUFFER_CNT -> Block]
      /\ \A i, j \in 1 .. PKT_BUFFER_CNT : i # j => blocks[i] # blocks[j]
    BY DEF SetToSeqs, PKT_BUFFER_CNT
<1>3. PICK k \in 1 .. PKT_BUFFER_CNT : blocks[k] = b
    <2>1. /\ IsFiniteSet(Block) /\ Cardinality(Block) = PKT_BUFFER_CNT
          /\ IsFiniteSet(1 .. PKT_BUFFER_CNT)
          /\ Cardinality(1 .. PKT_BUFFER_CNT) = PKT_BUFFER_CNT
        BY EthernetAssumption, Sizes, FS_Interval DEF PKT_BUFFER_CNT
    <2>2. blocks \in Injection(1 .. PKT_BUFFER_CNT, Block)
        BY <1>2 DEF Injection, IsInjective
    <2>3. blocks \in Surjection(1 .. PKT_BUFFER_CNT, Block)
        BY <2>1, <2>2, FS_Injection
    <2>. QED BY <2>3 DEF Surjection
<1>4. CASE k <= RX_DSC_CNT
    <2>1. k - 1 \in RxIdx /\ (k - 1) + 1 = k
        BY <1>4, Sizes DEF RxIdx
    <2>2. rx.block[k - 1] = b
        BY <1>1, <1>3, <2>1
    <2>. QED BY <2>1, <2>2 DEF Somewhere
<1>5. CASE k > RX_DSC_CNT
    <2> DEFINE free == SubSeq(blocks, RX_DSC_CNT + 1, PKT_BUFFER_CNT)
    <2>1. \A i \in RX_DSC_CNT + 1 .. PKT_BUFFER_CNT : blocks[i] \in Block
        BY <1>2, Sizes
    <2>2. /\ free \in Seq(Block)
          /\ Len(free) = IF RX_DSC_CNT + 1 <= PKT_BUFFER_CNT
                         THEN PKT_BUFFER_CNT - (RX_DSC_CNT + 1) + 1 ELSE 0
          /\ \A i \in 1 .. PKT_BUFFER_CNT - (RX_DSC_CNT + 1) + 1 :
                free[i] = blocks[(RX_DSC_CNT + 1) + i - 1]
        BY <2>1, Sizes, SubSeqProperties
    <2>. HIDE DEF free
    <2>3. /\ k - RX_DSC_CNT \in 1 .. PKT_BUFFER_CNT - (RX_DSC_CNT + 1) + 1
          /\ k - RX_DSC_CNT \in 1 .. Len(free)
          /\ (RX_DSC_CNT + 1) + (k - RX_DSC_CNT) - 1 = k
        BY <1>5, <2>2, Sizes
    <2>4. free[k - RX_DSC_CNT] = b
        BY <1>3, <2>2, <2>3
    <2>5. b \in ToSet(free)
        BY <2>2, <2>3, <2>4, LenProperties DEF ToSet
    <2>6. pool.free = free
        BY <1>1 DEF free
    <2>. QED BY <2>5, <2>6 DEF Somewhere
<1>. QED BY <1>3, <1>4, <1>5, Sizes

LEMMA NoneLostNext ==
    ASSUME PoolInv, RxInv, NoneLost, ~pool.dry, Next
    PROVE  NoneLost'
<1>. SUFFICES ASSUME ~pool'.dry, NEW b \in Block PROVE Somewhere(b)'
    BY DEF NoneLost
<1>0. /\ Somewhere(b) /\ b # NULL
      /\ pool \in Pool /\ rx \in RxDesc /\ tx_fifo \in Seq(Block) /\ tx_pending \in Seq(Block)
      /\ receiver \in ReceiverRec /\ sender \in SenderRec /\ server \in ServerRec
      /\ completer \in CompleterRec /\ pool.free \in Seq(Block)
    BY EthernetAssumption DEF NoneLost, PoolInv, Types, Pool
<1>1. CASE Dma \/ Handler \/ SendInit
    <2>1. /\ UNCHANGED <<pool, tx_fifo, tx_pending, receiver, server, completer>>
          /\ rx'.block = rx.block
          /\ sender' = sender \/ sender.pc = "init"
        BY <1>0, <1>1 DEF Dma, DmaReceives, DmaReceivesStamped, DmaTransmits, Handler, EthSignals,
           EthClears, SendInit, queues, tasks, RxDesc
    <2>. QED BY <1>0, <2>1 DEF Somewhere
<1>2. CASE ReceiveWait \/ Ignore \/ Datagram \/ Deliver
    <2>1. /\ UNCHANGED <<pool, rx, tx_fifo, tx_pending, sender, server, completer>>
          /\ receiver'.frame = receiver.frame /\ receiver'.reply = receiver.reply
        BY <1>0, <1>2 DEF ReceiveWait, Ignore, Datagram, Deliver, ReceiverRec, hw, queues
    <2>. QED BY <1>0, <2>1 DEF Somewhere
<1>3. CASE ReceiveFrame
    <2>1. PICK a : a = pkt_alloc_rx(pool)
        OBVIOUS
    <2>2. /\ receiver.pc = "receive" /\ pool' = a.pool
          /\ UNCHANGED <<tx_fifo, tx_pending, sender, server, completer>>
          /\ a.block = NULL => UNCHANGED <<rx, receiver>>
          /\ a.block # NULL =>
                /\ rx' = Refill(rx, a.block)
                /\ receiver'.reply = receiver.reply
                /\ rx.desc[rx.current] # "own" => receiver'.frame = rx.block[rx.current]
        BY <1>0, <1>3, <2>1 DEF ReceiveFrame, queues, ReceiverRec
    <2>3. CASE a.block = NULL
        <3>1. pool' = pool
            BY <1>0, <2>1, <2>2, <2>3, AllocRx
        <3>. QED BY <1>0, <2>2, <2>3, <3>1 DEF Somewhere
    <2>4. CASE a.block # NULL
        <3>1. a.block \in Block
            BY <1>0, <2>1, <2>4, AllocRx
        <3>2. PICK n \in 1 .. RX_DSC_CNT : RxFilled(rx, n)
            BY <2>2, FrameReady
        <3>3. /\ rx.desc[rx.current] # "own"
              /\ rx'.block = [rx.block EXCEPT ![rx.current] = a.block]
            BY <1>0, <2>2, <2>4, <3>1, <3>2, RxRefills
        <3>4. ToSet(pool.free) = ToSet(pool'.free) \cup {a.block}
            BY <1>0, <2>1, <2>2, <2>4, Allocated
        <3>5. receiver.frame = NULL /\ rx.current \in RxIdx /\ DOMAIN rx.block = RxIdx
            BY <1>0, <2>2 DEF PoolInv, Hands, RxDesc
        <3>6. /\ \A i \in RxIdx : i # rx.current => rx'.block[i] = rx.block[i]
              /\ rx'.block[rx.current] = a.block
            BY <3>3, <3>5
        <3>. QED BY <1>0, <2>2, <2>4, <3>3, <3>4, <3>5, <3>6 DEF Somewhere
    <2>. QED BY <2>3, <2>4
<1>4. CASE Echo \/ ServerAlloc
    <2>1. PICK a : a = pkt_alloc_tx(pool)
        OBVIOUS
    <2>2. /\ pool' = a.pool /\ UNCHANGED <<rx, tx_fifo, tx_pending, sender, completer>>
          /\ receiver'.frame = receiver.frame
          /\ \/ receiver.reply = NULL /\ receiver'.reply = a.block /\ server'.reply = server.reply
             \/ server.reply = NULL /\ server'.reply = a.block /\ receiver'.reply = receiver.reply
        <3>1. CASE Echo
            <4>1. receiver.pc = "process" /\ receiver.reply = NULL
                BY <3>1 DEF Echo, PoolInv, Hands
            <4>. QED BY <1>0, <2>1, <3>1, <4>1 DEF Echo, ReceiverRec, hw, queues
        <3>2. CASE ServerAlloc
            <4>1. server.pc = "alloc" /\ server.reply = NULL
                BY <3>2 DEF ServerAlloc, PoolInv, Hands
            <4>. QED BY <2>1, <3>2, <4>1 DEF ServerAlloc, hw, queues
        <3>. QED BY <1>4, <3>1, <3>2
    <2>3. CASE a.block = NULL
        <3>1. pool' = pool
            BY <1>0, <2>1, <2>2, <2>3, AllocTx
        <3>. QED BY <1>0, <2>2, <3>1 DEF Somewhere
    <2>4. CASE a.block # NULL
        <3>1. ToSet(pool.free) = ToSet(pool'.free) \cup {a.block}
            BY <1>0, <2>1, <2>2, <2>4, Allocated
        <3>. QED BY <1>0, <2>2, <3>1 DEF Somewhere
    <2>. QED BY <2>3, <2>4
<1>5. CASE EchoSend \/ ServerSend
    <2>1. PICK c \in Block :
            /\ tx_fifo' = Append(tx_fifo, c)
            /\ UNCHANGED <<pool, rx, tx_pending, sender, completer>>
            /\ receiver'.frame = receiver.frame
            /\ \/ receiver.reply = c /\ server' = server
               \/ server.reply = c /\ receiver' = receiver
        <3>1. CASE EchoSend
            <4>1. receiver.reply \in Block
                BY <1>0, <3>1 DEF EchoSend, PoolInv, Hands, ReceiverRec
            <4>. QED BY <1>0, <3>1, <4>1 DEF EchoSend, send_frame, hw, ReceiverRec
        <3>2. CASE ServerSend
            <4>1. server.reply \in Block
                BY <1>0, <3>2 DEF ServerSend, PoolInv, Hands, ServerRec
            <4>. QED BY <3>2, <4>1 DEF ServerSend, send_frame, hw
        <3>. QED BY <1>5, <3>1, <3>2
    <2>2. HoldsAlso(tx_fifo', tx_fifo, c)
        <3>1. tx_fifo \in Seq(Block) /\ tx_fifo' = Append(tx_fifo, c)
            BY <1>0, <2>1
        <3>. QED BY <3>1, AppendedSet
    <2>. QED BY <1>0, <2>1, <2>2 DEF Somewhere, HoldsAlso
<1>6. CASE FreeFrame \/ CompleteFree
    <2>1. PICK c \in Block :
            /\ pool'.free = <<c>> \o pool.free
            /\ UNCHANGED <<rx, tx_fifo, tx_pending, sender, server>>
            /\ receiver'.reply = receiver.reply
            /\ \/ receiver.frame = c /\ completer' = completer
               \/ completer.pkt = c /\ receiver' = receiver
        <3>1. CASE FreeFrame
            <4>1. receiver.frame \in Block
                BY <1>0, <3>1 DEF FreeFrame, PoolInv, Hands, ReceiverRec
            <4>. QED BY <1>0, <3>1, <4>1 DEF FreeFrame, pkt_free_rx, Pool, hw, queues, ReceiverRec
        <3>2. CASE CompleteFree
            <4>1. completer.pkt \in Block
                BY <1>0, <3>2 DEF CompleteFree, PoolInv, Hands, CompleterRec
            <4>. QED BY <1>0, <3>2, <4>1 DEF CompleteFree, pkt_free_tx, Pool, hw, queues
        <3>. QED BY <1>6, <3>1, <3>2
    <2>2. HoldsAlso(pool'.free, pool.free, c)
        <3>1. pool.free \in Seq(Block) /\ pool'.free = <<c>> \o pool.free
            BY <1>0, <2>1
        <3>. QED BY <3>1, PushedSet
    <2>. QED BY <1>0, <2>1, <2>2 DEF Somewhere, HoldsAlso
<1>7. CASE ServerGet \/ CompleteWait
    <2>1. /\ UNCHANGED <<pool, rx, tx_fifo, tx_pending, receiver, sender>>
          /\ server'.reply = server.reply /\ completer'.pkt = completer.pkt
        BY <1>0, <1>7 DEF ServerGet, CompleteWait, ServerRec, CompleterRec, hw, queues
    <2>. QED BY <1>0, <2>1 DEF Somewhere
<1>8. CASE SendGet
    <2>1. /\ tx_fifo # <<>> /\ tx_fifo' = Tail(tx_fifo) /\ sender.pc = "get"
          /\ sender'.pc = "put" /\ sender'.pkt = Head(tx_fifo)
          /\ UNCHANGED <<pool, rx, tx_pending, receiver, server, completer>>
        BY <1>8 DEF SendGet, hw
    <2>2. ToSet(tx_fifo) = ToSet(tx_fifo') \cup {Head(tx_fifo)}
        <3>1. Head(tx_fifo) \in Block
            BY <1>0, <2>1, HeadTailProperties
        <3>. QED BY <1>0, <2>1, <3>1, HeadTailSet
    <2>. QED BY <1>0, <2>1, <2>2 DEF Somewhere
<1>9. CASE SendPut
    <2>1. /\ sender.pc = "put" /\ tx_pending' = Append(tx_pending, sender.pkt)
          /\ UNCHANGED <<pool, rx, tx_fifo, receiver, server, completer>>
        BY <1>9 DEF SendPut, hw
    <2>2. sender.pkt \in Block
        BY <1>0, <2>1 DEF PoolInv, Hands, SenderRec
    <2>3. HoldsAlso(tx_pending', tx_pending, sender.pkt)
        <3>1. tx_pending \in Seq(Block) /\ tx_pending' = Append(tx_pending, sender.pkt)
            BY <1>0, <2>1
        <3>. QED BY <2>2, <3>1, AppendedSet
    <2>. QED BY <1>0, <2>1, <2>3 DEF Somewhere, HoldsAlso
<1>10. CASE CompleteGet
    <2>1. /\ tx_pending # <<>> /\ tx_pending' = Tail(tx_pending) /\ completer.pc = "get"
          /\ completer'.pkt = Head(tx_pending)
          /\ UNCHANGED <<pool, rx, tx_fifo, receiver, server, sender>>
        BY <1>10 DEF CompleteGet, hw
    <2>2. ToSet(tx_pending) = ToSet(tx_pending') \cup {Head(tx_pending)}
        <3>1. Head(tx_pending) \in Block
            BY <1>0, <2>1, HeadTailProperties
        <3>. QED BY <1>0, <2>1, <3>1, HeadTailSet
    <2>3. completer.pkt = NULL
        BY <2>1 DEF PoolInv, Hands
    <2>. QED BY <1>0, <2>1, <2>2, <2>3 DEF Somewhere
<1>. QED BY <1>1, <1>2, <1>3, <1>4, <1>5, <1>6, <1>7, <1>8, <1>9, <1>10
         DEF Next, Receiver, Server, Sender, Completer

-----------------------------------------------------------------------------
(* The theorems.                                                             *)

LEMMA RxInvStep == PoolInv /\ RxInv /\ [Next]_vars => RxInv'
<1>. SUFFICES ASSUME PoolInv, RxInv, [Next]_vars PROVE RxInv'
    OBVIOUS
<1>1. CASE Next
    BY <1>1, RxInvNext DEF Next
<1>2. CASE UNCHANGED vars
    BY <1>2, RxInvPrimed DEF RxInv, RxSignals, vars, hw, sems, tasks
<1>. QED BY <1>1, <1>2

LEMMA TxInvStep == PoolInv /\ TxInv /\ [Next]_vars => TxInv'
<1>. SUFFICES ASSUME PoolInv, TxInv, [Next]_vars PROVE TxInv'
    OBVIOUS
<1>1. CASE Next
    BY <1>1, TxInvNext
<1>2. CASE UNCHANGED vars
    <2>1. /\ UNCHANGED <<tx, tx_pending, sender>> /\ HandedCount' = HandedCount
          /\ TxSignals' = TxSignals
        BY <1>2 DEF vars, hw, sems, queues, tasks, HandedCount, TxSignals
    <2>. QED BY <2>1, TxInvPrimed DEF TxInv
<1>. QED BY <1>1, <1>2

LEMMA NoneLostStep == PoolInv /\ RxInv /\ NoneLost /\ [Next]_vars => NoneLost'
<1>. SUFFICES ASSUME PoolInv, RxInv, NoneLost, [Next]_vars PROVE NoneLost'
    OBVIOUS
<1>1. CASE Next
    BY <1>1, NoneLostNext DEF Next
<1>2. CASE UNCHANGED vars
    BY <1>2 DEF NoneLost, Somewhere, vars, hw, queues, tasks
<1>. QED BY <1>1, <1>2

\* The receive ring, the transmit ring and the blocks, in every behaviour.
THEOREM EthernetInvariant == Spec => [](PoolInv /\ RxInv /\ TxInv /\ NoneLost)
<1>1. Init => PoolInv /\ RxInv /\ TxInv /\ NoneLost
    BY PoolInvInit, RxInvInit, TxInvInit, NoneLostInit
<1>2. /\ PoolInv /\ RxInv /\ TxInv /\ NoneLost /\ [Next]_vars
        => PoolInv' /\ RxInv' /\ TxInv' /\ NoneLost'
    BY PoolInvNext, RxInvStep, TxInvStep, NoneLostStep
<1>. QED BY <1>1, <1>2, PTL DEF Spec

\* Every variable has its type; in particular no semaphore of the device counts
\* further than it has descriptors.
THEOREM EthernetTypes == Spec => []TypeOK
<1>1. PoolInv /\ RxInv /\ TxInv => TypeOK
    <2>. SUFFICES ASSUME PoolInv, RxInv, TxInv PROVE TypeOK
        OBVIOUS
    <2>0. Types
        BY DEF PoolInv
    <2>1. eth_rx_semaphore <= RX_DSC_CNT
        <3>1. RxSignals \in Nat /\ eth_rx_semaphore <= RxSignals /\ eth_rx_semaphore \in Nat
            BY <2>0 DEF Types, RxSignals
        <3>2. RxSignals <= Cardinality(Frames(rx))
            BY DEF RxInv
        <3>. QED BY <3>1, <3>2, FramesFinite, Sizes
    <2>2. eth_tx_semaphore <= TX_DSC_CNT
        <3>1. TxSignals \in Nat /\ eth_tx_semaphore <= TxSignals /\ eth_tx_semaphore \in Nat
            BY <2>0 DEF Types, TxSignals
        <3>2. TxSignals <= HandedCount
            <4>1. PICK m \in 0 .. TX_DSC_CNT : TxSignals + m <= HandedCount
                BY DEF TxInv
            <4>. QED BY <3>1, <4>1, HandedIs, Sizes
        <3>3. HandedCount <= TX_DSC_CNT
            BY <2>0, HandedIs, Sizes DEF Types
        <3>. QED BY <3>1, <3>2, <3>3, HandedIs, Sizes
    <2>3. eth_rx_semaphore \in 0 .. RX_DSC_CNT /\ eth_tx_semaphore \in 0 .. TX_DSC_CNT
        BY <2>0, <2>1, <2>2, Sizes DEF Types
    <2>. QED BY <2>0, <2>3 DEF Types, TypeOK, TxFifoSize, TxPendingSize, Pool, RxDesc, TxDesc,
             ReceiverRec, SenderRec, CompleterRec, ServerRec
<1>. QED BY <1>1, EthernetInvariant, PTL

\* network_receive_task is told of no more frames than there are, and takes them
\* in order: ETH_receive_frame never looks at a descriptor that the DMA owns, nor
\* at a time stamp (ethernet.c).
THEOREM FramesAreComplete == Spec => []ReadsCompleteFrames
<1>1. PoolInv /\ RxInv => ReadsCompleteFrames
    <2>. SUFFICES ASSUME PoolInv, RxInv, receiver.pc = "receive"
                  PROVE  rx.desc[rx.current] \in {"frame", "stamped"}
        BY DEF ReadsCompleteFrames
    <2>1. PICK n \in 1 .. RX_DSC_CNT : RxFilled(rx, n)
        BY FrameReady
    <2>2. rx \in RxDesc
        BY DEF PoolInv, Types
    <2>. QED BY <2>1, <2>2, FirstIsFrame
<1>. QED BY <1>1, EthernetInvariant, PTL

\* The DMA owns as many descriptors as it has packets to send.
LEMMA OwnedCount ==
    ASSUME NEW t \in TxDesc, NEW s \in Seq(Block), NEW n \in Nat, NEW m \in 0 .. TX_DSC_CNT,
           TxFilled(t, s, n, m)
    PROVE  Cardinality({i \in TxIdx : t.desc[i] # NULL}) = m
<1> DEFINE owned == {i \in TxIdx : t.desc[i] # NULL}
           f == [k \in 1 .. m |-> Along(TX_DSC_CNT, t.dma, k - 1)]
<1>0. /\ TX_DSC_CNT \in Nat \ {0} /\ t.dma \in 0 .. TX_DSC_CNT - 1 /\ m \in Nat
      /\ TxIdx = 0 .. TX_DSC_CNT - 1 /\ Len(s) \in Nat /\ m <= n /\ n <= Len(s)
    BY TxWalk, LenProperties DEF TxIdx, TxFilled
<1>1. ASSUME NEW k \in 0 .. m - 1
      PROVE  Along(TX_DSC_CNT, t.dma, k) \in owned
    <2>1. TxAhead(t, k) = s[n - m + 1 + k] /\ n - m + 1 + k \in 1 .. Len(s)
        BY <1>0 DEF TxFilled
    <2>2. s[n - m + 1 + k] \in Block
        BY <2>1, ElementOfSeq
    <2>3. Along(TX_DSC_CNT, t.dma, k) \in TxIdx
        <3>1. k \in 0 .. TX_DSC_CNT - 1
            BY <1>0
        <3>. QED BY <3>1, TxWalk
    <2>. QED BY <2>1, <2>2, <2>3, EthernetAssumption DEF TxAhead
<1>2. ASSUME NEW i \in owned
      PROVE  \E k \in 0 .. m - 1 : i = Along(TX_DSC_CNT, t.dma, k)
    <2>1. PICK k \in 0 .. TX_DSC_CNT - 1 : i = Along(TX_DSC_CNT, t.dma, k)
        BY <1>0, RingReaches
    <2>2. k < m
        BY <1>0, <2>1 DEF TxFilled, TxAhead
    <2>. QED BY <1>0, <2>1, <2>2
<1>3. f \in [1 .. m -> owned]
    <2>1. \A k \in 1 .. m : k - 1 \in 0 .. m - 1
        BY <1>0
    <2>. QED BY <1>1, <2>1
<1>4. \A k, l \in 1 .. m : f[k] = f[l] => k = l
    <2>. SUFFICES ASSUME NEW k \in 1 .. m, NEW l \in 1 .. m,
                         Along(TX_DSC_CNT, t.dma, k - 1) = Along(TX_DSC_CNT, t.dma, l - 1)
                  PROVE  k = l
        OBVIOUS
    <2>1. /\ k \in Nat /\ l \in Nat /\ k > 0 /\ l > 0 /\ k <= TX_DSC_CNT /\ l <= TX_DSC_CNT
          /\ t.dma \in Nat /\ t.dma < TX_DSC_CNT
        BY <1>0
    <2>. QED BY <1>0, <2>1 DEF Along
<1>5. \A i \in owned : \E k \in 1 .. m : f[k] = i
    <2>. SUFFICES ASSUME NEW i \in owned PROVE \E k \in 1 .. m : f[k] = i
        OBVIOUS
    <2>1. PICK k \in 0 .. m - 1 : i = Along(TX_DSC_CNT, t.dma, k)
        BY <1>2
    <2>2. k + 1 \in 1 .. m /\ (k + 1) - 1 = k
        BY <1>0
    <2>. QED BY <2>1, <2>2
<1>. HIDE DEF f, owned
<1>6. f \in Bijection(1 .. m, owned)
    BY <1>3, <1>4, <1>5 DEF Bijection, Injection, Surjection, IsInjective
<1>7. Cardinality(owned) = m
    BY <1>0, <1>6, FS_CountingElements DEF ExistsBijection
<1>. QED BY <1>7 DEF owned

\* What the DMA is to send is the end of what it was handed.
LEMMA InFlightIsLast ==
    ASSUME NEW s \in Seq(Block), NEW m \in Nat, m <= Len(s),
           NEW q, q = [k \in 1 .. m |-> s[Len(s) - m + k]]
    PROVE  IsSuffix(q, s)
<1>0. Len(s) \in Nat
    BY LenProperties
<1>1. /\ \A k \in 1 .. m : Len(s) - m + k \in 1 .. Len(s)
      /\ \A k \in 1 .. Len(s) : s[k] \in Block
    BY <1>0, ElementOfSeq
<1>2. q \in Seq(Block) /\ Len(q) = m
    <2>1. q \in [1 .. m -> Block]
        BY <1>1
    <2>. QED BY <2>1, IsASeq, LenProperties
<1> DEFINE qr == [i \in 1 .. m |-> q[(m - i) + 1]]
           sr == [i \in 1 .. Len(s) |-> s[(Len(s) - i) + 1]]
<1>3. Reverse(q) = qr /\ Reverse(s) = sr
    BY <1>2 DEF Reverse
<1>4. ASSUME NEW i \in 1 .. m
      PROVE  i \in 1 .. Len(s) /\ qr[i] = sr[i] /\ qr[i] \in Block
    <2>1. /\ (m - i) + 1 \in 1 .. m /\ Len(s) - m + ((m - i) + 1) = (Len(s) - i) + 1
          /\ i \in 1 .. Len(s)
        BY <1>0
    <2>2. q[(m - i) + 1] = s[(Len(s) - i) + 1]
        BY <2>1
    <2>. QED BY <1>1, <2>1, <2>2
<1>5. Len(qr) = m /\ Len(sr) = Len(s)
    BY <1>0
<1>. HIDE DEF qr, sr
<1>6. SubSeq(qr, 1, m) = SubSeq(sr, 1, m)
    <2>1. SubSeq(qr, 1, m) \in Seq(Block) /\ SubSeq(sr, 1, m) \in Seq(Block)
        BY <1>0, <1>4, SubSeqProperties
    <2>2. Len(SubSeq(qr, 1, m)) = m /\ Len(SubSeq(sr, 1, m)) = m
        BY <1>0, <1>4, SubSeqProperties
    <2>3. \A i \in 1 .. m : SubSeq(qr, 1, m)[i] = qr[i] /\ SubSeq(sr, 1, m)[i] = sr[i]
        BY <1>0, <1>4, SubSeqProperties
    <2>. QED BY <1>4, <2>1, <2>2, <2>3, SeqEqual
<1>. QED BY <1>3, <1>5, <1>6 DEF IsSuffix, IsPrefix

\* The packets given to the DMA, as a sequence.
Handed == IF sender.pc = "init" THEN Front(tx_pending) ELSE tx_pending

LEMMA HandedPackets ==
    ASSUME PoolInv, TxInv
    PROVE  /\ Handed \in Seq(Block) /\ Len(Handed) = HandedCount
           /\ \A i \in 1 .. HandedCount : Handed[i] = tx_pending[i]
<1>0. tx_pending \in Seq(Block) /\ Len(tx_pending) \in Nat /\ HandedCount \in Nat
    BY HandedIs DEF PoolInv, Types
<1>1. CASE sender.pc = "init"
    <2>1. HandedCount = Len(tx_pending) - 1 /\ Handed = SubSeq(tx_pending, 1, HandedCount)
        BY <1>1 DEF HandedCount, Handed, Front
    <2>2. \A i \in 1 .. HandedCount : tx_pending[i] \in Block
        BY <1>0, <2>1, ElementOfSeq
    <2>3. /\ SubSeq(tx_pending, 1, HandedCount) \in Seq(Block)
          /\ Len(SubSeq(tx_pending, 1, HandedCount)) = IF 1 <= HandedCount
                                                      THEN HandedCount - 1 + 1 ELSE 0
          /\ \A i \in 1 .. HandedCount - 1 + 1 :
                SubSeq(tx_pending, 1, HandedCount)[i] = tx_pending[1 + i - 1]
        BY <1>0, <2>2, SubSeqProperties
    <2>4. Len(SubSeq(tx_pending, 1, HandedCount)) = HandedCount
        BY <1>0, <2>3
    <2>5. \A i \in 1 .. HandedCount : SubSeq(tx_pending, 1, HandedCount)[i] = tx_pending[i]
        BY <1>0, <2>3
    <2>. QED BY <2>1, <2>3, <2>4, <2>5
<1>2. CASE sender.pc # "init"
    BY <1>0, <1>2 DEF HandedCount, Handed
<1>. QED BY <1>1, <1>2

\* tx_pending follows the descriptors: the completion task frees a packet only
\* when it was sent, and the send task never fills a descriptor the DMA owns
\* (network_send_task, network_send_complete_task, init_tx_descriptor).
THEOREM PacketsInOrder == Spec => []TransmitRing
<1>1. PoolInv /\ TxInv => TransmitRing
    <2>. SUFFICES ASSUME PoolInv, TxInv PROVE TransmitRing
        OBVIOUS
    <2>0. /\ tx \in TxDesc /\ eth_tx_semaphore \in Nat /\ tx_pending \in Seq(Block)
          /\ Len(tx_pending) \in Nat /\ Len(tx_pending) <= TX_DSC_CNT /\ HandedCount \in Nat
          /\ TX_DSC_CNT \in Nat \ {0} /\ tx.dma \in 0 .. TX_DSC_CNT - 1
        BY HandedIs, TxWalk DEF PoolInv, Types
    <2>1. PICK m \in 0 .. TX_DSC_CNT :
            TxFilled(tx, tx_pending, HandedCount, m) /\ TxSignals + m <= HandedCount
        BY DEF TxInv
    <2>2. /\ m \in Nat /\ m <= HandedCount
          /\ \A k \in 0 .. m - 1 : TxAhead(tx, k) = tx_pending[HandedCount - m + 1 + k]
        BY <2>0, <2>1 DEF TxFilled
    <2>3. InFlight = [k \in 1 .. m |-> tx.desc[(tx.dma + k - 1) % TX_DSC_CNT]]
        <3>1. Cardinality({i \in TxIdx : tx.desc[i] # NULL}) = m
            BY <2>0, <2>1, OwnedCount
        <3>. QED BY <3>1 DEF InFlight
    <2>4. ASSUME NEW k \in 1 .. m
          PROVE  tx.desc[(tx.dma + k - 1) % TX_DSC_CNT] = Handed[Len(Handed) - m + k]
        <3>1. tx.dma + k - 1 \in 0 .. 2 * TX_DSC_CNT - 1 /\ k - 1 \in 0 .. m - 1
            BY <2>0, <2>2
        <3>2. (tx.dma + k - 1) % TX_DSC_CNT = Along(TX_DSC_CNT, tx.dma + k - 1, 0)
            BY <2>0, <3>1, Wrap
        <3>3. Along(TX_DSC_CNT, tx.dma + k - 1, 0) = Along(TX_DSC_CNT, tx.dma, k - 1)
            BY <2>0, <3>1 DEF Along
        <3>4. TxAhead(tx, k - 1) = tx_pending[HandedCount - m + 1 + (k - 1)]
            BY <2>2, <3>1
        <3>5. HandedCount - m + 1 + (k - 1) = HandedCount - m + k /\ HandedCount - m + k \in 1 .. HandedCount
            BY <2>0, <2>2
        <3>. QED BY <3>2, <3>3, <3>4, <3>5, HandedPackets DEF TxAhead
    <2>5. InFlight = [k \in 1 .. m |-> Handed[Len(Handed) - m + k]]
        BY <2>3, <2>4
    <2>6. Len(InFlight) = m
        BY <2>2, <2>5
    <2>7. IsSuffix(InFlight, Handed)
        BY <2>2, <2>5, HandedPackets, InFlightIsLast
    <2>8. eth_tx_semaphore + (IF completer.pc = "get" THEN 1 ELSE 0) + Len(InFlight) <= Len(Handed)
        <3>1. TxSignals \in Nat /\ eth_tx_semaphore + (IF completer.pc = "get" THEN 1 ELSE 0) <= TxSignals
            BY <2>0 DEF TxSignals
        <3>2. TxSignals + m <= HandedCount
            BY <2>1
        <3>. QED BY <2>0, <2>2, <2>6, <3>1, <3>2, HandedPackets
    <2>9. ASSUME sender.pc = "init" PROVE tx.desc[tx.current] = NULL
        <3>1. HandedCount + 1 <= Len(tx_pending) /\ m < TX_DSC_CNT
            BY <2>0, <2>2, <2>9 DEF HandedCount
        <3>. QED BY <2>0, <2>1, <3>1, TxFills
    <2>. QED BY <2>7, <2>8, <2>9 DEF TransmitRing, Handed
<1>. QED BY <1>1, EthernetInvariant, PTL

\* What BlocksConserved counts.
AllBlocks ==
    pool.free \o [i \in 1 .. RX_DSC_CNT |-> rx.block[i - 1]]
    \o Held(receiver.frame) \o Transmitting

LEMMA HeldSeq ==
    \A b \in Block \cup {NULL} :
        /\ Held(b) \in Seq(Block) /\ Len(Held(b)) = HeldCount(b)
        /\ ToSet(Held(b)) = IF b = NULL THEN {} ELSE {b}
<1>. SUFFICES ASSUME NEW b \in Block \cup {NULL}
              PROVE  /\ Held(b) \in Seq(Block) /\ Len(Held(b)) = HeldCount(b)
                     /\ ToSet(Held(b)) = IF b = NULL THEN {} ELSE {b}
    OBVIOUS
<1>1. CASE b = NULL
    BY <1>1 DEF Held, HeldCount, ToSet
<1>2. CASE b # NULL
    BY <1>2 DEF Held, HeldCount, ToSet
<1>. QED BY <1>1, <1>2

\* Two sequences in a row.
LEMMA Joined ==
    ASSUME NEW s \in Seq(Block), NEW t \in Seq(Block)
    PROVE  /\ s \o t \in Seq(Block) /\ Len(s \o t) = Len(s) + Len(t)
           /\ ToSet(s \o t) = ToSet(s) \cup ToSet(t)
<1>1. s \o t \in Seq(Block) /\ Len(s \o t) = Len(s) + Len(t)
    BY ConcatProperties
<1>2. ToSet(s \o t) = ToSet(s) \cup ToSet(t)
    <2>1. \A u : ToSet(u) = Range(u)
        BY DEF ToSet, Range
    <2>2. Range(s \o t) = Range(s) \cup Range(t)
        BY RangeConcatenation
    <2>. QED BY <2>1, <2>2, Zenon
<1>. QED BY <1>1, <1>2

\* What is out for transmission is as many blocks as counted.
LEMMA TransmittingSeq ==
    ASSUME PoolInv
    PROVE  /\ Transmitting \in Seq(Block) /\ Len(Transmitting) = TransmittingCount
           /\ \A b \in Block : b \in ToSet(Transmitting) <=>
                \/ receiver.reply = b \/ server.reply = b \/ completer.pkt = b
                \/ sender.pc = "put" /\ sender.pkt = b
                \/ b \in ToSet(tx_fifo) \/ b \in ToSet(tx_pending)
<1> DEFINE hand == IF sender.pc = "put" THEN <<sender.pkt>> ELSE <<>>
           s1 == Held(receiver.reply) \o Held(server.reply)
           s2 == s1 \o tx_fifo
           s3 == s2 \o hand
           s4 == s3 \o tx_pending
           s5 == s4 \o Held(completer.pkt)
<1>0. /\ tx_fifo \in Seq(Block) /\ tx_pending \in Seq(Block)
      /\ receiver.reply \in Block \cup {NULL} /\ server.reply \in Block \cup {NULL}
      /\ completer.pkt \in Block \cup {NULL}
    BY DEF PoolInv, Types, ReceiverRec, ServerRec, CompleterRec
<1>1. /\ hand \in Seq(Block) /\ Len(hand) = InHand
      /\ ToSet(hand) = IF sender.pc = "put" THEN {sender.pkt} ELSE {}
    <2>1. CASE sender.pc = "put"
        <3>1. sender.pkt \in Block
            BY <2>1 DEF PoolInv, Hands, Types, SenderRec
        <3>2. /\ <<sender.pkt>> \in Seq(Block) /\ Len(<<sender.pkt>>) = 1
              /\ ToSet(<<sender.pkt>>) = {sender.pkt}
            BY <3>1 DEF ToSet
        <3>. QED BY <2>1, <3>2 DEF InHand
    <2>2. CASE sender.pc # "put"
        <3>1. <<>> \in Seq(Block) /\ Len(<<>>) = 0 /\ ToSet(<<>>) = {}
            BY EmptySeq DEF ToSet
        <3>. QED BY <2>2, <3>1 DEF InHand
    <2>. QED BY <2>1, <2>2
<1>2. Transmitting = s5
    BY DEF Transmitting
<1>. HIDE DEF hand
<1>3. /\ s1 \in Seq(Block) /\ Len(s1) = HeldCount(receiver.reply) + HeldCount(server.reply)
      /\ ToSet(s1) = ToSet(Held(receiver.reply)) \cup ToSet(Held(server.reply))
    <2>1. /\ Held(receiver.reply) \in Seq(Block)
          /\ Len(Held(receiver.reply)) = HeldCount(receiver.reply)
        BY <1>0, HeldSeq
    <2>2. /\ Held(server.reply) \in Seq(Block)
          /\ Len(Held(server.reply)) = HeldCount(server.reply)
        BY <1>0, HeldSeq
    <2>. QED BY <2>1, <2>2, Joined
<1>. HIDE DEF s1
<1>4. /\ s2 \in Seq(Block) /\ Len(s2) = Len(s1) + InFifo
      /\ ToSet(s2) = ToSet(s1) \cup ToSet(tx_fifo)
    BY <1>0, <1>3, Joined DEF InFifo
<1>. HIDE DEF s2
<1>5. /\ s3 \in Seq(Block) /\ Len(s3) = Len(s2) + InHand
      /\ ToSet(s3) = ToSet(s2) \cup ToSet(hand)
    BY <1>1, <1>4, Joined
<1>. HIDE DEF s3
<1>6. /\ s4 \in Seq(Block) /\ Len(s4) = Len(s3) + Pending
      /\ ToSet(s4) = ToSet(s3) \cup ToSet(tx_pending)
    BY <1>0, <1>5, Joined DEF Pending
<1>. HIDE DEF s4
<1>7. /\ s5 \in Seq(Block) /\ Len(s5) = Len(s4) + HeldCount(completer.pkt)
      /\ ToSet(s5) = ToSet(s4) \cup ToSet(Held(completer.pkt))
    <2>1. /\ Held(completer.pkt) \in Seq(Block)
          /\ Len(Held(completer.pkt)) = HeldCount(completer.pkt)
        BY <1>0, HeldSeq
    <2>. QED BY <2>1, <1>6, Joined
<1>. HIDE DEF s5
<1>8. Len(s5) = TransmittingCount
    BY <1>3, <1>4, <1>5, <1>6, <1>7 DEF TransmittingCount
<1>9. \A b \in Block : b \in ToSet(s5) <=>
                \/ receiver.reply = b \/ server.reply = b \/ completer.pkt = b
                \/ sender.pc = "put" /\ sender.pkt = b
                \/ b \in ToSet(tx_fifo) \/ b \in ToSet(tx_pending)
    <2>1. ASSUME NEW x \in Block \cup {NULL}, NEW b \in Block
          PROVE  b \in ToSet(Held(x)) <=> x = b
        <3>1. ToSet(Held(x)) = IF x = NULL THEN {} ELSE {x}
            BY HeldSeq
        <3>2. b # NULL
            BY EthernetAssumption
        <3>. QED BY <3>1, <3>2
    <2>2. ASSUME NEW b \in Block
          PROVE  b \in ToSet(hand) <=> sender.pc = "put" /\ sender.pkt = b
        BY <1>1
    <2>3. ToSet(s5) = ToSet(Held(receiver.reply)) \cup ToSet(Held(server.reply))
                        \cup ToSet(tx_fifo) \cup ToSet(hand) \cup ToSet(tx_pending)
                        \cup ToSet(Held(completer.pkt))
        BY <1>3, <1>4, <1>5, <1>6, <1>7
    <2>4. ASSUME NEW b \in Block
          PROVE  /\ b \in ToSet(Held(receiver.reply)) <=> receiver.reply = b
                 /\ b \in ToSet(Held(server.reply)) <=> server.reply = b
                 /\ b \in ToSet(Held(completer.pkt)) <=> completer.pkt = b
        BY <1>0, <2>1
    <2>. QED BY <2>2, <2>3, <2>4
<1>. QED BY <1>2, <1>7, <1>8, <1>9

LEMMA AllBlocksSeq ==
    ASSUME PoolInv
    PROVE  /\ AllBlocks \in Seq(Block)
           /\ Len(AllBlocks) = FreeCount(pool) + RX_DSC_CNT + HeldCount(receiver.frame)
                                + TransmittingCount
           /\ \A b \in Block : Somewhere(b) => b \in ToSet(AllBlocks)
<1> DEFINE ring == [i \in 1 .. RX_DSC_CNT |-> rx.block[i - 1]]
           s1 == pool.free \o ring
           s2 == s1 \o Held(receiver.frame)
           s3 == s2 \o Transmitting
<1>0. /\ pool.free \in Seq(Block) /\ receiver.frame \in Block \cup {NULL}
      /\ rx.block \in [RxIdx -> Block] /\ RX_DSC_CNT \in Nat
    BY Sizes DEF PoolInv, Types, Pool, ReceiverRec, RxDesc
<1>1. ring \in Seq(Block) /\ Len(ring) = RX_DSC_CNT
    <2>1. \A i \in 1 .. RX_DSC_CNT : rx.block[i - 1] \in Block
        BY <1>0 DEF RxIdx
    <2>2. ring \in Seq(Block)
        BY <1>0, <2>1, IsASeq
    <2>. QED BY <1>0, <2>2, LenProperties
<1>2. ASSUME NEW i \in RxIdx
      PROVE  rx.block[i] \in ToSet(ring)
    <2>1. i + 1 \in 1 .. RX_DSC_CNT /\ (i + 1) - 1 = i
        BY <1>0 DEF RxIdx
    <2>2. ring[i + 1] = rx.block[i] /\ i + 1 \in DOMAIN ring
        BY <2>1
    <2>. QED BY <2>2 DEF ToSet
<1>3. AllBlocks = s3
    BY DEF AllBlocks
<1>. HIDE DEF ring
<1>4. /\ s1 \in Seq(Block) /\ Len(s1) = FreeCount(pool) + RX_DSC_CNT
      /\ ToSet(s1) = ToSet(pool.free) \cup ToSet(ring)
    BY <1>0, <1>1, Joined DEF FreeCount
<1>. HIDE DEF s1
<1>5. /\ s2 \in Seq(Block) /\ Len(s2) = Len(s1) + HeldCount(receiver.frame)
      /\ ToSet(s2) = ToSet(s1) \cup ToSet(Held(receiver.frame))
    <2>1. /\ Held(receiver.frame) \in Seq(Block)
          /\ Len(Held(receiver.frame)) = HeldCount(receiver.frame)
        BY <1>0, HeldSeq
    <2>. QED BY <2>1, <1>4, Joined
<1>. HIDE DEF s2
<1>6. /\ s3 \in Seq(Block) /\ Len(s3) = Len(s2) + TransmittingCount
      /\ ToSet(s3) = ToSet(s2) \cup ToSet(Transmitting)
    BY <1>5, TransmittingSeq, Joined
<1>. HIDE DEF s3
<1>7. ASSUME NEW b \in Block, Somewhere(b)
      PROVE  b \in ToSet(s3)
    <2>1. CASE b \in ToSet(pool.free)
        BY <2>1, <1>4, <1>5, <1>6
    <2>2. CASE \E i \in RxIdx : rx.block[i] = b
        BY <2>2, <1>2, <1>4, <1>5, <1>6
    <2>3. CASE receiver.frame = b
        BY <2>3, <1>0, <1>5, <1>6, HeldSeq, EthernetAssumption
    <2>4. CASE b \in ToSet(Transmitting)
        BY <2>4, <1>6
    <2>. QED BY <1>7, <2>1, <2>2, <2>3, <2>4, TransmittingSeq DEF Somewhere
<1>. QED BY <1>3, <1>4, <1>5, <1>6, <1>7

\* A sequence that holds n values is at least as long.
LEMMA LongEnough ==
    ASSUME NEW s \in Seq(Block)
    PROVE  Cardinality(ToSet(s)) <= Len(s)
<1>1. Len(s) \in Nat /\ s \in [1 .. Len(s) -> Block] /\ ToSet(s) = {s[i] : i \in 1 .. Len(s)}
    BY LenProperties, ToSetIs
<1>2. s \in Surjection(1 .. Len(s), ToSet(s))
    BY <1>1 DEF Surjection
<1>. QED BY <1>1, <1>2, FS_SurjCardinalityBound DEF ExistsSurjection

LEMMA EveryBlockOnce ==
    ASSUME PoolInv, NoneLost, ~pool.dry
    PROVE  /\ ToSet(AllBlocks) = Block /\ Len(AllBlocks) = PKT_BUFFER_CNT
           /\ pool.rx_alloc_cnt = RX_DSC_CNT + HeldCount(receiver.frame)
           /\ pool.tx_alloc_cnt = TransmittingCount
<1>1. AllBlocks \in Seq(Block) /\ \A b \in Block : b \in ToSet(AllBlocks)
    BY AllBlocksSeq DEF NoneLost
<1>2. ToSet(AllBlocks) = Block
    <2>1. \A b \in ToSet(AllBlocks) : b \in Block
        BY <1>1, ToSetIs, ElementOfSeq
    <2>. QED BY <1>1, <2>1
<1>3. PKT_BUFFER_CNT <= Len(AllBlocks)
    BY <1>1, <1>2, LongEnough DEF PKT_BUFFER_CNT
<1>4. /\ Len(AllBlocks) = FreeCount(pool) + RX_DSC_CNT + HeldCount(receiver.frame)
                          + TransmittingCount
      /\ FreeCount(pool) + pool.rx_alloc_cnt + pool.tx_alloc_cnt = PKT_BUFFER_CNT
      /\ TransmittingCount <= pool.tx_alloc_cnt
      /\ RX_DSC_CNT + HeldCount(receiver.frame) <= pool.rx_alloc_cnt
    BY AllBlocksSeq DEF PoolInv, PoolCounts
<1>5. /\ FreeCount(pool) \in Nat /\ RX_DSC_CNT \in Nat /\ HeldCount(receiver.frame) \in Nat
      /\ TransmittingCount \in Nat /\ pool.rx_alloc_cnt \in Nat /\ pool.tx_alloc_cnt \in Nat
      /\ PKT_BUFFER_CNT \in Nat
    BY Numbers, Sizes
<1>6. Len(AllBlocks) \in Nat
    BY <1>1, LenProperties
<1>7. /\ Len(AllBlocks) = PKT_BUFFER_CNT
      /\ pool.rx_alloc_cnt = RX_DSC_CNT + HeldCount(receiver.frame)
      /\ pool.tx_alloc_cnt = TransmittingCount
    BY ONLY <1>3, <1>4, <1>5, <1>6, SMTT(30)
<1>. QED BY <1>2, <1>7

\* No packet buffer is ever lost or in two hands (pkt_alloc_rx, pkt_alloc_tx,
\* pkt_free_rx and pkt_free_tx in network.c, ETH_receive_frame's exchange).
THEOREM EveryBlockKept == Spec => []BlocksConserved
<1>1. PoolInv /\ NoneLost => BlocksConserved
    BY EveryBlockOnce DEF BlocksConserved, AllBlocks
<1>. QED BY <1>1, EthernetInvariant, PTL

\* rx_alloc_cnt and tx_alloc_cnt are exactly the numbers of blocks out.
THEOREM CountsExact == Spec => []AllocCounts
<1>1. PoolInv /\ NoneLost => AllocCounts
    <2>. SUFFICES ASSUME PoolInv, NoneLost, ~pool.dry
                  PROVE  /\ pool.rx_alloc_cnt = RX_DSC_CNT + Len(Held(receiver.frame))
                         /\ pool.tx_alloc_cnt = Len(Transmitting)
        BY DEF AllocCounts
    <2>1. receiver.frame \in Block \cup {NULL}
        BY DEF PoolInv, Types, ReceiverRec
    <2>. QED BY <2>1, EveryBlockOnce, HeldSeq, TransmittingSeq
<1>. QED BY <1>1, EthernetInvariant, PTL
=============================================================================
