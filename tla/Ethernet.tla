------------------------------ MODULE Ethernet ------------------------------
(***************************************************************************)
(* Frames through the device: the packet buffers and the network tasks of  *)
(* network.c, the descriptor rings and the interrupt handler of            *)
(* ethernet.c, and the Ethernet DMA as external hardware.                  *)
(*                                                                         *)
(* A step of a task runs from one call that may block, or one critical     *)
(* section of pkt_buff_mutex, to the next. Semaphores block until they are *)
(* available: how they do it is the subject of Kernel. The DMA acts at any *)
(* time, also between the handler's read and its clear of the status.      *)
(*                                                                         *)
(* The DMA uses a descriptor if and only if it owns it. With a received    *)
(* frame it may store the time of arrival in the descriptor that follows.  *)
(***************************************************************************)
EXTENDS Integers, Sequences, FiniteSets, SequencesExt

CONSTANTS
    Block,         \* the packet buffers
    RX_PKT_MAX, TX_PKT_MAX, RX_DSC_CNT, TX_DSC_CNT,
    SOCKET_SIZE,   \* requests the socket of the time server holds
    NULL

ASSUME EthernetAssumption ==
    /\ {RX_PKT_MAX, TX_PKT_MAX, RX_DSC_CNT, TX_DSC_CNT, SOCKET_SIZE} \subseteq Nat \ {0}
    /\ IsFiniteSet(Block) /\ NULL \notin Block
    /\ RX_DSC_CNT < RX_PKT_MAX
    /\ RX_DSC_CNT <= Cardinality(Block)

PKT_BUFFER_CNT == Cardinality(Block)
RxIdx == 0 .. RX_DSC_CNT - 1
TxIdx == 0 .. TX_DSC_CNT - 1

VARIABLES
    pool,      \* free: the list from free_block_root on; rx_alloc_cnt,
               \* tx_alloc_cnt; dry: a block was taken from the empty list
    rx,        \* desc: what each descriptor holds; block: dma_rx_block_ptr;
               \* current: current_rx_desc_idx; dma: where the DMA is
    tx,        \* desc: the block the DMA is to send, NULL if it owns none;
               \* current: current_tx_desc_idx; dma: where the DMA is
    DMACSR,    \* the status bits that are set
    handling,  \* ETH_IRQHandler has read DMACSR, and not yet cleared it
    eth_rx_semaphore, eth_tx_semaphore,
    tx_fifo, tx_pending,
    socket,    \* how many requests are queued for the time server
    receiver, sender, completer, server  \* where each task is, what it holds

hw == <<rx, tx, DMACSR, handling>>
sems == <<eth_rx_semaphore, eth_tx_semaphore>>
queues == <<tx_fifo, tx_pending, socket>>
tasks == <<receiver, sender, completer, server>>
vars == <<pool, hw, sems, queues, tasks>>

\* After network_init: ETH_DMA_init has given a block to every descriptor. The
\* blocks are linked in some order.
Init ==
    /\ \E blocks \in SetToSeqs(Block) :
        /\ pool = [free |-> SubSeq(blocks, RX_DSC_CNT + 1, PKT_BUFFER_CNT),
                   rx_alloc_cnt |-> RX_DSC_CNT, tx_alloc_cnt |-> 0, dry |-> FALSE]
        /\ rx = [desc |-> [i \in RxIdx |-> "own"], block |-> [i \in RxIdx |-> blocks[i + 1]],
                 current |-> 0, dma |-> 0]
    /\ tx = [desc |-> [i \in TxIdx |-> NULL], current |-> 0, dma |-> 0]
    /\ DMACSR = {} /\ handling = FALSE
    /\ eth_rx_semaphore = 0 /\ eth_tx_semaphore = 0
    /\ tx_fifo = <<>> /\ tx_pending = <<>> /\ socket = 0
    /\ receiver = [pc |-> "wait", frame |-> NULL, reply |-> NULL]
    /\ sender = [pc |-> "get", pkt |-> NULL]
    /\ completer = [pc |-> "wait", pkt |-> NULL]
    /\ server = [pc |-> "get", reply |-> NULL]

-----------------------------------------------------------------------------
(* The packet buffers. Each returns the pool it leaves, and the block.       *)

Take(p) == IF p.free = <<>>
           THEN [block |-> NULL, pool |-> [p EXCEPT !.dry = TRUE]]
           ELSE [block |-> Head(p.free), pool |-> [p EXCEPT !.free = Tail(@)]]

pkt_alloc_rx(p) ==
    IF p.rx_alloc_cnt >= RX_PKT_MAX THEN [block |-> NULL, pool |-> p]
    ELSE Take([p EXCEPT !.rx_alloc_cnt = @ + 1])

pkt_alloc_tx(p) ==
    IF p.tx_alloc_cnt >= TX_PKT_MAX THEN [block |-> NULL, pool |-> p]
    ELSE Take([p EXCEPT !.tx_alloc_cnt = @ + 1])

PktFreeRxUncounted(p, b) == [p EXCEPT !.free = <<b>> \o @]

pkt_free_rx(p, b) == [p EXCEPT !.free = <<b>> \o @, !.rx_alloc_cnt = @ - 1]

PktFreeTxCountsRx(p, b) == [p EXCEPT !.free = <<b>> \o @, !.rx_alloc_cnt = @ - 1]

pkt_free_tx(p, b) == [p EXCEPT !.free = <<b>> \o @, !.tx_alloc_cnt = @ - 1]

-----------------------------------------------------------------------------
(* The DMA and the interrupt handler.                                        *)

NextRx(i) == (i + 1) % RX_DSC_CNT
NextTxPastEnd(i) == (i + 1) % (TX_DSC_CNT + 1)

NextTx(i) == (i + 1) % TX_DSC_CNT

\* A frame is received into the next descriptor.
DmaReceives ==
    /\ rx.desc[rx.dma] = "own"
    /\ rx' = [rx EXCEPT !.desc[rx.dma] = "frame", !.dma = NextRx(@)]
    /\ DMACSR' = DMACSR \cup {"RI"}
    /\ UNCHANGED <<pool, tx, handling, sems, queues, tasks>>

\* A frame, and its time of arrival into the descriptor after it.
DmaReceivesStamped ==
    LET i == rx.dma
        j == NextRx(i)
    IN  /\ i # j /\ rx.desc[i] = "own" /\ rx.desc[j] = "own"
        /\ rx' = [rx EXCEPT !.desc = [@ EXCEPT ![i] = "stamped", ![j] = "context"],
                            !.dma = NextRx(j)]
        /\ DMACSR' = DMACSR \cup {"RI"}
        /\ UNCHANGED <<pool, tx, handling, sems, queues, tasks>>

DmaTransmits ==
    /\ tx.desc[tx.dma] # NULL
    /\ tx' = [tx EXCEPT !.desc[tx.dma] = NULL, !.dma = NextTx(@)]
    /\ DMACSR' = DMACSR \cup {"TI"}
    /\ UNCHANGED <<pool, rx, handling, sems, queues, tasks>>

\* ETH_IRQHandler signals once for each bit, however often that was raised.
EthSignals ==
    /\ ~handling /\ DMACSR # {}
    /\ eth_rx_semaphore' = eth_rx_semaphore + (IF "RI" \in DMACSR THEN 1 ELSE 0)
    /\ eth_tx_semaphore' = eth_tx_semaphore + (IF "TI" \in DMACSR THEN 1 ELSE 0)
    /\ handling' = TRUE
    /\ UNCHANGED <<pool, rx, tx, DMACSR, queues, tasks>>

ClearNothing(csr) == csr

\* It writes ones to every bit, also to those raised since it read them.
ClearStatus(csr) == {}

EthClears ==
    /\ handling
    /\ handling' = FALSE
    /\ DMACSR' = ClearStatus(DMACSR)
    /\ UNCHANGED <<pool, rx, tx, sems, queues, tasks>>

-----------------------------------------------------------------------------
(* network_receive_task.                                                     *)

ReceiveWait ==
    /\ receiver.pc = "wait" /\ eth_rx_semaphore > 0
    /\ eth_rx_semaphore' = eth_rx_semaphore - 1
    /\ receiver' = [receiver EXCEPT !.pc = "receive"]
    /\ UNCHANGED <<pool, hw, eth_tx_semaphore, queues, sender, completer, server>>

InitReadKeepsBlock(r, b) ==
    [r EXCEPT !.desc[r.current] = "own", !.current = NextRx(@)]

\* init_read_descriptor for the current descriptor.
init_read_descriptor(r, b) ==
    [r EXCEPT !.desc[r.current] = "own", !.block[r.current] = b, !.current = NextRx(@)]

\* The descriptor gets a block in exchange for the frame's, and so it is handed
\* back; so is the next one, with its own block, if it held the time stamp.
Refill(r, b) ==
    LET next == init_read_descriptor(r, b)
    IN  IF r.desc[r.current] = "stamped"
        THEN init_read_descriptor(next, next.block[next.current])
        ELSE next

\* ETH_receive_frame. The bit it calls DESC_WB_LEN_ERROR is the OWN bit. It
\* allocates again and again until it gets a block.
ReceiveFrame ==
    LET a == pkt_alloc_rx(pool)
        frame == IF rx.desc[rx.current] = "own" THEN NULL ELSE rx.block[rx.current]
    IN  /\ receiver.pc = "receive"
        /\ pool' = a.pool
        /\ IF a.block = NULL THEN UNCHANGED <<rx, receiver>>
           ELSE /\ rx' = Refill(rx, a.block)
                /\ receiver' = [receiver EXCEPT !.frame = frame,
                                   !.pc = IF frame = NULL THEN "wait" ELSE "process"]
        /\ UNCHANGED <<tx, DMACSR, handling, sems, queues, sender, completer, server>>

\* process_frame for a frame nobody here wants, or that is malformed.
Ignore ==
    /\ receiver.pc = "process"
    /\ receiver' = [receiver EXCEPT !.pc = "free"]
    /\ UNCHANGED <<pool, hw, sems, queues, sender, completer, server>>

\* process_icmp for an echo request; no reply is sent if there is no block.
Echo ==
    LET a == pkt_alloc_tx(pool)
    IN  /\ receiver.pc = "process"
        /\ pool' = a.pool
        /\ receiver' = [receiver EXCEPT !.reply = a.block,
                           !.pc = IF a.block = NULL THEN "free" ELSE "send"]
        /\ UNCHANGED <<hw, sems, queues, sender, completer, server>>

\* process_udp for a datagram to the time server.
Datagram ==
    /\ receiver.pc = "process"
    /\ receiver' = [receiver EXCEPT !.pc = "deliver"]
    /\ UNCHANGED <<pool, hw, sems, queues, sender, completer, server>>

\* It waits for a place in the socket, with the frame in hand.
Deliver ==
    /\ receiver.pc = "deliver" /\ socket < SOCKET_SIZE
    /\ socket' = socket + 1
    /\ receiver' = [receiver EXCEPT !.pc = "free"]
    /\ UNCHANGED <<pool, hw, sems, tx_fifo, tx_pending, sender, completer, server>>

TxFifoSizeLessOne == TX_PKT_MAX - 1

\* The sizes network_init gives to tx_fifo and tx_pending.
TxFifoSize == TX_PKT_MAX
TxPendingSize == TX_DSC_CNT

\* send_frame: block b is queued for the send task.
send_frame(b) ==
    /\ Len(tx_fifo) < TxFifoSize
    /\ tx_fifo' = Append(tx_fifo, b)
    /\ UNCHANGED <<tx_pending, socket>>

EchoSend ==
    /\ receiver.pc = "send"
    /\ send_frame(receiver.reply)
    /\ receiver' = [receiver EXCEPT !.pc = "free", !.reply = NULL]
    /\ UNCHANGED <<pool, hw, sems, sender, completer, server>>

FreeFrame ==
    /\ receiver.pc = "free"
    /\ pool' = pkt_free_rx(pool, receiver.frame)
    /\ receiver' = [receiver EXCEPT !.pc = "wait", !.frame = NULL]
    /\ UNCHANGED <<hw, sems, queues, sender, completer, server>>

Receiver ==
    \/ ReceiveWait \/ ReceiveFrame \/ FreeFrame
    \/ Ignore \/ Echo \/ EchoSend \/ Datagram \/ Deliver

-----------------------------------------------------------------------------
(* The time server, network_send_task and network_send_complete_task.        *)

ServerGet ==
    /\ server.pc = "get" /\ socket > 0
    /\ socket' = socket - 1
    /\ server' = [server EXCEPT !.pc = "alloc"]
    /\ UNCHANGED <<pool, hw, sems, tx_fifo, tx_pending, receiver, sender, completer>>

\* Without a block for it, the request is dropped.
ServerAlloc ==
    LET a == pkt_alloc_tx(pool)
    IN  /\ server.pc = "alloc"
        /\ pool' = a.pool
        /\ server' = [pc |-> IF a.block = NULL THEN "get" ELSE "send", reply |-> a.block]
        /\ UNCHANGED <<hw, sems, queues, receiver, sender, completer>>

ServerSend ==
    /\ server.pc = "send"
    /\ send_frame(server.reply)
    /\ server' = [pc |-> "get", reply |-> NULL]
    /\ UNCHANGED <<pool, hw, sems, receiver, sender, completer>>

SendGet ==
    /\ sender.pc = "get" /\ tx_fifo # <<>>
    /\ tx_fifo' = Tail(tx_fifo)
    /\ sender' = [pc |-> "put", pkt |-> Head(tx_fifo)]
    /\ UNCHANGED <<pool, hw, sems, tx_pending, socket, receiver, completer, server>>

SendPut ==
    /\ sender.pc = "put" /\ Len(tx_pending) < TxPendingSize
    /\ tx_pending' = Append(tx_pending, sender.pkt)
    /\ sender' = [sender EXCEPT !.pc = "init"]
    /\ UNCHANGED <<pool, hw, sems, tx_fifo, socket, receiver, completer, server>>

init_tx_descriptor(t, b) == [t EXCEPT !.desc[t.current] = b, !.current = NextTx(@)]

SendInit ==
    /\ sender.pc = "init"
    /\ tx' = init_tx_descriptor(tx, sender.pkt)
    /\ sender' = [pc |-> "get", pkt |-> NULL]
    /\ UNCHANGED <<pool, rx, DMACSR, handling, sems, queues, receiver, completer, server>>

CompleteAtOnce ==
    /\ completer.pc = "wait"
    /\ completer' = [completer EXCEPT !.pc = "get"]
    /\ UNCHANGED <<pool, hw, sems, queues, receiver, sender, server>>

CompleteWait ==
    /\ completer.pc = "wait" /\ eth_tx_semaphore > 0
    /\ eth_tx_semaphore' = eth_tx_semaphore - 1
    /\ completer' = [completer EXCEPT !.pc = "get"]
    /\ UNCHANGED <<pool, hw, eth_rx_semaphore, queues, receiver, sender, server>>

CompleteGet ==
    /\ completer.pc = "get" /\ tx_pending # <<>>
    /\ tx_pending' = Tail(tx_pending)
    /\ completer' = [pc |-> "free", pkt |-> Head(tx_pending)]
    /\ UNCHANGED <<pool, hw, sems, tx_fifo, socket, receiver, sender, server>>

CompleteFree ==
    /\ completer.pc = "free"
    /\ pool' = pkt_free_tx(pool, completer.pkt)
    /\ completer' = [pc |-> "wait", pkt |-> NULL]
    /\ UNCHANGED <<hw, sems, queues, receiver, sender, server>>

Server == ServerGet \/ ServerAlloc \/ ServerSend
Sender == SendGet \/ SendPut \/ SendInit
Completer == CompleteWait \/ CompleteGet \/ CompleteFree

-----------------------------------------------------------------------------
Dma == DmaReceives \/ DmaReceivesStamped \/ DmaTransmits
Handler == EthSignals \/ EthClears

\* Tasks do not run while the handler does. What the program does after it took
\* a block from an empty list is undefined: the behaviours end there.
Next ==
    /\ ~pool.dry
    /\ \/ Dma \/ Handler
       \/ ~handling /\ (Receiver \/ Server \/ Sender \/ Completer)

Spec == Init /\ [][Next]_vars

\* The handler returns, and a kernel that loses no wakeup lets these tasks run.
\* Nothing is assumed of the DMA.
FairSpec ==
    /\ Spec
    /\ WF_vars(~pool.dry /\ Handler)
    /\ SF_vars(~pool.dry /\ ~handling /\ Receiver)
    /\ SF_vars(~pool.dry /\ ~handling /\ Server)
    /\ SF_vars(~pool.dry /\ ~handling /\ Sender)

-----------------------------------------------------------------------------
(* Properties.                                                               *)

\* What is in a hand that may be empty.
Held(b) == IF b = NULL THEN <<>> ELSE <<b>>

\* Every variable has its type: the FIFOs keep to their sizes, the semaphores to
\* the number of descriptors (network.c, ethernet.c).
TypeOK ==
    /\ pool \in [free : Seq(Block), rx_alloc_cnt : 0 .. RX_PKT_MAX,
                 tx_alloc_cnt : 0 .. TX_PKT_MAX, dry : BOOLEAN]
    /\ rx \in [desc : [RxIdx -> {"own", "frame", "stamped", "context"}],
               block : [RxIdx -> Block], current : RxIdx, dma : RxIdx]
    /\ tx \in [desc : [TxIdx -> Block \cup {NULL}], current : TxIdx, dma : TxIdx]
    /\ DMACSR \subseteq {"RI", "TI"} /\ handling \in BOOLEAN
    /\ eth_rx_semaphore \in 0 .. RX_DSC_CNT /\ eth_tx_semaphore \in 0 .. TX_DSC_CNT
    /\ tx_fifo \in Seq(Block) /\ Len(tx_fifo) <= TxFifoSize
    /\ tx_pending \in Seq(Block) /\ Len(tx_pending) <= TxPendingSize
    /\ socket \in 0 .. SOCKET_SIZE
    /\ receiver \in [pc : {"wait", "receive", "process", "deliver", "send", "free"},
                     frame : Block \cup {NULL}, reply : Block \cup {NULL}]
    /\ sender \in [pc : {"get", "put", "init"}, pkt : Block \cup {NULL}]
    /\ completer \in [pc : {"wait", "get", "free"}, pkt : Block \cup {NULL}]
    /\ server \in [pc : {"get", "alloc", "send"}, reply : Block \cup {NULL}]

\* The blocks out for transmission, wherever they are.
Transmitting ==
    Held(receiver.reply) \o Held(server.reply) \o tx_fifo
    \o (IF sender.pc = "put" THEN <<sender.pkt>> ELSE <<>>)
    \o tx_pending \o Held(completer.pkt)

\* No packet buffer is lost and none is in two hands: the free list, the receive
\* ring, the tasks and the queues hold every block exactly once (network.c's
\* pkt_alloc and pkt_free, ETH_receive_frame's exchange of blocks).
BlocksConserved ==
    LET all == pool.free \o [i \in 1 .. RX_DSC_CNT |-> rx.block[i - 1]]
               \o Held(receiver.frame) \o Transmitting
    IN  ~pool.dry => Len(all) = PKT_BUFFER_CNT /\ ToSet(all) = Block

\* The counts the caps are compared with are the numbers of blocks out in each
\* direction (rx_alloc_cnt and tx_alloc_cnt in network.c).
AllocCounts ==
    ~pool.dry =>
        /\ pool.rx_alloc_cnt = RX_DSC_CNT + Len(Held(receiver.frame))
        /\ pool.tx_alloc_cnt = Len(Transmitting)

\* ETH_receive_frame is only reached when the current descriptor holds a frame:
\* it never looks at one the DMA still owns, nor takes a time stamp for a frame.
ReadsCompleteFrames ==
    receiver.pc = "receive" /\ ~pool.dry => rx.desc[rx.current] \in {"frame", "stamped"}

\* The blocks the DMA has yet to send, in its order.
InFlight ==
    [k \in 1 .. Cardinality({i \in TxIdx : tx.desc[i] # NULL})
        |-> tx.desc[(tx.dma + k - 1) % TX_DSC_CNT]]

\* tx_pending lists the packets in the order of their descriptors: what the DMA
\* owns is its end, so the completion task only frees what was sent; and a
\* descriptor is not filled before the DMA is done with it (network_send_task,
\* network_send_complete_task, init_tx_descriptor).
TransmitRing ==
    LET handed == IF sender.pc = "init" THEN Front(tx_pending) ELSE tx_pending
        owed == eth_tx_semaphore + (IF completer.pc = "get" THEN 1 ELSE 0)
    IN  /\ IsSuffix(InFlight, handed)
        /\ owed + Len(InFlight) <= Len(handed)
        /\ sender.pc = "init" => tx.desc[tx.current] = NULL

\* send_frame never blocks: the cap on blocks leaves a place in tx_fifo for each
\* of them (network.c:54 against 334), so neither the receive task nor the
\* server waits for the transmitter.
SendNeverBlocks ==
    (receiver.pc = "send" \/ server.pc = "send") => Len(tx_fifo) < TxFifoSize

\* A frame in the hands of network_receive_task is finished with, whatever the
\* transmitter does and however full the server's socket is (network.c:71-86).
ReceiverReturns == receiver.pc # "wait" ~> (receiver.pc = "wait" \/ pool.dry)

\* network.c:74: "receive packets until no more are ready". When all is signalled
\* and the receive task waits again, no frame is left in the ring.
NoFrameLeft ==
    receiver.pc = "wait" /\ eth_rx_semaphore = 0 /\ DMACSR = {} /\ ~handling
        => rx.desc[rx.current] = "own"

\* An allocation below its cap gets a block: pkt_alloc_rx "allocates a block and
\* returns a pointer to the first byte" (network.c:312). It does not hold of the
\* program: its caps, 16 and 16, let 8 descriptors, the receive task and 16 replies
\* ask for 25 blocks of a pool of 20 (network.h:145-147).
PoolNeverDry == ~pool.dry
=============================================================================
