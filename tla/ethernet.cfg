SPECIFICATION FairSpec
CONSTANTS
    Block = {b1, b2, b3, b4}
    RX_PKT_MAX = 3
    TX_PKT_MAX = 2
    RX_DSC_CNT = 2
    TX_DSC_CNT = 2
    SOCKET_SIZE = 1
    NULL = NULL
INVARIANTS
    TypeOK
    BlocksConserved
    AllocCounts
    ReadsCompleteFrames
    TransmitRing
    SendNeverBlocks
PROPERTY ReceiverReturns
CHECK_DEADLOCK FALSE
