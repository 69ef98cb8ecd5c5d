SPECIFICATION Spec
CONSTANTS
    Block = {b1, b2, b3, b4, b5}
    RX_PKT_MAX = 4
    TX_PKT_MAX = 3
    RX_DSC_CNT = 2
    TX_DSC_CNT = 2
    SOCKET_SIZE = 1
    NULL = NULL
SYMMETRY BlockSymmetry
INVARIANTS
    NoFrameLeft
CHECK_DEADLOCK FALSE
