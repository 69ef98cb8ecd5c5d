SPECIFICATION FairSpec
CONSTANTS
    HEAP_ADDR_LEN = 4
    HEAP_ADDR_MIN_LEN = 1
    Request = {1, 3, 8, 17}
    NULL = NULL
    BRANCH_NODE = BRANCH_NODE
INVARIANTS
    TypeOK
    TreeExact
    BlocksDisjoint
PROPERTIES
    ImplementsBlocks
    CallsReturn
