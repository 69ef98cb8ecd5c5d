SPECIFICATION Spec
CONSTANTS
    HEAP_ADDR_LEN = 4
    HEAP_ADDR_MIN_LEN = 1
    Request = {3, 16}
    NULL = NULL
    BRANCH_NODE = BRANCH_NODE
INVARIANT BlocksDisjoint
