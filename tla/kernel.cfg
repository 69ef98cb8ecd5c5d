SPECIFICATION FairSlottedSpec
CONSTANTS
    a = a
    b = b
    c = c
    u = u
    items = items
    space = space
    lock = lock
    burst = burst
    NULL = NULL
    IdleThread = IdleThread
    Thread = {a, b, c, u}
    Sem = {items}
    CSem = {items}
    Mutex = {}
    Event = {}
    IsrCSem = {items}
    PRIORITY_LVL_CNT = 2
    MaxValue = 1
    Priority <- MCPriority
    InitValue <- MCInitValue
INVARIANTS TypeOK KernelInv RingsExact CountsExact OneRunning
PROPERTIES MostUrgentNext ImplementsRunQueues RoundRobin
