SPECIFICATION Spec
CONSTANTS
    a = a
    b = b
    c = c
    u = u
    items = items
    space = space
    lock = lock
    burst = burst
    NULL = NULL
    IdleThread = IdleThread
    Thread = {a, b, u}
    Sem = {items}
    CSem = {items}
    Mutex = {}
    Event = {}
    IsrCSem = {items}
    PRIORITY_LVL_CNT = 2
    MaxValue = 1
    Priority <- MCPriority
    InitValue <- MCInitValue
INVARIANT NoLostWakeup
