SPECIFICATION Spec
CONSTANTS
    a = a
    b = b
    u = u
    NULL = NULL
    IdleThread = IdleThread
    Thread = {a, b, u}
    Sem = {}
    PRIORITY_LVL_CNT = 2
    Priority <- MCPriority
    W = 17
    K = 2
    Duration = {2, 3}
    MaxLate = 4
INVARIANT NoOversleep
