SPECIFICATION Spec
CONSTANTS
    a = a
    b = b
    u = u
    NULL = NULL
    IdleThread = IdleThread
    Thread = {a, b, u}
    Sem = {}
    PRIORITY_LVL_CNT = 2
    Priority <- MCPriority
    W = 5
    K = 2
    Duration = {1, 2}
    MaxLate = 0
SYMMETRY PeerSymmetry
INVARIANTS TypeOK SleepListExact RingsUntilRace AlarmSetForHead
PROPERTY EarlyOnlyIfStale
