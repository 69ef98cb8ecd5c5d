SPECIFICATION FairSpec
CONSTANTS
    Writer = {w}
    Size = 3
    HwSize = 2
    Char = {x, y}
    NULL = NULL
INVARIANT TypeOK
PROPERTIES
    ImplementsQueue
    KeepsSending
