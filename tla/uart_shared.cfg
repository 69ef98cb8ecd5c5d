SPECIFICATION Spec
CONSTANTS
    Writer = {w1, w2}
    Size = 2
    HwSize = 2
    Char = {x, y}
    NULL = NULL
PROPERTY ImplementsQueue
