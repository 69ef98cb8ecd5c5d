SPECIFICATION Spec
CONSTANTS
    Producer = {p1, p2}
    Consumer = {c1, c2}
    Size = 2
    Value = {x, y}
    NULL = NULL
INVARIANTS
    TypeOK
    PlacesConserved
    Exclusive
PROPERTY ImplementsQueue
