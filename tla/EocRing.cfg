SPECIFICATION Spec
CONSTANTS
    RING_SIZE = 3
    MAX_SBUFS = 2
    Reader = {p, q}
    MaxMsgs = 4
    MaxFrags = 3
CHECK_DEADLOCK FALSE
INVARIANTS
    TypeOK
    DamageConfined
    InOrder
PROPERTY
    ImplementsQueue
