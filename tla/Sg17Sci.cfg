SPECIFICATION Spec
CONSTANTS
    Proc = {p, q}
    Id = {i, j}
    MaxCmds = 3
    MaxQueue = 2
CHECK_DEADLOCK FALSE
INVARIANTS
    TypeOK
    OwnAnswer
    WokenByAnswer
    FramesWhole
PROPERTY
    CommandReturns
