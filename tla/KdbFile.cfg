SPECIFICATION Spec
CONSTANTS
    Name = {1, 2}
    Value = {a, b}
    List = {}
    Item <- MCItem
    MAX_LINES = 2
    Proc = {p, q}
    NoProc = NoProc
    KdbFiles <- MCKdbFiles
    MaxCmds = 2
    MayCreate = TRUE
    MayKill = TRUE
SYMMETRY Symmetry
CONSTRAINT Untainted
INVARIANTS
    TypeOK
    SerialUnlessTainted
    ReadsLatest
PROPERTY
    NoLostUpdate
