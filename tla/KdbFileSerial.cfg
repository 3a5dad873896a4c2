SPECIFICATION Spec
CONSTANTS
    Name = {1, 2}
    Value = {a, b}
    List = {}
    Item <- MCItem
    MAX_LINES = 2
    Proc = {p, q}
    NoProc = NoProc
    KdbFiles <- MCKdbFiles
    MaxCmds = 1
    MayCreate = FALSE
    MayKill = FALSE
INVARIANTS
    Serial
