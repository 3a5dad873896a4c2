SPECIFICATION FairSpec
CONSTANTS
    Name = {1}
    Value = {a}
    List = {}
    Item <- MCItem
    MAX_LINES = 1
    Proc = {p, q}
    NoProc = NoProc
    KdbFiles <- MCKdbFiles
    MaxCmds = 1
    MayCreate = TRUE
    MayKill = TRUE
PROPERTY
    RunsEnd
