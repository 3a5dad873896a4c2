SPECIFICATION Spec
CONSTANTS
    Script = {p, q}
    MaxNum = 1
    MaxUnit = 3
    MaxPppd = 2
SYMMETRY Symmetry
INVARIANTS
    TypeOK
    UniqueUnits
    ListComplete
    OnePppd
CHECK_DEADLOCK FALSE
