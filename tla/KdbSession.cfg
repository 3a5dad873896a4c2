SPECIFICATION Spec
CONSTANTS
    Name = {1, 2, 3, 4}
    Value = {a, b}
    List = {list_}
    Item <- MCItem
    MAX_LINES = 3
    Pattern <- MCPattern
    NewKey = {1, 2, 3, 4}
    KdbFiles <- MCKdbFiles
INVARIANTS
    TypeOK
    UniqueNames
    NoBlindWrite
    ImportStartsEmpty

    
