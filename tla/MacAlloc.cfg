SPECIFICATION Spec
CONSTANTS
    Ifaces <- MCIfaces
    Base = {"zero", "b1", "b2"}
    BadBase = "zero"
    Draw = {3, 229}
    MaxEdits = 1
    MaxTears = 1
INVARIANTS
    TypeOK
    UniqueMacs
    NoneWasted
    AllHaveMac
