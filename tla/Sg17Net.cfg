SPECIFICATION Spec
CONSTANTS
    SW_RING_MASK = 2
    HW_RING_MASK = 2
    MayFail = TRUE
INVARIANTS
    TypeOK
    DmaSafe
    RxFed
    ClosedIsQuiet
PROPERTY
    TxResumes
