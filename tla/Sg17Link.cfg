CONSTANTS
    MaxRate = 2
    MaxNfc = 2
SPECIFICATION LinkSpec
INVARIANTS
    LinkTypeOK
    AppliedIsSetUp
    RateIsAgreed
PROPERTIES
    Restarts
    CarrierFalls
    CarrierRises
