SPECIFICATION Spec
CONSTANTS
    RecordChars = {7, 8, 10, 32, 34, 35, 48, 55, 61, 92, 97, 110, 127, 128, 255}
    MaxRecord = 2
    PatternChars = {42, 92, 97, 98}
    MaxPattern = 4
CHECK_DEADLOCK FALSE
INVARIANTS
    RecordReadsBack
    MatchesAsDocumented
