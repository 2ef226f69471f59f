SPECIFICATION Spec
CONSTANTS
    Programs <- MCPrograms
    UIntMod = 1073741824
INVARIANTS
    RunnerTypeOK
    TilesSound
    BooksAgree
    LatencyHonest
PROPERTIES
    NoOvertaking
    EndsAsExpected
CHECK_DEADLOCK FALSE
