SPECIFICATION FairSpec
CONSTANTS
    N = 3
    MaxAttempts = 1
    Faulty <- AnyRank
    None = None
INVARIANTS
    TypeOK
    AllMapped
    InStep
PROPERTIES
    Established
    OnlyAcceptHangs
