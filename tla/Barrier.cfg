SPECIFICATION FairSpec
CONSTANTS
    N = 4
    MaxCalls = 2
    Faulty <- AnyRank
INVARIANTS
    IndInv
    BarrierHolds
    NobodyAborts
PROPERTIES
    NobodyHangs
