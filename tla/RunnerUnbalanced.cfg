SPECIFICATION Spec
CONSTANTS
    Programs <- MCUnbalanced
    UIntMod = 1073741824
INVARIANT LatencyHonest
CHECK_DEADLOCK FALSE
