SPECIFICATION Spec
CONSTANTS
    Caches = {"prefill", "decode", "vision", "other"}
    Names <- MCNames
    DeviceLimit = 2
    Caps = {0, 1}
    NoContext = NoContext
    Dirs = {"prefill", "decode", "vision"}
    Kernels <- MCKernels
    Plans <- MCPlans
    MaxTool = 2
    Deletable <- MCDeletable
    Rollback = FALSE
    NLayers = 2
    MaxRequests = 2
    MaxTokens = 1
    Apps = {"llama", "vision"}
INVARIANTS
    CacheInv
    ContextsAgree
    Capped
    Launchable
    StoreInv
    ServesFresh
    ResultCorrect
    OpenFresh
PROPERTIES
    EvictsOldest
    RequestEnds
