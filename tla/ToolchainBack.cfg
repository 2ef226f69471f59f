SPECIFICATION Spec
CONSTANTS
    Caches = {"prefill", "decode", "vision", "other"}
    Names <- MCNames
    DeviceLimit = 2
    Caps = {0}
    NoContext = NoContext
    Dirs = {"prefill", "decode", "vision"}
    Kernels <- MCKernels
    Plans <- MCPlans
    MaxTool = 2
    Deletable = {}
    Rollback = TRUE
    NLayers = 1
    MaxRequests = 0
    MaxTokens = 0
    Apps = {"vision"}
INVARIANTS
    ServesFresh
