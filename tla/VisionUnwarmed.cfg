SPECIFICATION Spec
CONSTANTS
    Caches = {"prefill", "decode", "vision", "other"}
    Names <- MCNames
    DeviceLimit = 5
    Caps = {0}
    NoContext = NoContext
    Dirs = {"prefill", "decode", "vision"}
    Kernels <- MCKernels
    Plans <- MCPlans
    MaxTool = 1
    Deletable = {}
    Rollback = FALSE
    NLayers = 1
    MaxRequests = 2
    MaxTokens = 0
    Apps = {"vision"}
INVARIANTS
    EncodesRight
