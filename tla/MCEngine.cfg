SPECIFICATION Spec
CONSTANTS
    BLOCK_CACHE_SETS = 2
    BLOCK_CACHE_WAYS = 1
    SENTINEL = SENTINEL
    NULL = NULL
    Code <- Offset
    Pc <- LoopPc
    Guest <- LoopGuest
    capacity = 91
    Mapping = "rwx"
    HostOps = {"stop", "clear", "patch"}
    HostFlags = {"INTERRUPT_PENDING", "SINGLE_STEP"}
    InitialFlags = {{}, {"DISABLE_BLOCK_CACHE"}}
    MaxPatches = 1
INVARIANTS
    DispatchSound
    ClearTakesEffect
    GuestErrorIsReported
PROPERTIES
    StopEnds
    InterruptYields
    ClearServed
