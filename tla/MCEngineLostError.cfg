SPECIFICATION Spec
CONSTANTS
    BLOCK_CACHE_SETS = 2
    BLOCK_CACHE_WAYS = 1
    SENTINEL = SENTINEL
    NULL = NULL
    Code <- Offset
    Pc <- JumpPc
    Guest <- JumpGuest
    capacity = 85
    Mapping = "rwx"
    HostOps = {}
    HostFlags = {}
    InitialFlags = {{}}
    MaxPatches = 0
INVARIANTS
    ErrorIsReported
CHECK_DEADLOCK FALSE
