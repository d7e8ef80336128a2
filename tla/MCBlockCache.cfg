SPECIFICATION CacheSpec
CONSTANTS
    BLOCK_CACHE_SETS = 8
    BLOCK_CACHE_WAYS = 2
    Pc <- MCPc
    Code = {h1, h2}
    NULL = NULL
INVARIANTS
    WellFormed
PROPERTIES
    NeverLies
    PinnedWays
