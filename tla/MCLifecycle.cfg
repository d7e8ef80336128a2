SPECIFICATION Spec
CONSTANTS
    Engines = {a, b}
    Processes = {p, q}
    Busy = {a}
    MaxInits = 2
    MaxCrashes = 1
    BUFFER_SIZE = 5
    ENTRY_CAPACITY = 2
    ARENA_CAPACITY = 4
    MAX_MAPPINGS = 2
    JumpOffsets = {8}
INVARIANTS
    TypeOK
    NothingFreedTwice
    
    FaultsAreBlamedRightly
PROPERTY NameIsReleased
