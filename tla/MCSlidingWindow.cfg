SPECIFICATION Spec
CONSTANTS
    capacity = 13
    BAL_SLIDING_WINDOW_CAPACITY = 3
    Opcodes <- LoweredOpcodes
    Modulus = 3
INVARIANTS
    TypeOK
    SameEffect
PROPERTY ErrorIsFinal
