SPECIFICATION Spec
CONSTANTS
    Arm = {0, 1, 2, 3, 31}
    SCRATCH_REGISTERS <- FourScratch
    CURSOR_RANGE = 3
INVARIANTS
    TypeOK
    MapsConsistent
    NoLostWrite
    OperandsIntact
