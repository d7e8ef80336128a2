SPECIFICATION AsmSpec
CONSTANT capacity = 48
INVARIANT WithinCapacity
