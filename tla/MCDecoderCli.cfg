SPECIFICATION Spec
CONSTANT Words <- TableWords
INVARIANTS
    LookupIsComplete
    SameOperation
    OperandsAreWhereRead
\* The command ends after one word.
CHECK_DEADLOCK FALSE
