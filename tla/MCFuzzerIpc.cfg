SPECIFICATION Spec
CONSTANT INPUT_PARTS = 2
INVARIANTS
    MatchIsReal
    NothingLeftBehind
PROPERTIES
    CoordinatorEnds
    WorkersFollow
\* The three processes end.
CHECK_DEADLOCK FALSE
