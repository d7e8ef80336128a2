SPECIFICATION Spec
CONSTANTS
    Programs <- ThreeWords
    Starts = {0, 2, 4, 10}
    Limits = {1, 2, 9}
    FlagSets <- SomeFlags
    Cpus <- TwoCpus
    PAGE = 2
    LONG_FROM = 8
    Modulus = 16
    HALF = 4
    WINDOW_CAPACITY = 4
    MAX_MAPPINGS = 2
INVARIANTS
    MatchesGuest
    ReturnsUnlessTaken
    Counts
    MappingsUsable
    LimitHolds
PROPERTY TranslateEnds
