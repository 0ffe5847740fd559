SPECIFICATION LookupSpec
CONSTANTS
    Requests = {r1, r2}
    Names = {"doc", "Doc", "kal", "?"}
    Fold <- MCFold
    NoName = "no name"
    FreshFor = 2
    MissingFor = 1
    MaxFetches = 1
    MaxTime = 3
INVARIANTS
    MemoryIsTrue
PROPERTIES
    KroosterIsSpared
    EveryLookupEnds
CHECK_DEADLOCK FALSE
