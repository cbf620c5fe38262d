SPECIFICATION Spec
CONSTANTS
    NumberOfStages = 3
    Workers = {w1, w2}
    Producers = {p1}
    Script <- MCScript
    EntryStage <- MCEntryStage
    Route <- MCRoute
    MayThrow = TRUE
CHECK_DEADLOCK FALSE
INVARIANTS
    TypeOK
    RefCountExact
    AtMostOnce
    NothingLost
