SPECIFICATION Spec
CONSTANTS
    NumberOfStages = 2
    Producers = {p1}
    Script <- MCScript
    EntryStage <- MCEntryStage
    Route <- MCRoute
    MayThrow = TRUE
    MaxConcurrency <- MCMaxConcurrency
    MaxNumberOfThreads = 2
    HardwareConcurrency = 2
    TableSizeFactor = 1
    Chosen = {"RoundRobin", "SRPT", "RandomVisit", "ThreadPerStage"}
CHECK_DEADLOCK FALSE
INVARIANT TypeOK
PROPERTY
    ServesThenStops
