SPECIFICATION Spec
CONSTANTS
    NumberOfStages = 2
    Producers = {p1}
    Script <- MCScript
    EntryStage <- MCEntryStage
    Route <- MCRoute
    MayThrow = TRUE
    MaxConcurrency <- MCMaxConcurrency
    MaxNumberOfThreads = 2
    HardwareConcurrency = 2
    Beyond = {0, 2}
CHECK_DEADLOCK FALSE
INVARIANTS
    TypeOK
    NeverForgotten
    LaterStagesRespected
PROPERTIES
    ServedUnlessDropped
    StopEndsBatches
