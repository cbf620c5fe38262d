SPECIFICATION Spec
CONSTANTS
    NumberOfStages = 3
    Producers = {p1}
    Script <- MCScript
    EntryStage <- MCEntryStage
    Route <- MCRoute
    MayThrow = TRUE
    MaxConcurrency <- MCMaxConcurrency
    MaxNumberOfThreads = 2
    HardwareConcurrency = 2
CHECK_DEADLOCK FALSE
INVARIANTS
    TypeOK
    FunctorConcurrency
PROPERTIES
    KeepsProtocol
    ImplementsPipeline
