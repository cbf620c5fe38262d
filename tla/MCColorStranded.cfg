SPECIFICATION Spec
CONSTANTS
    NumberOfStages = 2
    Producers = {p1}
    Script <- MCScript
    EntryStage <- MCEntryStage
    Route <- MCRoute
    MayThrow = FALSE
    MaxConcurrency <- MCMaxConcurrency
    MaxNumberOfThreads = 2
    HardwareConcurrency = 2
    Beyond = {0}
CHECK_DEADLOCK FALSE
PROPERTY EverythingServed
