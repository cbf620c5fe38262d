SPECIFICATION Spec
CONSTANTS
    NumberOfStages = 2
    Producers = {p1, p2}
    Script <- MCTwoMessages
    EntryStage <- MCSecond
    Route <- MCRoute
    MayThrow = FALSE
    MaxConcurrency <- MCMaxConcurrency
    MaxNumberOfThreads = 1
    HardwareConcurrency = 1
CHECK_DEADLOCK FALSE
PROPERTY CountersGrow
