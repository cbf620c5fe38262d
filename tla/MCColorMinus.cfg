SPECIFICATION Spec
CONSTANTS
    NumberOfStages = 2
    Producers = {p1}
    Script <- MCOneMessage
    EntryStage <- MCFirst
    Route <- MCRoute
    MayThrow = TRUE
    MaxConcurrency <- MCMaxConcurrency
    MaxNumberOfThreads = 2
    HardwareConcurrency = 2
CHECK_DEADLOCK FALSE
INVARIANTS
    TypeOK
    NeverForgotten
PROPERTY ServedUnlessMisjudged
