SPECIFICATION Spec
CONSTANTS
    NumberOfStages = 3
    Producers = {p1}
    Script <- MCScript
    EntryStage <- MCEntryStage
    Route <- MCRoute
    MayThrow = FALSE
    MaxConcurrency <- MCMaxConcurrency
    MaxNumberOfThreads = 1
    HardwareConcurrency = 1
    TableSizeFactor = 1
    Chosen = {"SRPT"}
CHECK_DEADLOCK FALSE
PROPERTY FlagTracksMessages
