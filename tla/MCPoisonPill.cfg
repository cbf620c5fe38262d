SPECIFICATION Spec
CONSTANTS
    NumberOfStages = 4
    EntryStage = 0
    Route <- MCRoute
    Main = main
    Lines <- MCLines
    Pill = "pill"
CHECK_DEADLOCK FALSE
INVARIANT LinesBeforeStop
PROPERTY Ends
