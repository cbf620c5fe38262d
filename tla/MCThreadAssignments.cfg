SPECIFICATION Spec
CONSTANTS
    Threads = {t1, t2, t3}
    NumberOfStages = 2
    MaxConcurrency <- MCMaxConcurrency
SYMMETRY Symmetry
INVARIANTS
    TypeOK
    VisitorCountExact
    ConcurrencyRespected
PROPERTY ImplementsSlots
