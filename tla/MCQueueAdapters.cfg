SPECIFICATION Spec
CONSTANTS
    NumberOfStages = 5
    Adapter = 2
    Inputs <- MCInputs
    PassThrough = {3}
    Functor = {"pf1", "pf2", "pf3", "pf4"}
    Functors <- MCFunctors
    Dispatches <- MCDispatches
    MaxConcurrency <- MCMaxConcurrency
    Workers = {w1, w2}
    Producers = {"p1", "p2"}
    Script <- MCScript
SYMMETRY MCSymmetry
CHECK_DEADLOCK FALSE
INVARIANTS
    TypeOK
    RefCountExact
    OneFunctorAtATime
    InputsTakeTurns
    FoundIfThere
    ExactlyOnce
