SPECIFICATION Spec
CONSTANTS
    w1 = w1
    w2 = w2
    w3 = w3
    e1 = e1
    e2 = e2
    Workers = {w1, w2}
    EvalThreads = {e1, e2}
    enable_async = TRUE
    enable_background_search = TRUE
    Timed = TRUE
    MaxSims = 1
    QueueSize = 2
INVARIANTS
    Quiescent
PROPERTIES ImplementsPhases
SYMMETRY Symmetry
CHECK_DEADLOCK FALSE
