SPECIFICATION FairSpec
CONSTANTS
    w1 = w1
    w2 = w2
    w3 = w3
    Workers = {w1, w2, w3}
    EvalThreads = {}
    enable_async = FALSE
    enable_background_search = TRUE
    Timed = TRUE
    MaxSims = 2
    QueueSize = 1
INVARIANTS
    IInv
    WaitGroupsNeverThrow
    BoundedOverrun
PROPERTIES
    ImplementsPhases
    CallsReturn
CHECK_DEADLOCK FALSE
