SPECIFICATION FairSpec
CONSTANTS
    p1 = p1
    p2 = p2
    e1 = e1
    e2 = e2
    k1 = k1
    k2 = k2
    none = none
    SearchThreads = {p1, p2}
    EvalThreads = {e1, e2}
    Positions = {k1, k2}
    Configs <- AllModes
    MaxTasks = 4
    capacity = 1
    m_max_eval_cache_size = 1
INVARIANTS
    TypeOK
    OneCopyOfEachTask
    NoLostWakeup
    OverfillBounded
    StubsConserved
    CacheConsistent
PROPERTIES
    EvaluationsArrive
    EvalThreadsTerminate
CHECK_DEADLOCK FALSE
