SPECIFICATION FairSpec
CONSTANTS
    w1 = w1
    w2 = w2
    w3 = w3
    e1 = e1
    e2 = e2
    Workers = {w1, w2}
    EvalThreads = {e1}
    enable_async = TRUE
    enable_background_search = FALSE
    Timed = TRUE
    MaxSims = 1
    QueueSize = 1
PROPERTIES CallsReturn
CHECK_DEADLOCK FALSE
