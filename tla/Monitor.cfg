SPECIFICATION FairSpec
CONSTANTS
    MaxResumes = 3
    MaxEngines = 2
    SearchThreads = {w1}
    Completing = {e1}
    Caller = caller
    MaxUpdates = 3
INVARIANTS
    ThrowsOnlyIfNeverResumed
    QuietWhilePaused
    EveryResumeSeen
    UpdatesCounted
PROPERTY MonitorCallsReturn
CHECK_DEADLOCK FALSE
