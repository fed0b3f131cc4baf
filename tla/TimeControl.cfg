SPECIFICATION Spec
CONSTANTS
    Configs <- AllConfigs
    TimeSettings <- Settings
    MaxMoves = 4
    MaxIdle = 2
    MaxCommands = 3
INVARIANTS
    ClockAgrees
    TimeKept
CHECK_DEADLOCK FALSE
