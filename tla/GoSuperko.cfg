SPECIFICATION Spec
CONSTANTS
    Rows = 1
    Columns = 4
    SIZE_HISTORYEACHSIDE = 4
    Komi = 1
    MaxMoves = 6
INVARIANT
    NoRepetition
CHECK_DEADLOCK FALSE
