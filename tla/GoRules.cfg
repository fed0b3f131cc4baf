SPECIFICATION Spec
CONSTANTS
    Rows = 2
    Columns = 3
    SIZE_HISTORYEACHSIDE = 4
    Komi = 1
    MaxMoves = 6
INVARIANTS
    BlocksAreChains
    PoolAccounted
    LegalMovesJustified
    NoRecapture
    FeaturesShowHistory
    HashNamesPosition
    ScoreIsArea
CHECK_DEADLOCK FALSE
