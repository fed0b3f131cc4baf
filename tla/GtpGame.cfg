SPECIFICATION MainSpec
CONSTANTS
    Rows = 1
    Columns = 2
    SIZE_HISTORYEACHSIDE = 2
    Komi = 0
    MaxMoves = 6
    Configs <- MCConfigs
    DefaultConfig <- MCDefaultConfig
    InitMoves <- MCInitMoves
    NULL = NULL
    MaxCommands = 3
    single_thread = 2
    GameLimit = 3
INVARIANTS
    RecordIsGame
    ClockOfPlayerToMove
    PendingConfigTaken
    ResultOfGame
PROPERTY
    RecordChangesByOneMove
CHECK_DEADLOCK FALSE
