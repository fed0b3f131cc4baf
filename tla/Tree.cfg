SPECIFICATION Spec
CONSTANTS
    w1 = w1
    w2 = w2
    a = a
    b = b
    nullptr = nullptr
    c1 = c1
    Workers = {w1, w2}
    Callbacks = {c1}
    AsyncThreads = 1
    Moves = {a, b}
    GameLength = 2
    Values = {1}
    MaxSims = 1
    MaxTreeSize = 5
    MaxRoots = 2
    MaxVisits = 2
SYMMETRY Symmetry
INVARIANTS
    TypeOK
    VirtualLossBalanced
    StatisticsAddUp
    OneExpander
    ChildrenBeforeState
    NodesOwnedOnce
CHECK_DEADLOCK FALSE
