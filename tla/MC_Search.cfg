SPECIFICATION JobSpec
CONSTANTS
    INF = 1000000
    MATE = 30000
    Position <- MCPosition
    Games <- MCGames
    Depth = 3
    MaxNodes = 12
    Splits = {1, 2, 3}
    NumRanks = 2
    NumThreads = 2
    ChunkDepths = {1, 2, 3}
    Trees <- MCTrees
    MaxDepth = 3
INVARIANTS
    SerialIsExact
    SameAnswer
    StackFits
    ReturnsMinimax
    TraversesLikeNegamax
    OffloadIsExact
PROPERTIES
    SearchTerminates
CHECK_DEADLOCK FALSE
