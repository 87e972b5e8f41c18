SPECIFICATION ClockSpec
CONSTANTS
    None = None
    NoWriteId = None
    Node <- MCNode
    Key <- MCKey
    Quorum <- MCQuorum
    Ticks <- MaySteps
INVARIANTS
    StrongLevelsHold
CHECK_DEADLOCK FALSE
