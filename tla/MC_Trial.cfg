SPECIFICATION ClockSpec
CONSTANTS
    None = None
    NoWriteId = None
    Node <- MCNode
    Key <- MCKey
    Quorum <- MCQuorum
    Ticks <- MaySteps
INVARIANTS
    LevelsWhileMonotone
    DecidedWhileMonotone
    RecordedIsReplayed
PROPERTIES
    VerdictIsReal
CHECK_DEADLOCK FALSE
