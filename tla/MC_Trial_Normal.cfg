SPECIFICATION ClockSpec
CONSTANTS
    None = None
    NoWriteId = None
    Node <- MCNode
    Key <- MCKey
    Quorum <- MCQuorum
    Ticks <- Increasing
INVARIANTS
    NoViolationExpected
CHECK_DEADLOCK FALSE
