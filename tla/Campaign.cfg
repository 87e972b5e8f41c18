SPECIFICATION Spec
CONSTANTS
    Total = 2
    MaxSignals = 2
INVARIANTS
    StartsAsPlanned
    EvidenceHolds
    RecoveryIsReal
    CompletionIsHonest
PROPERTIES
    RunEnds
CHECK_DEADLOCK FALSE
