SPECIFICATION Spec
CONSTANT
    MaxKills = 1
INVARIANT
    ScoresTheSameRows
CHECK_DEADLOCK FALSE
