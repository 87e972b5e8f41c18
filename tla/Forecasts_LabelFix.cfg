SPECIFICATION Spec
CONSTANT
    MaxKills = 0
INVARIANT
    RescoredOnFixedLabels
CHECK_DEADLOCK FALSE
