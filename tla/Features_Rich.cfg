SPECIFICATION Spec
CONSTANTS
    Station = {"S1"}
    Own = "S1"
    HistorySlots = 12
    FutureSlots = 6
    RichSlots = 36
    Slots = 20
    MaxIrregular = 1
INVARIANT
    RichIsPast
CHECK_DEADLOCK FALSE
