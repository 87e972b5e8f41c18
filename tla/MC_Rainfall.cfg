SPECIFICATION JobSpec
CONSTANTS
    Size <- MCSize
    MaxAttempts = 2
    MaxKills = 2
    Key = {"a", "b"}
    MaxUpdate = 2
    MaxRows = 3
    Days = 7
    NewYear = 4
    StuckMinWetDays = 2
    RepeatMinDays = 2
    RepeatMaxGapDays = 4
    DayBuffer = 1
    Station = {"S1", "S2"}
    Own = "S1"
    HistorySlots = 3
    FutureSlots = 2
    RichSlots = 4
    Slots = 8
    MaxIrregular = 2
    Row = {r1, r2, r3, r4}
    Top = 3
    Sample = {q1, q2, q3, q4}
    J = 3
    N = 4
    Grades = 3
    V = 3
    MaxWeight = 2
    Dirs = {"A", "B"}
    Families = {"ziln", "tweedie"}
    MaxScripts = 4
    MaxCut = 2
    PatternSlots = 7
    HourSlots = 2
    ClassEdges = {1, 3}
INVARIANTS
    PublishedIsWhole
    CountsMatchWritten
    MaskIsRules
    NeighboursArePast
    CompleteIsGapless
    ReportIsConsistent
    
    BestIsMaximal
    ForecastsAreExact
PROPERTY
    EventuallyPublished
CHECK_DEADLOCK FALSE
