SPECIFICATION JobSpec
CONSTANTS
    None = None
    c1 = c1
    c2 = c2
    x = x
    y = y
    Client <- MCClient
    Key <- MCKey
    MaxVersion = 2
    MaxLength = 4
    Histories <- MCHistories
INVARIANTS
    AnswerIsVerdict
    WitnessIsFirst
    AnyMatchingCause
    AuditFindsInversions
PROPERTIES
    ViolationIsFinal
CHECK_DEADLOCK FALSE
