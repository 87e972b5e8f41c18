SPECIFICATION JobSpec
CONSTANTS
    Known <- MCKnown
    Unknown = {"N9"}
    Client = {"A", "B"}
    Options <- MCOptions
    MaxSteps = 3
    Explicit = {2}
    MaxJobs = 3
    MaxDepth = 2
    MaxMishaps = 2
INVARIANTS
    FaultIsSustained
    RecordedOnce
    NeverRerouted
    ControlsTookEffect
    PassIsMeasured
CHECK_DEADLOCK FALSE
