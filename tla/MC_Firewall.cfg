SPECIFICATION Spec
CONSTANTS
    a = a
    b = b
    Hook = Hook
    OwnRule <- MCOwnRule
    Others <- MCOthers
    NoChain = NoChain
    MaxEnables = 3
    MaxLockFailures = 2
    MaxKills = 2
INVARIANTS
    IsolatedDrops
    HealedPasses
    OthersUntouched
PROPERTIES
    HealingCleans
