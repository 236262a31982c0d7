SPECIFICATION FairSpec
CONSTANTS
    Parameters <- MCParameters
    PreInstall <- MCPreInstall
    MaxIdle = 1
    Cap = 3
    LockCap = 2
INVARIANTS
    TypeOK
    LockoutAssertionHolds
    FailuresAreCounted
    HealingIsEarned
PROPERTIES
    LockoutEnds
