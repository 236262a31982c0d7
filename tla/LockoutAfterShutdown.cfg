SPECIFICATION Spec
CONSTANTS
    Parameters <- MCParameters
    PreInstall <- MCPreInstall
    MaxIdle = 1
    Cap = 3
    LockCap = 2
INVARIANTS
    HealingIsAlwaysEarned
