\* Power cycles of every kind, the change of the slot mask at a TPM Reset, and
\* wraps of the low-order bits under both masks. The mask before the Reset is the
\* wide one here: the histories of contexts are longest there, and nothing in
\* the module compares the two.
SPECIFICATION Spec
CONSTANTS
    MaxLoaded = 2
    MaxActive = 3
    OldSlots = 6
    NewSlots = 4
    CounterMod = 24
    MaxResets = 1
INVARIANTS
    TypeOK
    SlotAccounting
    OldestIsOldest
    CollisionIsOldest
    RecycleAlwaysPossible
    ContextLoadableIffLive
PROPERTIES
    RecycleUnblocks
    KeepsSavedContexts
