SPECIFICATION Spec
CONSTANTS
    Indices = {i1, i2}
    Templates <- MixedTemplates
    Values = {1}
    RollOver = 2
    CountBound = 3
INVARIANTS
    TypeOK
    CommittedAfterCommand
    OrderlyLayoutMatches
    OrderlyImageIsCurrent
    MaxCountCoversDeleted
PROPERTIES
    DefinedLockIsPermanent
    CountersNeverGoBack
