CONSTANTS
    a = a
    b = b
    None = None
    Procs <- MCProcs
    First = a
    MaxRetries = 1
    MaxCmds = 2
    MaxStarts = 1
SPECIFICATION FairSpec
INVARIANTS
    TypeOK
    CommandsUnderLock
    LinearHistory
    StorageIsCurrent
PROPERTIES
    HandoverIsComplete
    OrderlyStop
    HandoverEnds
CHECK_DEADLOCK FALSE
