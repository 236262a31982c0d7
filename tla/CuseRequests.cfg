SPECIFICATION FairSpec
CONSTANTS
    Threads = {t1, t2}
    Cmds = {long, short}
    Cancelable = {long}
    None = None
INVARIANTS
    OneInLibrary
    PushFindsPool
    ResponseIsWhole
    CanceledWasAsked
PROPERTIES
    RequestsEnd
CHECK_DEADLOCK FALSE
