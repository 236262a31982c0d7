SPECIFICATION Spec
CONSTANTS
    MaxLoadedObjects = 2
    PersistentHandles = 0
    ParentKeys = {parent}
    MlDsaKeys = {}
    HmacKeys = {}
    NoName = noName
    StClearValues = {TRUE}
    Hosts <- ClearHost
    MaxContexts = 1
    MaxProof = 1
    MaxBuffer = 0
INVARIANTS
    StClearContextEndsAtRestart
