SPECIFICATION Spec
CONSTANTS
    MaxLoadedObjects = 2
    PersistentHandles = 1
    ParentKeys = {}
    MlDsaKeys = {k1}
    HmacKeys = {}
    NoName = noName
    StClearValues = {FALSE}
    Hosts <- EvictHost
    MaxContexts = 0
    MaxProof = 1
    MaxBuffer = 0
INVARIANTS
    EvictControlNeverFails
