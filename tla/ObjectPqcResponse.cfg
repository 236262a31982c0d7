SPECIFICATION Spec
CONSTANTS
    MaxLoadedObjects = 2
    PersistentHandles = 0
    ParentKeys = {}
    MlDsaKeys = {k1}
    HmacKeys = {}
    NoName = noName
    StClearValues = {FALSE}
    Hosts <- ResponseHost
    MaxContexts = 0
    MaxProof = 1
    MaxBuffer = 0
INVARIANTS
    ResponseFindsObjects
