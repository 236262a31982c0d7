SPECIFICATION Spec
CONSTANTS
    MaxLoadedObjects = 2
    PersistentHandles = 0
    ParentKeys = {}
    MlDsaKeys = {k1, k2}
    HmacKeys = {}
    NoName = noName
    StClearValues = {FALSE}
    Hosts <- SignerHost
    MaxContexts = 0
    MaxProof = 1
    MaxBuffer = 0
PROPERTIES
    SameKeyCompletes
