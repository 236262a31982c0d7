SPECIFICATION Spec
CONSTANTS
    MaxLoadedObjects = 2
    PersistentHandles = 1
    ParentKeys = {parent}
    MlDsaKeys = {signer}
    HmacKeys = {hmacKey}
    NoName = noName
    StClearValues = {FALSE}
    Hosts <- MCHosts
    MaxContexts = 1
    MaxProof = 1
    MaxBuffer = 1
INVARIANTS
    TypeOK
    NoEvictBetweenCommands
    DRTMSequenceIntact
    OtherResponsesFindObjects
    DisabledHierarchyUnloaded
    NoObjectOutlivesItsProof
    PersistentRange
PROPERTIES
    CommandFrame
