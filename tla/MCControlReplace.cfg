CONSTANTS
    Ctls = {c1, c2}
    Ids = {i1}
    NoCtl = NoCtl
    NoId = NoId
    Urls = {u1}
    Pxys = {}
    NoPxy = NoPxy
    Pubs = {}
    PoolCap = 1
    MaxTries = 1
    MaxMsgs = 1
    MaxProtos = 1
SPECIFICATION Spec
CHECK_DEADLOCK FALSE
INVARIANTS
    TunnelsOwned
    PredecessorUrlsFree
PROPERTIES
    RegistrySpec
    TeardownInOrder
