CONSTANTS
    Ctls = {c1, c2, c3}
    Ids = {i1}
    NoCtl = NoCtl
    NoId = NoId
    Urls = {u1}
    Pxys = {p1}
    NoPxy = NoPxy
    Pubs = {h1, h2}
    PoolCap = 1
    MaxTries = 1
    MaxMsgs = 1
    MaxProtos = 2
SPECIFICATION MCSpec
CHECK_DEADLOCK FALSE
PROPERTIES
    CompletesOrWedged
    DeadClientsReaped
    HandlersReturn
