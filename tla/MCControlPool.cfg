CONSTANTS
    Ctls = {c1}
    Ids = {i1}
    NoCtl = NoCtl
    NoId = NoId
    Urls = {u1}
    Pxys = {p1, p2, p3}
    NoPxy = NoPxy
    Pubs = {h1, h2}
    PoolCap = 1
    MaxTries = 2
    MaxMsgs = 1
    MaxProtos = 1
SPECIFICATION Spec
CHECK_DEADLOCK FALSE
SYMMETRY Symmetry
INVARIANTS
    TypeOK
    NothingLeftBehind
    ProxyExclusive
