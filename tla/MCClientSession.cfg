CONSTANTS
    c1 = c1
    c2 = c2
    i1 = i1
    i2 = i2
    Ctls = {c1, c2}
    Ids = {i1, i2}
    NoCtl = NoCtl
    NoId = NoId
    FreshId <- MCFreshId
    Cfgs = {k1, k2}
    NoCfg = NoCfg
    Asked <- MCAsked
    Urls = {u1}
    Pxys = {p1}
    MaxPings = 1
SPECIFICATION Spec
SYMMETRY Symmetry
CHECK_DEADLOCK FALSE
INVARIANTS
    TypeOK
    ProxiesFindHome
    RightTargetOnceTold
PROPERTIES
    StaleForCause
