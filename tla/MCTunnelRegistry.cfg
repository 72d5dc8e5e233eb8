CONSTANTS
    c1 = c1
    c2 = c2
    t1 = t1
    t2 = t2
    i1 = i1
    i2 = i2
    ip = ip
    u1 = u1
    u2 = u2
    p1 = p1
    p2 = p2
    Ctls = {c1, c2}
    Tunnels = {t1, t2}
    NoTunnel = NoTunnel
    Owner <- MCOwner
    Ids = {i1, i2}
    NoId = NoId
    IdOf <- MCIdOf
    IpOf <- MCIpOf
    HttpUrls = {u1, u2}
    Ports = {p1, p2}
    NoUrl = NoUrl
    UrlSize <- MCUrlSize
    CacheCapacity = 2
    CacheWidth = 3
    MaxAttempts = 2
    MaxReopens = 1
SPECIFICATION Spec
CHECK_DEADLOCK FALSE
INVARIANTS
    TypeOK
    RegistryAgrees
PROPERTIES
    OnlyOwnerUnlists
    AffinityKept
