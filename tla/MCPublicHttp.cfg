CONSTANTS
    Visitors = {v1, v2}
    Tunnels = {t1, t2}
    NoTunnel = NoTunnel
    ChannelCap = 1
SPECIFICATION FairSpec
CHECK_DEADLOCK FALSE
INVARIANTS
    CountedOnce
PROPERTIES
    CredentialsDecide
    WaitsForKeenOrWriter
