CONSTANTS
    Ctls = {c1, c2, c3}
    Ids = {i1, i2}
    NoCtl = NoCtl
    NoId = NoId
SPECIFICATION ListenerFairSpec
CHECK_DEADLOCK FALSE
INVARIANTS
    ListenerTypeOK
    LookupLive
    ReplacementsWait
    ReplacedOnce
    ToldTheEntry
PROPERTIES
    OwnErrorDecides
    ConnectionsSettle
