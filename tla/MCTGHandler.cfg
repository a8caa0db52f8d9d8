CONSTANTS
    c1 = c1
    c2 = c2
    t1 = t1
    t2 = t2
    Clients = {c1, c2}
    TGs = {t1, t2}
    NoClient = NoClient
    NoTG = NoTG
    AllowSets <- MCAllowSets
    SqlTimeouts = {0, 2}
    AutoQsyAfter <- MCAutoQsyAfter
    TALKER_AUDIO_TIMEOUT = 1
    MaxLate = 2

SPECIFICATION FairSpec

INVARIANTS
    HandlerSound

PROPERTIES
    FloorControlSpec
    SilentOnlyWhenLeaving
    FloorIsFreed
    SqlTimeoutStops

CHECK_DEADLOCK TRUE
