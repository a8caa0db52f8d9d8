CONSTANTS
    x1 = x1
    x2 = x2
    t1 = t1
    t2 = t2
    Clients = {x1, x2}
    TGs = {t1, t2}
    NoClient = NoClient
    NoTG = NoTG
    Allow <- MCAllow
    ShownTGs = {t1}
    Ver <- MCVerOld
    V1TG = t1
    MonitorSets <- MCMonitorSets
    SqlTimeout = 1
    SqlBlocktime = 1
    BlockTimes = {1}
    TALKER_AUDIO_TIMEOUT = 1
    MaxLate = 1

SPECIFICATION Spec

INVARIANTS
    ViewsAgree
    StreamsHaveTalker

PROPERTIES
    FloorControlSpec
    ToldOfStop
    NoFloorWhileBlocked

CHECK_DEADLOCK FALSE
