CONSTANTS
    x1 = x1
    x2 = x2
    t1 = t1
    t2 = t2
    Clients = {x1, x2}
    TGs = {t1}
    NoClient = NoClient
    NoTG = NoTG
    Allow <- MCAllow
    ShownTGs = {}
    Ver <- MCVer
    V1TG = NoTG
    MonitorSets = {}
    SqlTimeout = 1
    SqlBlocktime = 1
    BlockTimes = {}
    TALKER_AUDIO_TIMEOUT = 0
    MaxLate = 1

SPECIFICATION Spec

INVARIANTS
    NeverAborts

CHECK_DEADLOCK FALSE
