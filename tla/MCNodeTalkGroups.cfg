CONSTANTS
    t1 = t1
    t2 = t2
    TGs = {t1, t2}
    NoTG = NoTG
    MonitorPrio <- MCMonitorPrio
    DefaultTGs = {t2, NoTG}
    TG_SELECT_TIMEOUT = 2
    TG_SELECT_INHIBIT_TIMEOUT = 1
    QSY_PENDING_TIMEOUT = 1
    TMP_MONITOR_TIMEOUT = 1
    MUTE_FIRST_TX_LOC = TRUE
    MUTE_FIRST_TX_REM = FALSE
    MaxUplink = 2
    MaxDownlink = 1

SPECIFICATION FairSpec

INVARIANTS
    TimersMatchSelection
    HeardAfterFirst
    ServerAgrees

PROPERTIES
    LocalChoiceKept
    IdleNodeLeaves

CHECK_DEADLOCK TRUE
