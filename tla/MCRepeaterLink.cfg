CONSTANTS
    rpt = rpt
    ref = ref
    sx = sx
    home = home
    away = away
    t1 = t1
    Logics = {rpt, ref, sx}
    Links = {home, away}
    TGs = {t1}
    ConnectLogics <- MCConnectLogics
    DefaultActive = {home}
    TimeoutLinks = {home, away}
    OnActivity <- MCOnActivity
    OnTg <- MCOnTg
    Repeater = rpt
    Starts = {{rpt, ref, sx}}
    TG_RESET = TG_RESET
    OPEN_ON_SQL = FALSE
    OPEN_ON_CTCSS = TRUE
    OPEN_ON_CALL = TRUE
    REOPEN = TRUE
    OPEN_SQL_FLANK = "CLOSE"
    NO_REPEAT = FALSE
    SQL_FLAP_SUP_MAX_COUNT = 1
SPECIFICATION FairSpec
INVARIANTS
    ConnectedIffLinked
    TimeoutRunsWhenDue
    RepeaterSupervised
PROPERTIES
    IdleThingsRest
CHECK_DEADLOCK TRUE
