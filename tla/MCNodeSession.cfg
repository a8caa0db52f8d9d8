CONSTANTS
    h1 = h1
    h2 = h2
    h3 = h3
    Hosts <- MCHosts
    Answers <- HostsAnswers
    UDP_HEARTBEAT_TX = 2
    UDP_HEARTBEAT_RX = 4
    TCP_HEARTBEAT_RX = 2
    RECONNECT = 3
    FLUSH_TIMEOUT = 2
    TALK_TIMEOUT = 2
    MaxTasks = 2
SPECIFICATION FairSpec
INVARIANTS
    Supervised
    StrandedByTaskOnly
PROPERTIES
    KeepsTrying
    SilenceEnds
    ReachesPrimary
CHECK_DEADLOCK TRUE
