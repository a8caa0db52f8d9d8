CONSTANTS
    x1 = x1
    x2 = x2
    s1 = s1
    s2 = s2
    s3 = s3
    Cons = {x1, x2}
    Callsigns = {a, b}
    Srcs = {s1, s2, s3}
    SrcsOf <- ChangingSrcsOf
    NoCon = NoCon
    NoCallsign = NoCallsign
    NoSrc = NoSrc
    HEARTBEAT_TX_CNT_RESET = 1
    HEARTBEAT_RX_CNT_RESET = 2
    UDP_HEARTBEAT_TX_CNT_RESET = 1
    UDP_HEARTBEAT_RX_CNT_RESET = 2

SPECIFICATION FairSpec

INVARIANTS
    MapsSound
    TimersSound

PROPERTIES
    NodeLoginSpec
    GivenUpGoes
    SilentNodeGoes

CHECK_DEADLOCK TRUE
