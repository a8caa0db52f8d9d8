CONSTANTS
    HALF = 8
    RX_CNT_RESET <- MCRxCntReset
    RATE = 1
    MAX_DELAY = 4
    MAX_SENT = 34
SPECIFICATION UdpSpec
INVARIANTS
    WindowExact
CHECK_DEADLOCK TRUE
