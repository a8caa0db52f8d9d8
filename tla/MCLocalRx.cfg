CONSTANTS
    NODES <- MCNodes
    LEAVES <- MCLeaves
    EVENTS = {"C"}
    Top = "Top"
    TIMES <- MCTimes
    EXTENDED = TRUE
    WIDEBAND = TRUE
    BLOCK = 2
    MUTES = {"NONE", "CONTENT", "ALL"}
SPECIFICATION FairSpec
INVARIANTS
    ReceiverSound
PROPERTIES
    SignalHeard
CHECK_DEADLOCK TRUE
