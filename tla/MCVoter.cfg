CONSTANTS
    a = a
    b = b
    RXS <- MCRxs
    NetRxs = {b}
    None = None
    LEVELS = {30, 50, 80}
    HYSTERESIS = 150
    REVOTE = TRUE
    BUFFERED = TRUE
    VOTING_DELAY = 0
    SQL_OPEN_DELAY <- MCNoDelay
    COMMANDS = {"NONE", "ALL"}
    REDUNDANT = FALSE
    MAX_TASKS = 4
SPECIFICATION FairSpec
INVARIANTS
    VoterSound
PROPERTIES
    VotedAudioKept
    QuietCloses
    LastHeardIsVoted
CHECK_DEADLOCK FALSE
