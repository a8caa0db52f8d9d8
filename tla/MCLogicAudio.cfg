CONSTANTS
    REPEAT_DELAY = TRUE
    TX_FIFO = 2
    TX_PREBUF = 1
    PARROT_FIFO = 2
    ROOM = 1
SPECIFICATION Spec
INVARIANTS
    NobodyWaitsInVain
PROPERTIES
    ParrotHeard
