CONSTANTS
    CONFIGS <- MCConfigs
    MAX_BLOCK = 3
    MAX_COUNT = 7
SPECIFICATION SquelchSpec
INVARIANTS
    SquelchSound
PROPERTIES
    DelaysKept
CHECK_DEADLOCK TRUE
