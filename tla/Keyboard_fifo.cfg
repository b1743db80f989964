SPECIFICATION MaskedSpec
CONSTANTS
    CAP = 2
    TTY_COUNT = 2
    Keys = {29, 56, 60, 46}
INVARIANTS
    StopLatch
PROPERTIES
    FifoPerTty
CHECK_DEADLOCK FALSE
