SPECIFICATION Spec
CONSTANTS
    CAP = 2
    TTY_COUNT = 2
    Keys = {29, 57373, 42, 57419}
INVARIANTS
    KeyboardTypeOK
    ModifiersTrackKeys
CHECK_DEADLOCK FALSE
