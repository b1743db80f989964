SPECIFICATION Spec
CONSTANTS
    COPY_MAX = 6
    SORT_MAX_LINES = 3
    U64_MAX = 255
    DEFAULT_LINES = 2
    DRAIN = 1
    Code <- MCCode
    Inputs <- MCInputs
    Calls <- MCCalls
INVARIANTS
    LineToolsExact
CHECK_DEADLOCK FALSE
