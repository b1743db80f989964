SPECIFICATION Spec
CONSTANTS
    MAX_PROCS = 2
    MAX_DEPTH = 2
    DYNLIB_MAX = 0
    Paths = {"/shell/a.elf"}
    UserPaths = {"/shell/a.elf"}
    LibPaths = {}
    Ttys = {0}
    Codes = {0}
    Signals = {0, 274, 19}
    Vectors = {14}
    MAX_PID = 3
    MAX_HANDLE = 0
    MAX_REF = 0
INVARIANTS
    TypeOK
    StackAndTable
    RunsAccounted
    SignalStatusHasCause
PROPERTIES
    Lifecycle
CHECK_DEADLOCK FALSE
