SPECIFICATION ReturningSpec
CONSTANTS
    MAX_PROCS = 3
    MAX_DEPTH = 3
    DYNLIB_MAX = 1
    Paths = {"/shell/a.elf"}
    UserPaths = {"/shell/a.elf"}
    LibPaths = {"/lib/x.so"}
    Ttys = {0}
    Codes = {0}
    Signals = {}
    Vectors = {14}
    MAX_PID = 3
    MAX_HANDLE = 1
    MAX_REF = 2
INVARIANTS
    LibrariesOwned
PROPERTIES
    PendingDispatched
CHECK_DEADLOCK FALSE
