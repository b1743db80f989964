SPECIFICATION FairSpec
CONSTANTS
    Machines <- MCMachines
    Configs <- MCConfigs
    Slice <- MCSlice
    RETRY = 3
    KELF_INTERVAL = 1
    DRIVER_MAX = 6
    PENDING_MAX = 1
INVARIANTS
    LoopTypeOK
    RoundRobin
PROPERTIES
    ServicesHonest
    ShellLaunched
    NoEmptyTurn
CHECK_DEADLOCK FALSE
