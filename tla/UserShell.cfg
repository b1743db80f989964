SPECIFICATION Spec
CONSTANTS
    COPY_MAX = 6
    SORT_MAX_LINES = 8
    U64_MAX = 99
    DEFAULT_LINES = 10
    PATH_MAX = 40
    MAX_STAGES = 3
    DEPTH = 3
    LINES_CAP = 3
    SPAWN_CAP = 1
    MISHAPS = 1
    Absent = Absent
    MAX_NODES <- MCNodes
    Code <- MCCode
    Tree0 <- MCTree0
    Typed <- MCTyped
    Scripts <- MCScripts
INVARIANTS
    ContextTrue
    PipelineMeaning
PROPERTIES
    ShellObeysTypedCommand
    EveryLineFinishes
