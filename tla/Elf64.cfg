SPECIFICATION Spec
CONSTANTS
    WORD = 1024
    ALIGN = 16
    SPARE = 2
    MAX_SEGMENTS = 2
    Images <- MCImages
    Symbols <- MCSymbols
INVARIANTS
    ElfTypeOK
    LoadSound
PROPERTIES
    OutcomeExact
