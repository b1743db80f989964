SPECIFICATION Spec
CONSTANTS
    ARENA = 38
    HDR = 5
    ALIGN = 2
    WORD = 256
    Sizes = {0, 1, 6, 8, 254, 255}
INVARIANTS
    BlockList
    RequestsServed
    UsedBytesExact
