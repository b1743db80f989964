SPECIFICATION Spec
CONSTANTS
  TTY_COUNT = 3
  TTY_ROWS = 3
  TTY_COLS = 2
  SCROLLBACK_LINES = 2
  ANSI_MAX_LEN = 6
  U32 = 128
  Texts <- MCTexts
  Echoes <- MCEchoes
  MAX_CALLS = 4
INVARIANTS
    TtyTypeOK
    ScreenTrue
PROPERTIES
    WritesStayOnTheirTty
    ScrollbackOrder
CHECK_DEADLOCK FALSE
