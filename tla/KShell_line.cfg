SPECIFICATION Spec
CONSTANTS
  CMD_MAX = 3
  ARG_MAX = 15
  PATH_MAX = 24
  MAX_NODES = 7
  U64_MAX = 63
  LINE_MAX = 16
  HISTORY_MAX = 2
  INPUT_BUDGET = 4
  Keys <- MCKeys
  Bursts <- MCBursts
  InitTree <- MCTree
INVARIANTS
    KShellTypeOK
    
    LinesRunOnce
    MoveLosesNothing
PROPERTIES
    Responsive
CHECK_DEADLOCK FALSE
