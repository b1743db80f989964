SPECIFICATION Spec
CONSTANTS
  MAX_NODES = 8
  PATH_MAX = 12
  BLOCK = 4
  HEAP_BUFS = 3
  Ram <- MCRam
  Images <- MCImages
  FD_MAX = 4
  DEPTH = 2
  DYNLIB_MAX = 1
  CHUNK = 1
  SIZE_CAP = 2
  XPaths <- MCXPaths
  Dirs <- MCDirs
  Payloads <- MCPayloads
  FdArgs = {1, 3}
  Closable = {3}
  Opens <- MCOpens
  ReadSizes = {1}
  Libs <- MCLibs
  Stdio <- MCStdio
  ELF = 1
INVARIANTS
    StoreSound
    ListingExact
    WritesAreLocal
PROPERTIES
    ImplementsFileMap
