\* The same instance, checking that every current directory is an allocated directory.
CONSTANTS
  Procs = {p1, p2}
  Sectors = {1, 2, 3}
  ROOT_DIR_SECTOR = 1
  Names = {a, b}
  Paths <- MCPaths
  FDs = {2}
  RemoveOpenDirs = TRUE
  NoEntry = NoEntry
  NoDir = NoDir
  NoPend = NoPend
  NULL = NULL
  Empty = Empty
SPECIFICATION Spec
CONSTRAINT OpenCntBound
INVARIANT
  CwdIsDir
