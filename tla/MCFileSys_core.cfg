\* Two processes over the root and three more sectors: enough for a
\* directory with a subdirectory and a file, and for the disk to fill.
CONSTANTS
  Procs = {p1, p2}
  Sectors = {1, 2, 3}
  ROOT_DIR_SECTOR = 1
  Names = {a, b}
  Paths <- MCPaths
  FDs = {2}
  RemoveOpenDirs = TRUE
  NoEntry = NoEntry
  NoDir = NoDir
  NoPend = NoPend
  NULL = NULL
  Empty = Empty
SPECIFICATION Spec
CONSTRAINT OpenCntBound
INVARIANTS
  TypeOK
  RefCountCovers
  EntriesLive
SYMMETRY Symm
