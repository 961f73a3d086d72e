\* One direct pointer and index blocks of two pointers, so that blocks 0,
\* 1-2 and 3-6 are direct, indirect and double indirect; two-byte sectors,
\* so a file position can fall inside or at the start of a block.
CONSTANTS
  Sectors = {2, 3, 4, 5}
  DIRECT_MAX = 1
  SECTOR_MAX = 2
  DISK_SECTOR_SIZE = 2
  Names = {a, b}
  Lengths = {0, 2}
  Offsets = {1, 2, 6}
  Sizes = {1, 2}
  MaxOpen = 2
  UNUSED_SECTOR = UNUSED_SECTOR
  NoInode = NoInode
  NoEntry = NoEntry
SPECIFICATION Spec
INVARIANTS
  TypeOK
  SectorsExclusive
CHECK_DEADLOCK FALSE
VIEW InodeView
