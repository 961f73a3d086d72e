\* A process making every system call with esp, argument words, name
\* lengths and transfer sizes around page and PHYS_BASE boundaries.
CONSTANTS
  PGSIZE = 16
  PHYS_BASE = 64
  ADDR_SPACE = 128
  MAX_FILE_COUNT = 4
  NAME_MAX = 14
  Esps = {20, 48, 61, 64}
  Args <- MCArgs
  Lens = {1, 4, 16}
SPECIFICATION Spec
INVARIANT NoWildAccess
CHECK_DEADLOCK FALSE
