\* cache_table_destroy frees entries while the flusher walks them.
CONSTANTS
  Sectors = {s1, s2, s3}
  Vals = {0, 1}
  CACHE_TABLE_MAX_SIZE = 2
  NoVal = NoVal
  NoHolder = NoHolder
  End = End
SPECIFICATION Spec
SYMMETRY SectorSymmetry
INVARIANT NoUseAfterFree
CHECK_DEADLOCK FALSE
