\* Three sectors through a two-entry cache, so every third distinct sector
\* evicts; two values, so a stale copy is told apart from the current one.
\* No symmetry: the run checks a liveness property.
CONSTANTS
  Sectors = {s1, s2, s3}
  Vals = {0, 1}
  CACHE_TABLE_MAX_SIZE = 2
  NoVal = NoVal
  NoHolder = NoHolder
  End = End
SPECIFICATION Spec
INVARIANTS
  TypeOK
  UniqueSectors
PROPERTIES
  EventuallyOnDisk
  CacheImplementsStore
CHECK_DEADLOCK FALSE
