\* A process with a resident page exits; the next eviction pops its freed entry.
CONSTANTS
  Procs = {p1, p2}
  Frames = {f1}
  NPages = 2
  NSlots = 2
  PGSIZE = 2
  FileLen0 = 1
  Vals = {0}
  MaxMmaps = 0
  MaxSysIO = 0
  NoHolder = NoHolder
  NoPte = NoPte
  NoFrame = NoFrame
  NoVictim = NoVictim
SPECIFICATION Spec
INVARIANT
  NoStaleVictim
CHECK_DEADLOCK FALSE
