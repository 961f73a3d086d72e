\* Two processes, one frame: a fault inside a file call holding lock_file against a fault evicting an mmap page.
CONSTANTS
  Procs = {p1, p2}
  Frames = {f1}
  NPages = 2
  NSlots = 2
  PGSIZE = 2
  FileLen0 = 1
  Vals = {0}
  MaxMmaps = 1
  MaxSysIO = 1
  NoHolder = NoHolder
  NoPte = NoPte
  NoFrame = NoFrame
  NoVictim = NoVictim
SPECIFICATION Spec
INVARIANT
  DeadlockFree
CHECK_DEADLOCK FALSE
