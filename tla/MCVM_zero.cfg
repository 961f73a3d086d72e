\* One process, one frame: its stack grows into the frame its other page was evicted from.
CONSTANTS
  Procs = {p1}
  Frames = {f1}
  NPages = 2
  NSlots = 2
  PGSIZE = 2
  FileLen0 = 1
  Vals = {0, 1}
  MaxMmaps = 0
  MaxSysIO = 0
  NoHolder = NoHolder
  NoPte = NoPte
  NoFrame = NoFrame
  NoVictim = NoVictim
SPECIFICATION Spec
INVARIANT
  ResidentPagesCurrent
CHECK_DEADLOCK FALSE
