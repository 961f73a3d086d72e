\* The victim's owner stores to its page while the page is being swapped out.
CONSTANTS
  Procs = {p1, p2}
  Frames = {f1}
  NPages = 2
  NSlots = 2
  PGSIZE = 2
  FileLen0 = 1
  Vals = {0, 1}
  MaxMmaps = 0
  MaxSysIO = 0
  NoHolder = NoHolder
  NoPte = NoPte
  NoFrame = NoFrame
  NoVictim = NoVictim
SPECIFICATION Spec
INVARIANT
  StoredCopiesCurrent
CHECK_DEADLOCK FALSE
