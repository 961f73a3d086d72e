\* Two processes sharing one user frame, so every fault after the first
\* evicts; two swap slots, so swap can fill; one mmap and one file system
\* call each.  Page contents are one value: these invariants are about
\* the tables, not the data.
CONSTANTS
  Procs = {p1, p2}
  Frames = {f1}
  NPages = 2
  NSlots = 2
  PGSIZE = 2
  FileLen0 = 1
  Vals = {0}
  MaxMmaps = 1
  MaxSysIO = 1
  NoHolder = NoHolder
  NoPte = NoPte
  NoFrame = NoFrame
  NoVictim = NoVictim
SPECIFICATION Spec
SYMMETRY ProcSymmetry
INVARIANTS
  TypeOK
  FrameTableConsistent
  FramesExclusive
  SwapSlotsExclusive
CHECK_DEADLOCK FALSE
