\* Fault progress with two processes and one frame, with stored values,
\* without mmap or file system calls (a fault taken inside a file system
\* call holds lock_file; see MCVM_deadlock).
\* No symmetry reduction: it is not sound for liveness.
CONSTANTS
  Procs = {p1, p2}
  Frames = {f1}
  NPages = 2
  NSlots = 2
  PGSIZE = 2
  FileLen0 = 1
  Vals = {0, 1}
  MaxMmaps = 0
  MaxSysIO = 0
  NoHolder = NoHolder
  NoPte = NoPte
  NoFrame = NoFrame
  NoVictim = NoVictim
SPECIFICATION Spec
PROPERTIES
  FaultsComplete
CHECK_DEADLOCK FALSE
