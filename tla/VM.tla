--------------------------------- MODULE VM ---------------------------------
(***************************************************************************)
(* The virtual-memory core of the kernel: the page-fault resolver          *)
(* (src/userprog/exception.c page_fault), allocate_frame and the frame     *)
(* table (src/vm/frame.c), the supplementary page tables (src/vm/page.c),  *)
(* the swap bitmap (src/vm/swap.c), and the system calls that take the     *)
(* same locks: mmap and the file read/write calls (src/userprog/syscall.c).*)
(*                                                                         *)
(* Each process is one kernel thread on a preemptive single CPU.  A step   *)
(* of a process runs from one blocking point of the code to the next       *)
(* (lock acquisition, disk I/O), so every interleaving the scheduler can   *)
(* produce at those points is explored.  User code of a process may run    *)
(* (and write to its mapped pages) whenever another thread is blocked.     *)
(*                                                                         *)
(* Page contents are abstracted to one value per page; `mem` is a history  *)
(* variable holding what each process last stored in each of its pages.   *)
(***************************************************************************)
EXTENDS Integers, Sequences, FiniteSets, TLC

CONSTANTS
  Procs,      \* user processes (model values)
  NPages,     \* user pages are 1..NPages; page 0 is the NULL address
  Frames,     \* the user pool of physical frames (model values)
  NSlots,     \* swap slots, bitmap indices 0..NSlots-1
  PGSIZE,     \* page size in file bytes (the model's unit of file length)
  FileLen0,   \* initial length in bytes of the file each process maps
  Vals,       \* page contents; 0 is the zero page
  MaxMmaps,   \* bound: successful mmap calls per process
  MaxSysIO,   \* bound: file read/write system calls per process
  NoHolder, NoPte, NoFrame, NoVictim

ASSUME NPages \in Nat \ {0} /\ NSlots \in Nat /\ PGSIZE \in Nat \ {0}
ASSUME FileLen0 \in 0..NPages * PGSIZE /\ 0 \in Vals
ASSUME MaxMmaps \in Nat /\ MaxSysIO \in Nat

PT == INSTANCE PageTable
FT == INSTANCE FrameTable

Pages == 1..NPages
Slots == 0..(NSlots - 1)
FileOffsets == 0..(NPages - 1)

VARIABLES
  pc,         \* per process: where its thread is (see PcValues)
  fpage,      \* per process: the page being faulted in
  fkind,      \* per process: "alloc" (stack growth), "swap" or "file"
  fframe,     \* per process: the frame chosen for the fault
  fvictim,    \* per process: [owner, page] of the evicted page, or NoVictim
  inSys,      \* per process: inside a file read/write holding lock_file
  sysPage,    \* per process: the user-buffer page that call copies into
  sysCount,   \* per process: file system calls made (bounded)
  mbase,      \* per process: base page of a pending mmap
  frameLock,  \* holder of frame_table.lock
  fileLock,   \* holder of lock_file
  freeFrames, \* frames palloc_get_page(PAL_USER) can still return
  ft,         \* the frame table (FrameTable)
  spt,        \* per process: supplementary page table (PageTable)
  pagedir,    \* per process: hardware mapping page -> frame or NoFrame
  swapUsed,   \* swap_table bitmap: TRUE = slot in use
  swapData,   \* contents of each swap slot
  frameData,  \* contents of each physical frame
  fileData,   \* per process: contents of each page of its file
  fileLen,    \* per process: length of its file in bytes
  mmaps,      \* per process: mmap_list, a sequence of [mapid, page]
  mem,        \* history: per process and page, the value last stored
  relinked,   \* history: a linked list_elem was pushed again
  crashed     \* "none", or why the kernel stopped (panic / NULL deref)

vars == <<pc, fpage, fkind, fframe, fvictim, inSys, sysPage, sysCount, mbase,
          frameLock, fileLock, freeFrames, ft, spt, pagedir, swapUsed,
          swapData, frameData, fileData, fileLen, mmaps, mem, relinked,
          crashed>>
faultVars == <<fpage, fkind, fframe, fvictim>>
sysVars == <<inSys, sysPage, sysCount, mbase>>
storeVars == <<swapUsed, swapData, fileData, fileLen>>

PcValues == {"run", "lookup", "acquire", "writeout", "unmap", "fill",
             "mmap", "sys", "dead"}
Entry == [frame : Frames \cup {NoFrame}, block : Slots \cup {0},
          file : BOOLEAN, offset : FileOffsets, disk : BOOLEAN]

Running == crashed = "none"

\* The initial content of the mapped files' pages: distinct from the zero
\* page whenever Vals allows it.
FileVal == IF Vals = {0} THEN 0 ELSE CHOOSE v \in Vals : v # 0

-----------------------------------------------------------------------------
(* Initial state: after frame_table_init, swap_table_init and the          *)
(* processes' page_table_init; no user frame handed out yet.               *)
Init ==
  /\ pc = [p \in Procs |-> "run"]
  /\ fpage = [p \in Procs |-> 1]
  /\ fkind = [p \in Procs |-> "alloc"]
  /\ fframe = [p \in Procs |-> NoFrame]
  /\ fvictim = [p \in Procs |-> NoVictim]
  /\ inSys = [p \in Procs |-> FALSE]
  /\ sysPage = [p \in Procs |-> 1]
  /\ sysCount = [p \in Procs |-> 0]
  /\ mbase = [p \in Procs |-> 0]
  /\ frameLock = NoHolder
  /\ fileLock = NoHolder
  /\ freeFrames = Frames
  /\ ft = FT!EmptyFrameTable
  /\ spt = [p \in Procs |-> [pg \in Pages |-> NoPte]]
  /\ pagedir = [p \in Procs |-> [pg \in Pages |-> NoFrame]]
  /\ swapUsed = [s \in Slots |-> FALSE]
  /\ swapData = [s \in Slots |-> 0]
  /\ frameData = [f \in Frames |-> 0]
  /\ fileData = [p \in Procs |-> [o \in FileOffsets |->
                   IF o * PGSIZE < FileLen0 THEN FileVal ELSE 0]]
  /\ fileLen = [p \in Procs |-> FileLen0]
  /\ mmaps = [p \in Procs |-> <<>>]
  /\ mem = [p \in Procs |-> [pg \in Pages |-> 0]]
  /\ relinked = FALSE
  /\ crashed = "none"

-----------------------------------------------------------------------------
(* Helpers                                                                 *)

Alive(p) == pc[p] # "dead"

\* The lock the thread of p is blocked on at its current point, if any.
VictimEntry(p) == spt[fvictim[p].owner][fvictim[p].page]
WaitsOn(p) ==
  CASE pc[p] \in {"lookup", "acquire"}                -> frameLock
    [] pc[p] = "writeout" /\ VictimEntry(p).file      -> fileLock
    [] pc[p] = "fill" /\ fkind[p] = "file"            -> fileLock
    [] pc[p] = "mmap"                                 -> fileLock
    [] OTHER                                          -> NoHolder

\* Mutant: the scan ignores the bitmap and returns the first slot.
FirstSlotIgnoringBitmap == CHOOSE s \in Slots : \A t \in Slots : s =< t

\* bitmap_scan_and_flip(swap_table, 0, 1, false) (swap.c:85): the lowest
\* free slot.
FreeSlots == {s \in Slots : ~swapUsed[s]}
FirstFreeSlot == CHOOSE s \in FreeSlots : \A t \in FreeSlots : s =< t

\* process_exit's teardown of the VM state of p: page_table_free
\* (page.c:131-153) destroys every entry, then the page directory is
\* destroyed and its frames go back to palloc.  page_table_entry_destroy
\* does bitmap_set(swap_table, slot, true) for a swapped page and, for a
\* resident one, deletes and frees the frame-table entry without unlinking
\* it from the FIFO list.
ExitProcess(p) ==
  LET entries  == {pg \in Pages : spt[p][pg] # NoPte}
      swapped  == {spt[p][pg].block : pg \in {q \in entries : spt[p][q].disk}}
      resident == {spt[p][pg].frame : pg \in {q \in entries : ~spt[p][q].disk}}
      mapped   == {pagedir[p][pg] : pg \in {q \in Pages : pagedir[p][q] # NoFrame}}
  IN /\ swapUsed' = [s \in Slots |-> IF s \in swapped THEN TRUE ELSE swapUsed[s]]
     /\ ft' = FT!frame_table_destroy_entries(ft, resident)
     /\ freeFrames' = freeFrames \cup mapped
     /\ spt' = [spt EXCEPT ![p] = [pg \in Pages |-> NoPte]]
     /\ pagedir' = [pagedir EXCEPT ![p] = [pg \in Pages |-> NoFrame]]
     /\ pc' = [pc EXCEPT ![p] = "dead"]

\* Mutant: frame_table.lock is not released at the end.
FinishFaultKeepLock(p) ==
  /\ ft' = FT!frame_table_insert(ft, p, fframe[p], fpage[p])
  /\ relinked' = (relinked \/ FT!WouldRelink(ft, fframe[p]))
  /\ spt' = [spt EXCEPT ![p] = PT!page_table_insert_frame(@, fpage[p], fframe[p])]
  /\ frameLock' = frameLock
  /\ pc' = [pc EXCEPT ![p] = IF inSys[p] THEN "sys" ELSE "run"]
  /\ fvictim' = [fvictim EXCEPT ![p] = NoVictim]

\* The common tail of page_fault and allocate_frame: frame_table_insert,
\* page_table_insert_frame for the faulting page, release of
\* frame_table.lock, and return to user code or to the interrupted copy.
FinishFault(p) ==
  /\ ft' = FT!frame_table_insert(ft, p, fframe[p], fpage[p])
  /\ relinked' = (relinked \/ FT!WouldRelink(ft, fframe[p]))
  /\ spt' = [spt EXCEPT ![p] = PT!page_table_insert_frame(@, fpage[p], fframe[p])]
  /\ frameLock' = NoHolder
  /\ pc' = [pc EXCEPT ![p] = IF inSys[p] THEN "sys" ELSE "run"]
  /\ fvictim' = [fvictim EXCEPT ![p] = NoVictim]

-----------------------------------------------------------------------------
(* User code                                                               *)

\* A store by user code to a mapped page goes straight to the frame.
UserWrite(p, pg, v) ==
  /\ Running /\ pc[p] = "run"
  /\ pagedir[p][pg] # NoFrame
  /\ frameData' = [frameData EXCEPT ![pagedir[p][pg]] = v]
  /\ mem' = [mem EXCEPT ![p][pg] = v]
  /\ UNCHANGED <<pc, faultVars, sysVars, frameLock, fileLock, freeFrames, ft,
                 spt, pagedir, storeVars, mmaps, relinked, crashed>>

\* An access to an unmapped page raises a page fault (not present).
UserFault(p, pg) ==
  /\ Running /\ pc[p] = "run"
  /\ pagedir[p][pg] = NoFrame
  /\ pc' = [pc EXCEPT ![p] = "lookup"]
  /\ fpage' = [fpage EXCEPT ![p] = pg]
  /\ UNCHANGED <<fkind, fframe, fvictim, sysVars, frameLock, fileLock,
                 freeFrames, ft, spt, pagedir, storeVars, frameData, mmaps,
                 mem, relinked, crashed>>

\* sys_exit (syscall.c:143-152), reaching process_exit.  A process with
\* live mappings is not let exit: unmapping them at exit is process.c code
\* that is not part of these sources.
Exit(p) ==
  /\ Running /\ pc[p] = "run"
  /\ mmaps[p] = <<>>
  /\ frameLock = NoHolder
  /\ ExitProcess(p)
  /\ UNCHANGED <<faultVars, sysVars, frameLock, fileLock, swapData,
                 frameData, fileData, fileLen, mmaps, mem, relinked, crashed>>

-----------------------------------------------------------------------------
(* page_fault (exception.c:174-332)                                        *)

\* Lines 183-211: look the page up under frame_table.lock.  No entry and
\* the address within 32 bytes below esp or above: stack growth through
\* allocate_frame (the esp test is a choice here, esp is not modelled).
LookupGrow(p) ==
  /\ Running /\ pc[p] = "lookup" /\ frameLock = NoHolder
  /\ PT!page_table_find(spt[p], fpage[p]) = NoPte
  /\ pc' = [pc EXCEPT ![p] = "acquire"]
  /\ fkind' = [fkind EXCEPT ![p] = "alloc"]
  /\ UNCHANGED <<fpage, fframe, fvictim, sysVars, frameLock, fileLock,
                 freeFrames, ft, spt, pagedir, storeVars, frameData, mmaps,
                 mem, relinked, crashed>>

\* Lines 196-198 and 206-208: no entry and not a stack access: the status
\* becomes PID_ERROR and the thread exits, even from inside a system call
\* that holds lock_file.
LookupKill(p) ==
  /\ Running /\ pc[p] = "lookup" /\ frameLock = NoHolder
  /\ PT!page_table_find(spt[p], fpage[p]) = NoPte
  /\ mmaps[p] = <<>>
  /\ ExitProcess(p)
  /\ UNCHANGED <<faultVars, sysVars, frameLock, fileLock, swapData,
                 frameData, fileData, fileLen, mmaps, mem, relinked, crashed>>

\* Lines 214 and 271: the entry says the page is in swap, or in a file.
LookupSwap(p) ==
  /\ Running /\ pc[p] = "lookup" /\ frameLock = NoHolder
  /\ PT!page_table_find(spt[p], fpage[p]) # NoPte
  /\ spt[p][fpage[p]].disk
  /\ pc' = [pc EXCEPT ![p] = "acquire"]
  /\ fkind' = [fkind EXCEPT ![p] = "swap"]
  /\ UNCHANGED <<fpage, fframe, fvictim, sysVars, frameLock, fileLock,
                 freeFrames, ft, spt, pagedir, storeVars, frameData, mmaps,
                 mem, relinked, crashed>>

LookupFile(p) ==
  /\ Running /\ pc[p] = "lookup" /\ frameLock = NoHolder
  /\ PT!page_table_find(spt[p], fpage[p]) # NoPte
  /\ ~spt[p][fpage[p]].disk /\ spt[p][fpage[p]].file
  /\ pc' = [pc EXCEPT ![p] = "acquire"]
  /\ fkind' = [fkind EXCEPT ![p] = "file"]
  /\ UNCHANGED <<fpage, fframe, fvictim, sysVars, frameLock, fileLock,
                 freeFrames, ft, spt, pagedir, storeVars, frameData, mmaps,
                 mem, relinked, crashed>>

\* Lines 215-216 / 272-273 and allocate_frame (frame.c:131-132): take
\* frame_table.lock and get a user frame from palloc.  On success the
\* faulting page is mapped to it (lines 257-259, frame.c:169-170);
\* allocate_frame passes PAL_ZERO, so a stack page starts zeroed.
AcquireFree(p) ==
  /\ Running /\ pc[p] = "acquire" /\ frameLock = NoHolder
  /\ freeFrames # {}
  /\ \E f \in freeFrames :
       /\ freeFrames' = freeFrames \ {f}
       /\ fframe' = [fframe EXCEPT ![p] = f]
       /\ pagedir' = [pagedir EXCEPT ![p][fpage[p]] = f]
       /\ frameData' = IF fkind[p] = "alloc"
                         THEN [frameData EXCEPT ![f] = 0]
                         ELSE frameData
  /\ frameLock' = p
  /\ pc' = [pc EXCEPT ![p] = "fill"]
  /\ UNCHANGED <<fpage, fkind, fvictim, sysVars, fileLock, ft, spt,
                 storeVars, mmaps, mem, relinked, crashed>>

\* No free frame (lines 219-228, frame.c:134-143): select the FIFO victim,
\* map the faulting page to its frame at once, and look up the victim's
\* frame-table and page-table entries.  The frame is reused as it is:
\* nothing zeroes it, whatever palloc flag allocate_frame was given.
AcquireEvict(p) ==
  /\ Running /\ pc[p] = "acquire" /\ frameLock = NoHolder
  /\ freeFrames = {}
  /\ FT!VictimElem(ft).live
  /\ LET f == FT!VictimElem(ft).frame IN
       /\ ft' = FT!frame_table_select_victim(ft)
       /\ fframe' = [fframe EXCEPT ![p] = f]
       /\ fvictim' = [fvictim EXCEPT ![p] = ft.hash[f]]
       /\ pagedir' = [pagedir EXCEPT ![p][fpage[p]] = f]
  /\ frameLock' = p
  /\ pc' = [pc EXCEPT ![p] = "writeout"]
  /\ UNCHANGED <<fpage, fkind, sysVars, fileLock, freeFrames, spt, storeVars,
                 frameData, mmaps, mem, relinked, crashed>>

\* The FIFO head is a list_elem whose entry page_table_entry_destroy has
\* freed: select_victim reads freed memory and the lookup of the victim's
\* entry dereferences NULL or a stale entry.  The kernel is stopped here.
EvictStale(p) ==
  /\ Running /\ pc[p] = "acquire" /\ frameLock = NoHolder
  /\ freeFrames = {}
  /\ ~FT!VictimElem(ft).live
  /\ crashed' = "stale_victim"
  /\ UNCHANGED <<pc, faultVars, sysVars, frameLock, fileLock, freeFrames, ft,
                 spt, pagedir, storeVars, frameData, mmaps, mem, relinked>>

\* Mutant: every write-back extends the file by a page.
FileLenAfterWriteGrow(len, off) == len + PGSIZE

\* inode_write_at (inode.c:443-445): a write of the page at `off` extends
\* the length to the end of that page if the file was shorter.
FileLenAfterWrite(len, off) ==
  IF len < (off + 1) * PGSIZE THEN (off + 1) * PGSIZE ELSE len

\* Lines 231-238 (frame.c:146-153): a file-backed victim is written to its
\* file at its offset under lock_file (always, dirty or not), growing the
\* file if the page lies past its end, and its entry becomes in-file.
WriteOutFile(p) ==
  LET v == fvictim[p]
      e == VictimEntry(p)
  IN /\ Running /\ pc[p] = "writeout"
     /\ e.file
     /\ fileLock = NoHolder
     /\ fileData' = [fileData EXCEPT ![v.owner][e.offset] = frameData[e.frame]]
     /\ fileLen' = [fileLen EXCEPT ![v.owner] = FileLenAfterWrite(@, e.offset)]
     /\ spt' = [spt EXCEPT ![v.owner] =
                  PT!page_table_insert_file(@, v.page, e.offset)]
     /\ pc' = [pc EXCEPT ![p] = "unmap"]
     /\ UNCHANGED <<faultVars, sysVars, frameLock, fileLock, freeFrames, ft,
                    pagedir, swapUsed, swapData, frameData, mmaps, mem,
                    relinked, crashed>>

\* Lines 239-245 (frame.c:154-160): any other victim goes to swap_out
\* (swap.c:77-97), which takes the lowest free slot, writes the frame
\* there, and the victim's entry becomes in-swap.
WriteOutSwap(p) ==
  LET v == fvictim[p] IN
  /\ Running /\ pc[p] = "writeout"
  /\ ~VictimEntry(p).file
  /\ FreeSlots # {}
  /\ swapUsed' = [swapUsed EXCEPT ![FirstFreeSlot] = TRUE]
  /\ swapData' = [swapData EXCEPT ![FirstFreeSlot] = frameData[fframe[p]]]
  /\ spt' = [spt EXCEPT ![v.owner] =
               PT!page_table_insert_block(@, v.page, FirstFreeSlot)]
  /\ pc' = [pc EXCEPT ![p] = "unmap"]
  /\ UNCHANGED <<faultVars, sysVars, frameLock, fileLock, freeFrames, ft,
                 pagedir, fileData, fileLen, frameData, mmaps, mem, relinked,
                 crashed>>

\* swap.c:86-89: the bitmap is full; the code goes on with
\* BITMAP_ERROR * block_size as the sector, which the disk driver rejects.
SwapFull(p) ==
  /\ Running /\ pc[p] = "writeout"
  /\ ~VictimEntry(p).file
  /\ FreeSlots = {}
  /\ crashed' = "swap_full"
  /\ UNCHANGED <<pc, faultVars, sysVars, frameLock, fileLock, freeFrames, ft,
                 spt, pagedir, storeVars, frameData, mmaps, mem, relinked>>

\* Mutant: the victim's mapping is never cleared.
UnmapVictimKeepMapping(p) ==
  /\ Running /\ pc[p] = "unmap"
  /\ pc' = [pc EXCEPT ![p] = "fill"]
  /\ UNCHANGED <<faultVars, sysVars, frameLock, fileLock, freeFrames, ft, spt,
                 pagedir, storeVars, frameData, mmaps, mem, relinked, crashed>>

\* Line 247 (frame.c:162): only now is the victim's mapping cleared.
UnmapVictim(p) ==
  /\ Running /\ pc[p] = "unmap"
  /\ pagedir' = [pagedir EXCEPT ![fvictim[p].owner][fvictim[p].page] = NoFrame]
  /\ pc' = [pc EXCEPT ![p] = "fill"]
  /\ UNCHANGED <<faultVars, sysVars, frameLock, fileLock, freeFrames, ft, spt,
                 storeVars, frameData, mmaps, mem, relinked, crashed>>

\* Lines 249-254 / 261-266: swap_in (swap.c:45-61) reads the slot into
\* the frame and clears its bit, then the tables are updated.
FillSwap(p) ==
  LET b == spt[p][fpage[p]].block IN
  /\ Running /\ pc[p] = "fill" /\ fkind[p] = "swap"
  /\ frameData' = [frameData EXCEPT ![fframe[p]] = swapData[b]]
  /\ swapUsed' = [swapUsed EXCEPT ![b] = FALSE]
  /\ FinishFault(p)
  /\ UNCHANGED <<fpage, fkind, fframe, sysVars, fileLock, freeFrames, pagedir,
                 swapData, fileData, fileLen, mmaps, mem, crashed>>

\* Lines 306-313 / 320-327: file_read_at of the page under lock_file.  It
\* reads only the bytes below the end of file; a page past the end keeps
\* whatever the frame held.
FillFile(p) ==
  LET off == spt[p][fpage[p]].offset IN
  /\ Running /\ pc[p] = "fill" /\ fkind[p] = "file"
  /\ fileLock = NoHolder
  /\ frameData' = IF off * PGSIZE < fileLen[p]
                    THEN [frameData EXCEPT ![fframe[p]] = fileData[p][off]]
                    ELSE frameData
  /\ FinishFault(p)
  /\ UNCHANGED <<fpage, fkind, fframe, sysVars, fileLock, freeFrames, pagedir,
                 storeVars, mmaps, mem, crashed>>

\* allocate_frame (frame.c:164-178): nothing to read in.
FinishAlloc(p) ==
  /\ Running /\ pc[p] = "fill" /\ fkind[p] = "alloc"
  /\ FinishFault(p)
  /\ UNCHANGED <<fpage, fkind, fframe, sysVars, fileLock, freeFrames, pagedir,
                 storeVars, frameData, mmaps, mem, crashed>>

-----------------------------------------------------------------------------
(* sys_mmap (syscall.c:403-475) on the process's own file                  *)

\* The pages an mmap at `base` of a file of `len` bytes covers: the loops
\* at lines 437 and 466 run len / PGSIZE + 1 times.
MmapPages(base, len) == base..(base + len \div PGSIZE)

\* Lines 418-419: frame_table.lock, then lock_file.  The base address is a
\* user page or NULL; bases whose range would leave the user pages are not
\* chosen.
MmapStart(p, base) ==
  /\ Running /\ pc[p] = "run" /\ frameLock = NoHolder
  /\ Len(mmaps[p]) < MaxMmaps
  /\ base = 0 \/ base + fileLen[p] \div PGSIZE <= NPages
  /\ frameLock' = p
  /\ mbase' = [mbase EXCEPT ![p] = base]
  /\ pc' = [pc EXCEPT ![p] = "mmap"]
  /\ UNCHANGED <<faultVars, inSys, sysPage, sysCount, fileLock, freeFrames,
                 ft, spt, pagedir, storeVars, frameData, mmaps, mem, relinked,
                 crashed>>

\* Lines 421-443: empty file, NULL base, or a page of the range already in
\* the page table: both locks are released and -1 returned.
MmapFail(p) ==
  /\ Running /\ pc[p] = "mmap" /\ fileLock = NoHolder
  /\ \/ fileLen[p] = 0
     \/ mbase[p] = 0
     \/ /\ fileLen[p] # 0 /\ mbase[p] # 0
        /\ \E pg \in MmapPages(mbase[p], fileLen[p]) :
             PT!page_table_find(spt[p], pg) # NoPte
  /\ frameLock' = NoHolder
  /\ pc' = [pc EXCEPT ![p] = "run"]
  /\ UNCHANGED <<faultVars, sysVars, fileLock, freeFrames, ft, spt, pagedir,
                 storeVars, frameData, mmaps, mem, relinked, crashed>>

\* Lines 445-474: the next mapid, the mmap pushed on mmap_list, and one
\* in-file entry per page at offset i * PGSIZE.  What user code reads from
\* those pages is the file's content at that offset.
MmapOk(p) ==
  LET pages == MmapPages(mbase[p], fileLen[p]) IN
  /\ Running /\ pc[p] = "mmap" /\ fileLock = NoHolder
  /\ fileLen[p] # 0 /\ mbase[p] # 0
  /\ \A pg \in pages : PT!page_table_find(spt[p], pg) = NoPte
  /\ mmaps' = [mmaps EXCEPT ![p] = Append(@,
                 [mapid |-> IF @ = <<>> THEN 0 ELSE @[Len(@)].mapid + 1,
                  page  |-> mbase[p]])]
  /\ spt' = [spt EXCEPT ![p] = [pg \in Pages |->
               IF pg \in pages
                 THEN PT!page_table_insert_file(@, pg, pg - mbase[p])[pg]
                 ELSE @[pg]]]
  /\ mem' = [mem EXCEPT ![p] = [pg \in Pages |->
               IF pg \in pages THEN fileData[p][pg - mbase[p]] ELSE @[pg]]]
  /\ frameLock' = NoHolder
  /\ pc' = [pc EXCEPT ![p] = "run"]
  /\ UNCHANGED <<faultVars, sysVars, fileLock, freeFrames, ft, pagedir,
                 storeVars, frameData, relinked, crashed>>

-----------------------------------------------------------------------------
(* sys_read / sys_write on a file (syscall.c:270-325)                      *)

\* Lines 293 / 321: lock_file is taken, then file_read / file_write copies
\* between the file and the user buffer.  Only the first byte of the buffer
\* was validated (get_pointer, lines 104-117), so the copy may touch any
\* user page, with or without an entry.
SysStart(p, pg) ==
  /\ Running /\ pc[p] = "run" /\ fileLock = NoHolder
  /\ sysCount[p] < MaxSysIO
  /\ fileLock' = p
  /\ inSys' = [inSys EXCEPT ![p] = TRUE]
  /\ sysPage' = [sysPage EXCEPT ![p] = pg]
  /\ sysCount' = [sysCount EXCEPT ![p] = @ + 1]
  /\ pc' = [pc EXCEPT ![p] = "sys"]
  /\ UNCHANGED <<faultVars, mbase, frameLock, freeFrames, ft, spt, pagedir,
                 storeVars, frameData, mmaps, mem, relinked, crashed>>

\* The buffer page is mapped: the copy completes (sys_read stores the
\* file's first page into it, sys_write only reads it) and lock_file is
\* released (lines 295 / 323).
SysCopy(p) ==
  LET f == pagedir[p][sysPage[p]] IN
  /\ Running /\ pc[p] = "sys"
  /\ f # NoFrame
  /\ \/ /\ frameData' = [frameData EXCEPT ![f] = fileData[p][0]]
        /\ mem' = [mem EXCEPT ![p][sysPage[p]] = fileData[p][0]]
     \/ UNCHANGED <<frameData, mem>>
  /\ fileLock' = NoHolder
  /\ inSys' = [inSys EXCEPT ![p] = FALSE]
  /\ pc' = [pc EXCEPT ![p] = "run"]
  /\ UNCHANGED <<faultVars, sysPage, sysCount, mbase, frameLock, freeFrames,
                 ft, spt, pagedir, storeVars, mmaps, relinked, crashed>>

\* The buffer page is not mapped: a page fault in kernel mode, taken while
\* lock_file is held.
SysFault(p) ==
  /\ Running /\ pc[p] = "sys"
  /\ pagedir[p][sysPage[p]] = NoFrame
  /\ pc' = [pc EXCEPT ![p] = "lookup"]
  /\ fpage' = [fpage EXCEPT ![p] = sysPage[p]]
  /\ UNCHANGED <<fkind, fframe, fvictim, sysVars, frameLock, fileLock,
                 freeFrames, ft, spt, pagedir, storeVars, frameData, mmaps,
                 mem, relinked, crashed>>

\* lock_acquire (threads/synch.c, not among the sources) asserts that the
\* caller does not hold the lock: a fault inside sys_read / sys_write that
\* needs lock_file again (exception.c:233, 290, 307, 321) stops the
\* kernel instead of waiting.
LockFileReacquire(p) ==
  /\ Running /\ fileLock = p /\ WaitsOn(p) = fileLock
  /\ crashed' = "lock_reacquire"
  /\ UNCHANGED <<pc, faultVars, sysVars, frameLock, fileLock, freeFrames, ft,
                 spt, pagedir, storeVars, frameData, mmaps, mem, relinked>>

-----------------------------------------------------------------------------
(* The next-state relation                                                 *)

\* What p's thread does in the kernel once it runs.
KernelStep(p) ==
  \/ LookupGrow(p) \/ LookupKill(p) \/ LookupSwap(p) \/ LookupFile(p)
  \/ AcquireFree(p) \/ AcquireEvict(p) \/ EvictStale(p)
  \/ WriteOutFile(p) \/ WriteOutSwap(p) \/ SwapFull(p) \/ UnmapVictim(p)
  \/ FillSwap(p) \/ FillFile(p) \/ FinishAlloc(p)
  \/ MmapFail(p) \/ MmapOk(p) \/ SysCopy(p) \/ SysFault(p)
  \/ LockFileReacquire(p)

\* What p's user code chooses to do.
UserStep(p) ==
  \/ \E pg \in Pages, v \in Vals : UserWrite(p, pg, v)
  \/ \E pg \in Pages : UserFault(p, pg) \/ SysStart(p, pg)
  \/ \E base \in 0..NPages : MmapStart(p, base)
  \/ Exit(p)

Next == \E p \in Procs : KernelStep(p) \/ UserStep(p)

\* Pintos locks are semaphores that wake waiters in FIFO order, and the
\* scheduler is round robin: a thread whose next kernel step is enabled
\* again and again is eventually run.
Spec == Init /\ [][Next]_vars /\ \A p \in Procs : SF_vars(KernelStep(p))

-----------------------------------------------------------------------------
(* Properties                                                              *)

Victims == [owner : Procs, page : Pages]

TypeOK ==
  /\ pc \in [Procs -> PcValues]
  /\ fpage \in [Procs -> Pages] /\ sysPage \in [Procs -> Pages]
  /\ fkind \in [Procs -> {"alloc", "swap", "file"}]
  /\ fframe \in [Procs -> Frames \cup {NoFrame}]
  /\ fvictim \in [Procs -> Victims \cup {NoVictim}]
  /\ inSys \in [Procs -> BOOLEAN]
  /\ sysCount \in [Procs -> 0..MaxSysIO] /\ mbase \in [Procs -> 0..NPages]
  /\ frameLock \in Procs \cup {NoHolder} /\ fileLock \in Procs \cup {NoHolder}
  /\ freeFrames \subseteq Frames
  /\ DOMAIN ft.hash \subseteq Frames /\ \A f \in DOMAIN ft.hash : ft.hash[f] \in Victims
  /\ ft.list \in Seq([frame : Frames, live : BOOLEAN])
  /\ spt \in [Procs -> [Pages -> Entry \cup {NoPte}]]
  /\ pagedir \in [Procs -> [Pages -> Frames \cup {NoFrame}]]
  /\ swapUsed \in [Slots -> BOOLEAN] /\ swapData \in [Slots -> Vals]
  /\ frameData \in [Frames -> Vals]
  /\ fileData \in [Procs -> [FileOffsets -> Vals]]
  /\ fileLen \in [Procs -> 0..(NPages * PGSIZE)]
  /\ \A p \in Procs : mmaps[p] \in Seq([mapid : Nat, page : 0..NPages])
  /\ mem \in [Procs -> [Pages -> Vals]]
  /\ relinked \in BOOLEAN
  /\ crashed \in {"none", "stale_victim", "swap_full", "lock_reacquire"}

\* Whether no thread is inside a frame-table critical section.
Quiescent == Running /\ frameLock = NoHolder

\* Design section 8.3: whenever frame_table.lock is free, the frame table
\* and the supplementary page tables describe the same resident pages: a
\* hash entry names a live process's page whose entry is in that frame, and
\* every in-frame entry has the hash entry naming it.  Broken if eviction
\* (select_victim + frame_table_insert) or exit (page_table_free) leaves an
\* entry behind or points it at the wrong owner.
FrameTableConsistent ==
  Quiescent =>
    /\ \A f \in DOMAIN ft.hash :
         LET o == ft.hash[f] IN
           /\ Alive(o.owner)
           /\ spt[o.owner][o.page] # NoPte
           /\ spt[o.owner][o.page].frame = f
    /\ \A p \in Procs, pg \in Pages :
         spt[p][pg] # NoPte /\ spt[p][pg].frame # NoFrame =>
           /\ spt[p][pg].frame \in DOMAIN ft.hash
           /\ ft.hash[spt[p][pg].frame] = [owner |-> p, page |-> pg]

\* Whenever frame_table.lock is free, no physical frame is mapped by two
\* user pages (of one process or of two), a mapped frame is not free in
\* palloc, and a mapped page's entry says it is in that frame.  Broken if
\* page_fault / allocate_frame leave the victim mapped after reusing its
\* frame, or if exit returns a frame still in use.
FramesExclusive ==
  Quiescent =>
    \A p, q \in Procs, pg, qg \in Pages :
      LET f == pagedir[p][pg] IN
        f # NoFrame =>
          /\ f \notin freeFrames
          /\ spt[p][pg] # NoPte /\ spt[p][pg].frame = f
          /\ (pagedir[q][qg] = f => p = q /\ pg = qg)

\* Every page a live process has in swap owns a slot of its own that the
\* bitmap marks used, so no later swap_out can hand that slot to another
\* page.  Broken if swap_out picks a used slot or swap_in forgets to free.
SwapSlotsExclusive ==
  Running =>
    \A p, q \in Procs, pg, qg \in Pages :
      spt[p][pg] # NoPte /\ spt[p][pg].disk =>
        /\ swapUsed[spt[p][pg].block]
        /\ (spt[q][qg] # NoPte /\ spt[q][qg].disk
              /\ spt[q][qg].block = spt[p][pg].block => p = q /\ pg = qg)

\* Every page fault (from user code or from a system call's copy) that has
\* started is eventually resolved and the thread goes back to where it was,
\* unless the kernel has stopped.  Needs page_fault and allocate_frame to
\* release every lock they take and no two threads to wait on each other.
FaultsComplete ==
  \A p \in Procs :
    pc[p] \in {"lookup", "acquire", "writeout", "unmap", "fill"}
      ~> (pc[p] \in {"run", "sys", "dead"} \/ ~Running)


-----------------------------------------------------------------------------
(* Properties the design states and the code does not keep                 *)

LOCAL INSTANCE Relation

\* Design sections 4.6 / 8.4: a swap slot is in use exactly while some live
\* process has a page stored in it.  page_table_entry_destroy
\* (page.c:133-137) sets the bit of an exiting process's slot instead of
\* clearing it.
SwapNoLeak ==
  Running =>
    \A s \in Slots :
      swapUsed[s] =>
        \E p \in Procs, pg \in Pages :
          Alive(p) /\ spt[p][pg] # NoPte /\ spt[p][pg].disk
          /\ spt[p][pg].block = s

\* Eviction never takes a frame-table entry that has been freed.  Exit
\* frees the entries of its resident pages (page.c:140-142) without
\* list_remove, and frame_table_select_victim later pops one of them.
NoStaleVictim == crashed # "stale_victim"

\* No list_elem is pushed onto the FIFO list while it is still linked.
\* After an eviction the victim's entry is found again in the hash by
\* frame_table_insert (frame.c:42-52) and pushed a second time.
NoRelink == ~relinked

\* Whenever no fault is in progress, every page a process has mapped holds
\* what the process last stored in it (or, for a fresh stack page, zero).
\* allocate_frame reuses an evicted frame for stack growth without the
\* PAL_ZERO it was asked for (frame.c:134-166).
ResidentPagesCurrent ==
  Quiescent =>
    \A p \in Procs, pg \in Pages :
      Alive(p) /\ pagedir[p][pg] # NoFrame =>
        frameData[pagedir[p][pg]] = mem[p][pg]

\* The copy a page fault will read back is what the process last stored:
\* the swap slot of a swapped page, the file page of an evicted mmap page
\* inside the file.  page_fault and allocate_frame copy the victim's frame
\* out while it is still mapped (exception.c:227-247), so a store the
\* victim makes during the write-out is lost when the mapping is cleared.
StoredCopiesCurrent ==
  Quiescent =>
    \A p \in Procs, pg \in Pages :
      LET e == spt[p][pg] IN
        Alive(p) /\ e # NoPte /\ e.frame = NoFrame /\ pagedir[p][pg] = NoFrame =>
          /\ e.disk => swapData[e.block] = mem[p][pg]
          /\ ~e.disk /\ e.offset * PGSIZE < fileLen[p] =>
               fileData[p][e.offset] = mem[p][pg]

\* No thread waits forever for a lock: none waits on a lock held by a dead
\* thread, by itself, or by a thread that (transitively) waits on it.
\* sys_read / sys_write hold lock_file while copying into a user buffer
\* (syscall.c:293-295, 321-323); a fault there takes frame_table.lock and
\* may need lock_file again to evict an mmap page, while sys_mmap takes the
\* two in the other order (syscall.c:418-419).
DeadlockFree ==
  LET waitsFor == [x, y \in Procs |-> WaitsOn(x) = y]
      chain    == TransitiveClosure(waitsFor, Procs)
  IN Running =>
       \A p, q \in Procs : chain[p, q] => Alive(q) /\ ~chain[q, q]

\* Design section 4.8: mmap maps ceil(length / PGSIZE) pages.  The loops
\* of sys_mmap (syscall.c:437, 466) map length / PGSIZE + 1, one page too
\* many when the length is a multiple of the page size.
MmapWithinFile ==
  \A p \in Procs, pg \in Pages :
    spt[p][pg] # NoPte /\ spt[p][pg].file =>
      spt[p][pg].offset * PGSIZE < FileLen0
=============================================================================
