# TLA+ models of the Pintos VM and file-system kernel code

This directory holds TLA+ models of the kernel code under `src/src/`
(virtual memory, system calls, buffer cache, inode layer), the TLC
configurations that check them, and `PROJECT.json`, the machine-readable
index of components, runs, mutants, the definition-to-source map, findings
and hazards.

## The system

| Part | Source | State | Operations |
|---|---|---|---|
| Frame table | `vm/frame.c` | `frame_table.hash` (frame -> owner, page), `frame_table.list` (FIFO of the same entries), `frame_table.lock` | `frame_table_insert`, `frame_table_find`, `frame_table_select_victim`, `allocate_frame` |
| Supplementary page table | `vm/page.c` | per process: page -> entry `{frame, block, file, offset, disk}` | `page_table_insert_file/_block/_frame`, `page_table_find`, `page_table_free` |
| Swap area | `vm/swap.c` | `swap_table` bitmap, slot contents, `swap_lock` | `swap_out` (lowest clear bit), `swap_in` |
| Page-fault resolver | `userprog/exception.c` | per thread: where in `page_fault` it is | lookup, stack growth, swap-in, file-in, eviction |
| System calls | `userprog/syscall.c` | `lock_file`, per process `files[]`, `mmap_list` | `syscall_handler` dispatch, `is_valid` / `get_integer` / `get_pointer`, all twenty handlers |
| Buffer cache | `filesys/cache.c` | list of cached sectors, `size`, `lock`, `destroyed`, flusher thread | `cache_table_read/_write`, `allocate_cache`, `free_cache`, `cache_table_flush`, `cache_table_destroy` |
| Inode layer | `filesys/inode.c` | on-disk inode (length, direct / indirect / double-indirect pointers), open-inode list | `allocate_block`, `free_blocks`, `inode_create/_open/_close/_read_at/_write_at` |
| File-system façade | `filesys/filesys.c` | none of its own | path parsing and directory walk, create / open / remove |
| Fixed-point macros | `threads/fixed-point.h` | none | arithmetic on 17.14 numbers (no caller in these sources) |

How they interact: a user access to an unmapped page enters `page_fault`,
which looks the page up under `frame_table.lock`, takes a frame from palloc
or evicts the FIFO head (writing it to its file under `lock_file`, or to
swap under `swap_lock`), reads the page in, and updates the frame table,
both processes' page tables and both hardware mappings. File system calls
hold `lock_file` while copying to or from user buffers, so a fault can
happen inside them. The file layer reaches the disk through the buffer
cache, whose flusher thread writes every cached sector back periodically.

Code that the sources call but do not contain (process.c, threads, palloc,
pagedir, the block devices, the free map, directories) is environment:
palloc is a set of free frames, a page directory a function, a lock a holder
variable, a disk a function from slots or offsets to values.

## Modules

* `FrameTable.tla`: the frame table as a record value `[hash, list]`,
  with one operator per function of `frame.c`. A list element carries
  `live`, FALSE once the entry it belongs to was freed while still linked.
  `frame_table_insert` of an entry that is already linked leaves the list
  as it is and `WouldRelink` reports it (the code pushes it again).
* `PageTable.tla`: one process's supplementary page table; each upsert
  assigns exactly the fields the C function assigns (`insert_block` and
  `insert_frame` keep `file` and `offset`, as the code does).
* `VM.tla`: the processes, the locks and the page-fault, eviction, swap,
  mmap, file-call and exit steps. Each process is a kernel thread on one
  CPU; its `pc` says where in the code it is, and a step runs from one
  blocking point to the next:

  | Action | Code |
  |---|---|
  | `UserFault`, `UserWrite` | user access to an unmapped / mapped page |
  | `LookupGrow`, `LookupKill`, `LookupSwap`, `LookupFile` | `page_fault` lines 182-216, 270-273 |
  | `AcquireFree` | `palloc_get_page` succeeds (`page_fault`, `allocate_frame` with PAL_ZERO) |
  | `AcquireEvict`, `EvictStale` | `frame_table_select_victim` and the victim lookup; the stale case is a freed head |
  | `WriteOutFile`, `WriteOutSwap`, `SwapFull` | victim to file under `lock_file`, or `swap_out` |
  | `UnmapVictim` | `pagedir_clear_page` of the victim, after the write-out |
  | `FillSwap`, `FillFile`, `FinishAlloc` | `swap_in`, `file_read_at` under `lock_file`, or nothing; then `frame_table_insert`, `page_table_insert_frame`, lock release |
  | `MmapStart`, `MmapFail`, `MmapOk` | `sys_mmap` (frame lock, then `lock_file`) |
  | `SysStart`, `SysCopy`, `SysFault` | `sys_read` / `sys_write`: `lock_file`, copy, or fault in the copy |
  | `LockFileReacquire` | a fault inside `sys_read` / `sys_write` reaching `lock_acquire(&lock_file)` (exception.c:233, 290, 307, 321): the ASSERT in `lock_acquire` panics |
  | `Exit` | `sys_exit` reaching `page_table_free` |

  Page contents are one value per page (`Vals`, with 0 the zero page);
  `mem` is a history variable with the value each process last stored in
  each page, so data properties can compare a frame, slot or file page with
  what the program expects. `crashed` records that the kernel stopped (a
  freed FIFO head, or a full swap bitmap), after which nothing runs.
* `MCVM.tla`: the model-checking module; constants come from the `.cfg`.
* `CacheStore.tla`: what the buffer cache promises, with no cache in it:
  `content[s]` is what a read of sector `s` returns, `last[s]` the value
  last written (NoVal once freed) and `open` FALSE after shutdown. Its
  actions are `Write`, `Free` (content becomes anything) and `Close`.
  `Cache.tla` instantiates it as `Store` with the refinement mapping
  `content <- View` (the cached copy, else the disk), `last <- written`
  and `open <- (dpc = "idle")`, and `CacheImplementsStore == Store!StoreSpec`
  is checked in cache_core. A write whose `allocate_cache` panics is not
  recorded in `written`: it never returns to its caller.
* `Cache.tla`: the buffer cache of `cache.c`. `list` is the entry list
  as a sequence of `[block, data]`, `size` the counter, `lock` who holds
  `cache_table.lock` between steps, `disk` the sector contents. The inode
  code is abstracted to arbitrary calls on a few sectors:
  `cache_table_read(s)` (a miss; a hit changes nothing),
  `cache_table_write(s, v)` and `free_cache(s)`, each one atomic step
  because it holds the lock throughout; `AllocateCache` is `allocate_cache`
  (append, or evict the head with write-back, or pop an empty list, which
  fails an assertion). The flusher thread is `FlushBegin` (lock taken),
  `FlushWrite` (one `disk_write` per step, the cursor moving with
  `list_next`), `FlushFreed` (the cursor's entry was freed), `FlushEnd`,
  `FlusherExit`. `cache_table_destroy` is `DestroyFlush` (its locked flush,
  one step), `DestroyPop` (one unlocked pop and free per step) and
  `DestroyDone` (sets `destroyed`). `written` is a history variable with
  the last value written to each sector (`NoVal` after `free_cache`).
* `MCCache.tla`: its model-checking module, with sector symmetry.
* `Inode.tla`: the indexed inode layer of `inode.c` with the create, open
  and remove paths of `filesys.c` on one directory. The calls it models
  (create, remove, open, read, write, close) run under `lock_file`, so
  each is one atomic step; the loops inside it
  are recursive operators over `fs = [used, idx, bad]` (free map, pointer
  view of index blocks, the panic a step hit). `allocate_block` walks the
  direct / indirect / double-indirect levels with `EnsureSlot`;
  `free_blocks` is `FreeDown` over `FreeBlock`; `CreateBlocks`,
  `ReadLoop` and `WriteLoop` are the loops of `inode_create`,
  `inode_read_at` and `inode_write_at`. The actions are
  `filesys_find_and_create`, `filesys_find_and_open`,
  `filesys_find_and_remove` (through `dir_remove`: open, remove, close),
  `inode_close`, `inode_read_at`, `inode_write_at`. `dinode` is the inode
  written at each sector, `open` the open-inode list, `dir` the directory.
  `free-map.c` and `directory.c` are not among the sources: the free map
  hands out the lowest free sector and panics on releasing a free sector or
  `UNUSED_SECTOR` (Pintos' `bitmap` assertions); the directory is a
  function from names to sectors. Data contents are not modelled (the
  Cache module covers them). `crashed` records a panic: releasing
  `UNUSED_SECTOR` or a free sector, or reading or writing sector -1.
* `MCInode.tla`: its model-checking module. `InodeView` leaves out the
  content of sectors that are never read again (the pointers of a sector
  that is not an index block of a live inode, the on-disk inode of a
  sector that is not a closed inode in the directory).

* `FileSys.tla`: the file-system system calls of `syscall.c` over the
  path walk of `filesys.c` and the inode registry of `inode.c`, with
  directories. State: the free map `used`, `isdir` per sector, the
  directory entries `ent[s]` (name -> sector, or `NoEntry`), the open
  count `cnt` and `removed` flag `rm` of each inode, each process's `cwd`
  and fd table `fd`, and `pend`, the directory `sys_mkdir` holds between
  its two steps. Path resolution (`filesys_find_dir`) is the RECURSIVE
  `Walk`, which reopens the start directory and closes each directory it
  leaves; the `filesys_find_and_*` functions and the `filesys_*` wrappers
  compose as functions of the record `FS`. Actions: `sys_create`,
  `sys_remove`, `sys_open` and `sys_close`, which hold `lock_file` and are
  one step each; `sys_chdir` as `ChdirLookup` (walk, and read the sector
  the final entry names) then `ChdirOpen` (`inode_open` of that sector,
  the parent closed, the is-directory and same-directory checks, the old
  directory closed); and `sys_mkdir` as `MkdirFind` (walk and lookup) then
  `MkdirAdd` (allocate, create, `dir_add`). sys_chdir and sys_mkdir take
  no lock (syscall.c:504-626), and `dir_lookup` reads the directory
  through the buffer cache, which blocks, so the locked calls of another
  process run between the two steps. Within a step, `inode_open` and
  `inode_close` are atomic.
  `directory.c`, `free-map.c` and `process.c` are not among the sources:
  `dir_lookup`, `dir_add`, `dir_remove`, `dir_close`, `free_map_*` and
  the fd allocation are modelled from the design (spec-modelled in the
  map). `dir_remove` refuses a non-empty directory, and refuses an open
  one unless `RemoveOpenDirs` (the design leaves this to the
  implementation; the runs allow it). The root is never removed, so its
  open count is not tracked.
* `Syscall.tla`: the entry path of `syscall.c`: `syscall_handler` reads
  the number at `esp`, indexes `handler[]`, and each of the twenty
  handlers fetches its argument words (`get_integer`, `get_pointer`,
  both over `is_valid`), checks its fd (`process_valid_fd`) or copies its
  name into `temp`, and touches the user buffer it was given. One call is
  one step `SysCall(esp, num, w, n, o)`: the esp, the number, the three
  argument words, the string or buffer length and the file-system outcome
  are inputs, because user memory may hold anything. The state is which
  user pages have a page-table entry (`pages`, grown by stack growth),
  `files[]` (none, file or dir), the process status and `wild`, which
  records a touch of kernel memory or outside a kernel array. A kernel
  access to a page with no entry is `page_fault`'s kernel-mode path
  (exception.c:199-210): stack growth when the address is at least
  `esp - 32` (unsigned), else the process is killed. What the file
  system does after the checks is FileSys's and VM's business; here the
  handlers return.
* `MCSyscall.tla`: its model-checking module; `MCArgs` holds the
  argument values (a `.cfg` cannot write -1).
* `MCFileSys.tla`: its model-checking module: paths are absolute or
  relative sequences of at most two names, `OpenCntBound` bounds open
  counts (leaks let them grow without end), with symmetry over processes
  and names.

## Runs

| Run | Config | Checks | Result |
|---|---|---|---|
| vm_core | `MCVM_core.cfg` | `TypeOK`, `FrameTableConsistent`, `FramesExclusive`, `SwapSlotsExclusive` | pass, 527k states |
| vm_progress | `MCVM_live.cfg` | `FaultsComplete` | pass, 138k states |
| vm_stale_victim | `MCVM_stale.cfg` | `NoStaleVictim` | violated: exit leaves freed entries in the FIFO list |
| vm_stack_zero | `MCVM_zero.cfg` | `ResidentPagesCurrent` | violated: stack growth through eviction is not zero-filled |
| vm_lost_update | `MCVM_lostupdate.cfg` | `StoredCopiesCurrent` | violated: a store during the write-out is lost |
| vm_lock_inversion | `MCVM_deadlock.cfg` | `DeadlockFree` | violated: `sys_read` holds `lock_file` and faults, waiting for `frame_table.lock`, which `sys_mmap` holds while it waits for `lock_file` (4 states) |
| cache_core | `MCCache_core.cfg` | `TypeOK`, `UniqueSectors`, `EventuallyOnDisk`, `CacheImplementsStore` | pass, 8.3k states |
| cache_destroy_race | `MCCache_destroy.cfg` | `NoUseAfterFree` | violated: the flusher walks an entry destroy has freed |
| inode_core | `MCInode_core.cfg` | `TypeOK`, `SectorsExclusive` | pass, 319k states |
| fs_core | `MCFileSys_core.cfg` | `TypeOK`, `RefCountCovers`, `EntriesLive` | pass, 195k states |
| fs_lost_inode | `MCFileSys_leak.cfg` | `NoLostInode` | violated: `mkdir` of an existing name (and `chdir` to a file or to the current directory) never closes the inode it opened |
| fs_chdir_race | `MCFileSys_chdir.cfg` | `CwdIsDir` | violated: `sys_chdir` reads a directory's sector, `sys_remove` releases it, `sys_chdir` opens the freed sector as its directory (6 states) |

Seven more properties are stated in the modules and not among the runs,
because a short sequence that a unit test reaches already violates them:
`NoWildAccess` (Syscall, below), `NoLeak` (Inode: creating an existing
name leaks the blocks `inode_create` allocated, and a read past the end
allocates a block that the release at the last close misses),
`SwapNoLeak` (VM: exit sets, rather than clears, the swap bits of its
swapped pages), `BlocksReachable` (Inode: a write at offset 2 of an empty
file leaves block 0 unallocated),
`NoRelink` (VM: the first eviction that reuses a frame pushes a list
element that is still linked), `MmapWithinFile` (VM: a file whose length
is a page multiple is mapped one page too far) and `CacheSizeMatches`
(Cache: `free_cache` does not decrement `size`; its consequence, the
`pop_empty` panic, is reached in cache_core).

What the passing runs show: whenever `frame_table.lock` is free, every
frame-table entry names a live process's page that is in that frame and
vice versa, no frame is mapped twice or mapped while free, and no swap
slot holds two pages or a page while marked free. This holds across
eviction between processes, mmap write-back, faults inside file calls and
exit, in spite of the list corruption above (the list is not what
these invariants read). Every fault completes when no file call is in
progress; with file calls it need not (vm_lock_inversion).

For the cache: no sector ever has two entries, and the cache refines the
abstract store: every step of the callers, the flusher, eviction and
destroy leaves what each sector reads (its entry, else the disk) as it
was, or is exactly the write or free asked for, and once `filesys_done`
begins nothing changes what any sector holds. With `StoreCoherent` of the
abstract store, every sector reads back the last value written to it
(`CacheCoherent`, stated in `Cache.tla`, follows and is not run
separately); a written value reaches the
disk unless overwritten or freed. The size drift makes `allocate_cache`
pop an empty list after two frees (the `pop_empty` stop, reached in
cache_core), and destroy's unlocked frees race the flusher.

For the inode layer: no sector of a live inode (in the directory or open)
is free, and no sector belongs to two inodes, across creates that run out
of space, reads and writes that allocate at every level, removal while
the file is open and the deferred release at the last close. The runs
also reach the panics of removing a file with a hole (`free_map_release`
of `UNUSED_SECTOR`) and of writing on a full disk.

For the file-system calls: every inode other than the root is open at
least as many times as there are working directories, fd entries and
pending mkdirs and chdirs holding it, and no
entry of a live directory names a freed or removed inode (the last close
releases only removed inodes, and removal clears the entry first),
across relative and absolute walks, removal of open files and of a
process's working directory, and mkdir and chdir interleaved with other
processes' calls. What fails is the other direction: `sys_mkdir` of an
existing name opens it and returns without closing it, so the inode stays
allocated once removed (fs_lost_inode, 4 states: create a, mkdir a,
remove a); `sys_chdir` returns the same way when the target is not a
directory or is already the working directory. With both early returns
closed, `NoLostInode` is still violated by mkdir racing a remove: `MkdirFind`
of `/a/a` holds directory a, another process removes `/a`, and `MkdirAdd`
adds the new directory into the removed one (6 steps).

The unlocked `sys_chdir` also breaks `CwdIsDir` (fs_chdir_race): process
1 makes `/a`; process 2's `ChdirLookup` reads sector 2 from the entry;
process 1 removes `/a`, which releases sector 2; `ChdirOpen` then opens
the freed sector (its stale on-disk inode still says directory) and makes
it process 2's directory. A later create can hand the sector to a file.

For the system-call entry, `NoWildAccess` is checked with
`MCSyscall_wild.cfg` (not among the runs: every cause is a single call).
It fails first at `sys_mmap`, which reads `fd` with `get_integer` and
then `files[fd]` without `process_valid_fd`, so fd -1 reads before the
array and fd 128 past it (syscall.c:414). With that cause left out of the inputs, TLC finds the
others in turn: a number of 20 or more indexes `handler[]` past its end
(syscall.c:736, checked only by `is_valid` of the address); an esp three
bytes below `PHYS_BASE` passes `is_valid(esp)` while the number's last
bytes lie in kernel memory (the check covers the first byte of each word
only); a name longer than `NAME_MAX + 1` bytes is copied into the
15-byte `temp` (syscall.c:188, strlen is not bounded); and a name or
buffer that starts in user memory and runs past `PHYS_BASE` is read by
the kernel. A run with none of these in its inputs ran for more than ten
minutes without a violation and was stopped, so that run is not kept.

Every property of the passing runs has a mutant in `PROJECT.json`: a
plausible bug in the mapped code (an upsert that keeps the old owner, a
victim mapping never cleared, a slot scan that ignores the bitmap, a
write-back that always grows the file, a fault that keeps the frame lock)
that TLC then finds violating it.

### Bounds

Two processes, two user pages each, one physical frame, two swap slots,
page size 2 bytes, file length 1 byte, at most one mmap and one file call
per process (vm_progress: no mmap and no file call, two values). With one frame every fault after the first evicts, so
eviction between two processes, a process evicting its own page, swap
filling up (three stack pages for two slots) and file write-back all
occur; 2 pages per process are the fewest for a process to have a page in
swap and a page resident, or an mmap page and a stack page. The
structural runs use a single page value: their invariants do not read
contents, and a second value multiplies the states by more than fifty. The data
properties use `Vals = {0, 1}`. Processes are symmetric (symmetry is used
only in safety runs).

The cache runs use three sectors, two values and `CACHE_TABLE_MAX_SIZE = 2`:
a third distinct sector evicts, a freed sector leaves room for the size
drift to show, and two values tell a stale copy from the current one.

The inode runs use `DIRECT_MAX = 1` and `SECTOR_MAX = 2`, so blocks 0,
1-2 and 3-6 are direct, indirect and double indirect, two-byte sectors (a
position inside a block and one at its start differ), four free sectors
(a double-indirect write needs three, so the disk fills up), two names,
lengths 0 and 2, offsets 1, 2 and 6 with sizes 1 and 2 (a write crossing a
block boundary, a write past the end, a write into the double-indirect
range) and at most two openers per inode.

The file-system runs use two processes, three sectors (the root and two
more, so a directory can hold a file or a directory), names `a` and `b`,
paths of up to two components, one fd slot and `MaxOpenCnt = 2`: a second
opener of an inode is reached and a third adds only a larger count. Four
sectors with `MaxOpenCnt = 3` ran for more than 30 minutes.

`MCSyscall_wild.cfg` uses 16-byte pages, `PHYS_BASE = 64` and a 128-value
address space (pointers wrap as 32-bit values do), four fd slots and
`NAME_MAX = 14`; esp 20 (a word in the second page, whose stack-growth
window reaches into the first), 48, 61 (a word straddling `PHYS_BASE`) and
64 (`PHYS_BASE` itself); `Init` starts from every set of mapped pages; argument words
-1, 0, 2, 4, 40 and 62 (a negative fd, NULL, a user fd, an out-of-range
fd, a user pointer, a pointer two bytes below `PHYS_BASE`); and lengths
1, 4 and 16 (an empty name, a short one, one longer than `temp`).

### Fairness

`Spec` has strong fairness on each process's kernel steps: Pintos locks are
semaphores whose waiters are woken in FIFO order and the scheduler is round
robin, so a thread whose next step is enabled again and again (a lock that
is released and retaken by others) does run. The cache flusher has weak fairness: a timer wakes it every
`CACHE_TABLE_FLUSH_PERIOD` and its steps then need only the cache lock,
which every caller holds for one operation. No fairness is assumed for
user code, file-system calls or cache callers: a process may stop making system calls or faults at any time.
Runs set `CHECK_DEADLOCK FALSE` because the system really stops: all
processes may exit, and a kernel panic (`crashed`) ends it.

## What is not modelled, and the plan

* Inode layer: `inode_deny_write` / `inode_allow_write` (callers in
  file.c and process loading, not among the sources); composing Inode
  with Cache, so index blocks go through the cache entries.
* munmap and exit with mappings: `mmap_write_back` / `mmap_free` live in
  process.c, not among the sources; they will be modelled from the design
  (4.8) and marked spec-modelled.
* An abstract frame-table specification (resident pages as a partial
  function) with `FrameTable` shown to refine it where the list is intact.
* File-system calls: `filesys_open` of an empty path hands out a
  `dir_open_root` handle that no one closes (listed as a hazard);
  `filesize`, `seek`, `tell`, `readdir`, `isdir`, `inumber`; process exit
  closing fds and the cwd (process.c); the `.` and `..` entries of
  directory.c.
* File-system calls: the windows inside `inode_open` (between the scan of
  the open-inode list and `list_push_front`, across a `malloc` that may
  block) and inside `inode_close` (between the decrement of `open_cnt`
  and `list_remove`). An unlocked `sys_chdir` or `sys_mkdir` in such a
  window can make two `struct inode`s for one sector, or reopen an inode
  its closer then frees; FileSys keeps one open count per sector, so
  these are listed as a hazard.
* Syscall: exec and wait return at once (process.c is not among the
  sources); an esp below 32, where `esp - 32` wraps and every fault is
  taken as stack growth, is not among the inputs.
* Fixed-point macros (`threads/fixed-point.h`) are not modelled: no code
  among the sources calls them, so no state of the system depends on them.
* Not planned: `is_valid`'s unlocked read races with the internal steps of
  the hash table, which are below this model's grain; console I/O, exec and
  wait (process.c).
