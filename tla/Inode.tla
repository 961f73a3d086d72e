------------------------------- MODULE Inode --------------------------------
(***************************************************************************)
(* The indexed inode layer of src/filesys/inode.c with the create, open    *)
(* and remove paths of src/filesys/filesys.c, over one directory.          *)
(*                                                                         *)
(* The calls modelled here (sys_create, sys_remove, sys_open, sys_read,   *)
(* sys_write, sys_close) run under lock_file (syscall.c), so each is one  *)
(* atomic step; sys_chdir and sys_mkdir take no lock and are split into   *)
(* steps in FileSys.  The loops inside a call (allocate_block's levels,   *)
(* the chunk loops of read_at / write_at, free_blocks) are recursive      *)
(* operators over                                                          *)
(* a record fs = [used, idx, bad]:                                         *)
(*   used  the sectors set in the free map,                                *)
(*   idx   the pointer view of each sector written as an index block,      *)
(*   bad   "none", or the panic a step ran into.                           *)
(* Index blocks are read and written through the buffer cache; the Cache   *)
(* module shows the cache returns the last write, so here a sector's      *)
(* content is read directly.  Data contents are not modelled.             *)
(*                                                                         *)
(* free-map.c and directory.c are not among the sources: free_map_allocate *)
(* takes the lowest clear bit (bitmap_scan_and_flip) or fails,             *)
(* free_map_release asserts the bit is set (an UNUSED_SECTOR or a free    *)
(* sector panics), and the directory is a function from names to inode     *)
(* sectors.                                                                *)
(***************************************************************************)
EXTENDS Integers, FiniteSets, FiniteSetsExt

CONSTANTS
  Sectors,           \* sectors the free map hands out (not 0 and 1)
  DIRECT_MAX,        \* direct pointers in an inode
  SECTOR_MAX,        \* pointers in an index block
  DISK_SECTOR_SIZE,  \* bytes per sector
  Names,             \* file names in the directory
  Lengths,           \* initial sizes passed to filesys_create
  Offsets,           \* file positions of reads and writes
  Sizes,             \* byte counts of reads and writes
  MaxOpen,           \* bound on the openers of one inode
  UNUSED_SECTOR, NoInode, NoEntry

ASSUME /\ Sectors \subseteq Nat \ {0, 1}
       /\ DIRECT_MAX \in Nat \ {0} /\ SECTOR_MAX \in Nat \ {0}
       /\ DISK_SECTOR_SIZE \in Nat \ {0}

VARIABLES
  used,     \* free map: allocated sectors
  idx,      \* sector -> its pointers, for sectors written as index blocks
  dinode,   \* sector -> on-disk inode written there, or NoInode
  open,     \* open_inodes: sector -> [cnt, removed, data], or NoInode
  dir,      \* the directory: name -> inode sector, or NoEntry
  crashed   \* "none" or the panic the kernel stopped on

vars == <<used, idx, dinode, open, dir, crashed>>

Running == crashed = "none"

\* A block pointer: a sector or UNUSED_SECTOR.
Ptr == Sectors \cup {UNUSED_SECTOR}

\* The on-disk inode's block map and length (struct inode_disk).
InodeData == [length : Nat, direct : [0..DIRECT_MAX-1 -> Ptr],
              indirect : Ptr, double_indirect : Ptr]

\* An index block as cache_table_write((uint8_t *)unused, ...) leaves it.
EmptyIndex == [k \in 0..SECTOR_MAX-1 |-> UNUSED_SECTOR]

-----------------------------------------------------------------------------
(* Helpers                                                                 *)

\* bytes_to_sectors (inode.c:18-22)
bytes_to_sectors(size) == (size + DISK_SECTOR_SIZE - 1) \div DISK_SECTOR_SIZE

\* free_map_allocate (1, &s): the lowest free sector, or failure.
free_map_allocate(fs) ==
  IF Sectors \subseteq fs.used THEN UNUSED_SECTOR ELSE Min(Sectors \ fs.used)

\* free_map_release (s, 1): panics unless s is an allocated sector.  Once a
\* step has panicked nothing more happens.
free_map_release(fs, s) ==
  IF fs.bad # "none" THEN fs
  ELSE IF s = UNUSED_SECTOR THEN [fs EXCEPT !.bad = "release_unused"]
  ELSE IF s \notin fs.used THEN [fs EXCEPT !.bad = "release_free"]
  ELSE [fs EXCEPT !.used = @ \ {s}]

\* Lines 64-69, 73-79, 84-89 ... of allocate_block: if ptr is UNUSED, take a
\* sector from the free map and write `content` to it through the cache.
\* s is the pointer after the step, UNUSED_SECTOR if the allocation failed.
EnsureSlot(fs, ptr, isIndex) ==
  LET s == free_map_allocate(fs) IN
  IF ptr # UNUSED_SECTOR THEN [s |-> ptr, fs |-> fs]
  ELSE IF s = UNUSED_SECTOR THEN [s |-> UNUSED_SECTOR, fs |-> fs]
  ELSE [s |-> s,
        fs |-> [fs EXCEPT !.used = @ \cup {s},
                          !.idx = IF isIndex THEN [@ EXCEPT ![s] = EmptyIndex]
                                             ELSE @]]

\* cache_table_write of one pointer into an index block.
SetPtr(fs, blk, k, s) == [fs EXCEPT !.idx[blk][k] = s]

\* Position of block `pos` in the double-indirect tree (lines 101-102).
IOffset(pos) == (pos - DIRECT_MAX - SECTOR_MAX) \div SECTOR_MAX
DOffset(pos) == (pos - DIRECT_MAX - SECTOR_MAX) % SECTOR_MAX

\* allocate_block (inode.c:55-123): the sector of block `pos` of inode data
\* d, allocating the block and any index block on the way.  Returns the
\* block (UNUSED_SECTOR on failure), the free map and index blocks, and d.
allocate_block(fs, d, pos) ==
  IF pos < DIRECT_MAX THEN
    LET b == EnsureSlot(fs, d.direct[pos], FALSE) IN
    [block |-> b.s, fs |-> b.fs, data |-> [d EXCEPT !.direct[pos] = b.s]]
  ELSE IF pos < DIRECT_MAX + SECTOR_MAX THEN
    LET r == EnsureSlot(fs, d.indirect, TRUE)
        k == pos - DIRECT_MAX
        b == EnsureSlot(r.fs, r.fs.idx[r.s][k], FALSE)
    IN IF r.s = UNUSED_SECTOR
         THEN [block |-> UNUSED_SECTOR, fs |-> r.fs, data |-> d]
         ELSE [block |-> b.s, fs |-> SetPtr(b.fs, r.s, k, b.s),
               data |-> [d EXCEPT !.indirect = r.s]]
  ELSE
    LET r == EnsureSlot(fs, d.double_indirect, TRUE)
        i == EnsureSlot(r.fs, r.fs.idx[r.s][IOffset(pos)], TRUE)
        fi == SetPtr(i.fs, r.s, IOffset(pos), i.s)
        b == EnsureSlot(fi, fi.idx[i.s][DOffset(pos)], FALSE)
        d1 == [d EXCEPT !.double_indirect = r.s]
    IN IF r.s = UNUSED_SECTOR
         THEN [block |-> UNUSED_SECTOR, fs |-> r.fs, data |-> d]
       ELSE IF i.s = UNUSED_SECTOR
         THEN [block |-> UNUSED_SECTOR, fs |-> i.fs, data |-> d1]
       ELSE [block |-> b.s, fs |-> SetPtr(b.fs, i.s, DOffset(pos), b.s),
             data |-> d1]

\* The body of free_blocks' loop (inode.c:137-176) for block `pos`.
\* Reading an index block through an UNUSED_SECTOR pointer reads a sector
\* past the end of the disk, which panics.
FreeBlock(fs, d, pos) ==
  LET ReadBad == IF fs.bad = "none" THEN [fs EXCEPT !.bad = "read_unused"]
                                    ELSE fs
      FreeLeaf(f, blk, k) ==
        LET b == f.idx[blk][k] IN
        IF b # UNUSED_SECTOR THEN free_map_release(f, b) ELSE f
  IN
  IF pos < DIRECT_MAX THEN free_map_release(fs, d.direct[pos])
  ELSE IF pos < DIRECT_MAX + SECTOR_MAX THEN
    IF d.indirect = UNUSED_SECTOR THEN ReadBad
    ELSE LET f1 == FreeLeaf(fs, d.indirect, pos - DIRECT_MAX) IN
         IF pos = DIRECT_MAX THEN free_map_release(f1, d.indirect) ELSE f1
  ELSE
    IF d.double_indirect = UNUSED_SECTOR THEN ReadBad
    ELSE
      LET ind == fs.idx[d.double_indirect][IOffset(pos)]
          f1 == IF ind = UNUSED_SECTOR THEN fs
                ELSE LET f2 == FreeLeaf(fs, ind, DOffset(pos)) IN
                     IF DOffset(pos) = 0 THEN free_map_release(f2, ind) ELSE f2
      IN IF IOffset(pos) = 0 /\ DOffset(pos) = 0
           THEN free_map_release(f1, d.double_indirect) ELSE f1

\* free_blocks (inode.c:125-178): blocks sectors-1 down to 0.
RECURSIVE FreeDown(_, _, _)
FreeDown(fs, d, pos) ==
  IF pos < 0 \/ fs.bad # "none" THEN fs
  ELSE FreeDown(FreeBlock(fs, d, pos), d, pos - 1)

free_blocks(fs, d) == FreeDown(fs, d, bytes_to_sectors(d.length) - 1)

\* The allocation loop of inode_create (inode.c:229-234): every block is
\* tried even after a failure; ok is `success`.
RECURSIVE CreateBlocks(_, _, _, _)
CreateBlocks(fs, d, i, ok) ==
  IF i >= bytes_to_sectors(d.length) THEN [fs |-> fs, data |-> d, ok |-> ok]
  ELSE LET r == allocate_block(fs, d, i) IN
       CreateBlocks(r.fs, r.data, i + 1, ok /\ r.block # UNUSED_SECTOR)

\* The chunk loop of inode_read_at (inode.c:374-417).  allocate_block runs
\* before the end-of-file test; a chunk read from an UNUSED_SECTOR block
\* reads past the end of the disk.
RECURSIVE ReadLoop(_, _, _, _)
ReadLoop(fs, d, offset, size) ==
  LET r == allocate_block(fs, d, offset \div DISK_SECTOR_SIZE)
      sector_left == DISK_SECTOR_SIZE - (offset % DISK_SECTOR_SIZE)
      chunk_size == Min({size, d.length - offset, sector_left})
  IN IF size <= 0 \/ fs.bad # "none" THEN [fs |-> fs, data |-> d]
     ELSE IF chunk_size <= 0 THEN [fs |-> r.fs, data |-> r.data]
     ELSE IF r.block = UNUSED_SECTOR
       THEN [fs |-> [r.fs EXCEPT !.bad = "read_unused"], data |-> r.data]
     ELSE ReadLoop(r.fs, r.data, offset + chunk_size, size - chunk_size)

\* The chunk loop of inode_write_at (inode.c:447-505).  A chunk written to
\* an UNUSED_SECTOR block misses in the cache, whose cache_table_write
\* reads sector -1 from the disk at once (cache.c:101), which panics.
RECURSIVE WriteLoop(_, _, _, _)
WriteLoop(fs, d, offset, size) ==
  LET r == allocate_block(fs, d, offset \div DISK_SECTOR_SIZE)
      chunk_size == Min({size, DISK_SECTOR_SIZE - (offset % DISK_SECTOR_SIZE)})
  IN IF size <= 0 \/ fs.bad # "none" THEN [fs |-> fs, data |-> d]
     ELSE IF r.block = UNUSED_SECTOR
       THEN [fs |-> [r.fs EXCEPT !.bad = "write_unused"], data |-> r.data]
     ELSE WriteLoop(r.fs, r.data, offset + chunk_size, size - chunk_size)

-----------------------------------------------------------------------------
(* State, initial state and the shared steps                               *)

\* The free map and index blocks as the recursive operators take them.
FS == [used |-> used, idx |-> idx, bad |-> "none"]

\* The state a step leaves behind it in the free map and index blocks.
SetFS(f) == used' = f.used /\ idx' = f.idx /\ crashed' = f.bad

\* inode_init (inode.c:182-186) on a freshly formatted disk.  Index blocks
\* are read only after they were written, so their initial content is
\* immaterial.
Init ==
  /\ used = {}
  /\ idx = [s \in Sectors |-> EmptyIndex]
  /\ dinode = [s \in Sectors |-> NoInode]
  /\ open = [s \in Sectors |-> NoInode]
  /\ dir = [n \in Names |-> NoEntry]
  /\ crashed = "none"

\* inode_open (inode.c:268-298) with inode_reopen (302-307): a second
\* opener shares the struct inode; the first reads the on-disk inode.
inode_open(s) ==
  \/ /\ open[s] # NoInode
     /\ open[s].cnt < MaxOpen
     /\ open' = [open EXCEPT ![s].cnt = @ + 1]
  \/ /\ open[s] = NoInode
     /\ open' = [open EXCEPT ![s] = [cnt |-> 1, removed |-> FALSE,
                                     data |-> dinode[s]]]

\* Lines 333-341 of inode_close for a removed inode: its sector and then
\* its blocks go back to the free map.
ReleaseInode(s, d) == SetFS(free_blocks(free_map_release(FS, s), d))

-----------------------------------------------------------------------------
(* Actions                                                                 *)

\* inode_create (inode.c:194-262): an inode with every pointer UNUSED and
\* all its blocks allocated; ok is FALSE if an allocation failed, and then
\* the inode is not written but the blocks allocated stay allocated.
inode_create(fs, length) ==
  CreateBlocks(fs, [length |-> length,
                    direct |-> [k \in 0..DIRECT_MAX-1 |-> UNUSED_SECTOR],
                    indirect |-> UNUSED_SECTOR,
                    double_indirect |-> UNUSED_SECTOR], 0, TRUE)

\* filesys_find_and_create (filesys.c:118-147) in the directory: take an
\* inode sector, inode_create, write the inode if that succeeded, dir_add
\* the name.  On failure only the inode sector goes back to the free map.
\* A create that finds no free inode sector changes nothing and is left out.
filesys_find_and_create(n, length) ==
  LET s == free_map_allocate(FS)
      c == inode_create([FS EXCEPT !.used = @ \cup {s}], length)
      success == c.ok /\ dir[n] = NoEntry
  IN
  /\ Running
  /\ s # UNUSED_SECTOR
  /\ dinode' = IF c.ok THEN [dinode EXCEPT ![s] = c.data] ELSE dinode
  /\ dir' = IF success THEN [dir EXCEPT ![n] = s] ELSE dir
  /\ SetFS(IF success THEN c.fs ELSE free_map_release(c.fs, s))
  /\ UNCHANGED open

\* filesys_find_and_open (filesys.c:149-172): dir_lookup opens the inode.
filesys_find_and_open(n) ==
  /\ Running
  /\ dir[n] # NoEntry
  /\ inode_open(dir[n])
  /\ UNCHANGED <<used, idx, dinode, dir, crashed>>

\* Mutant: the inode is released at once even while another thread has it
\* open.
filesys_find_and_remove_eager(n) ==
  LET s == dir[n] IN
  /\ Running
  /\ s # NoEntry
  /\ dir' = [dir EXCEPT ![n] = NoEntry]
  /\ ReleaseInode(s, IF open[s] # NoInode THEN open[s].data ELSE dinode[s])
  /\ UNCHANGED <<open, dinode>>

\* filesys_find_and_remove (filesys.c:174-193) through dir_remove: the
\* entry is erased, then inode_open, inode_remove (inode.c:354-358) and
\* inode_close.  If nobody else has the inode open, that close releases it.
filesys_find_and_remove(n) ==
  LET s == dir[n] IN
  /\ Running
  /\ s # NoEntry
  /\ dir' = [dir EXCEPT ![n] = NoEntry]
  /\ IF open[s] # NoInode
       THEN /\ open' = [open EXCEPT ![s].removed = TRUE]
            /\ UNCHANGED <<used, idx, crashed>>
       ELSE /\ ReleaseInode(s, dinode[s])
            /\ UNCHANGED open
  /\ UNCHANGED dinode

\* Mutant: the last close leaves the inode on the open list (no
\* list_remove), with open_cnt 0.
inode_close_keep(s) ==
  /\ Running
  /\ open[s] # NoInode
  /\ open' = [open EXCEPT ![s].cnt = @ - 1]
  /\ IF open[s].cnt = 1 /\ open[s].removed
       THEN ReleaseInode(s, open[s].data) /\ UNCHANGED dinode
     ELSE IF open[s].cnt = 1
       THEN dinode' = [dinode EXCEPT ![s] = open[s].data]
            /\ UNCHANGED <<used, idx, crashed>>
     ELSE UNCHANGED <<used, idx, dinode, crashed>>
  /\ UNCHANGED dir

\* inode_close (inode.c:320-349): the last close takes the inode off the
\* open list and either releases it (removed) or writes it back.
inode_close(s) ==
  /\ Running
  /\ open[s] # NoInode
  /\ IF open[s].cnt > 1
       THEN /\ open' = [open EXCEPT ![s].cnt = @ - 1]
            /\ UNCHANGED <<used, idx, dinode, crashed>>
     ELSE /\ open' = [open EXCEPT ![s] = NoInode]
          /\ IF open[s].removed
               THEN ReleaseInode(s, open[s].data) /\ UNCHANGED dinode
               ELSE /\ dinode' = [dinode EXCEPT ![s] = open[s].data]
                    /\ UNCHANGED <<used, idx, crashed>>
  /\ UNCHANGED dir

\* inode_read_at (inode.c:364-421) by an opener.
inode_read_at(s, offset, size) ==
  LET r == ReadLoop(FS, open[s].data, offset, size) IN
  /\ Running
  /\ open[s] # NoInode
  /\ open' = [open EXCEPT ![s].data = r.data]
  /\ SetFS(r.fs)
  /\ UNCHANGED <<dinode, dir>>

\* inode_write_at (inode.c:429-509): the length grows first (443-445),
\* then the chunks are written.
inode_write_at(s, offset, size) ==
  LET d == open[s].data
      grown == [d EXCEPT !.length = IF @ < offset + size THEN offset + size
                                                         ELSE @]
      r == WriteLoop(FS, grown, offset, size)
  IN
  /\ Running
  /\ open[s] # NoInode
  /\ open' = [open EXCEPT ![s].data = r.data]
  /\ SetFS(r.fs)
  /\ UNCHANGED <<dinode, dir>>

Next ==
  \/ \E n \in Names, l \in Lengths : filesys_find_and_create(n, l)
  \/ \E n \in Names : filesys_find_and_open(n) \/ filesys_find_and_remove(n)
  \/ \E s \in Sectors : inode_close(s)
  \/ \E s \in Sectors, o \in Offsets, z \in Sizes :
       inode_read_at(s, o, z) \/ inode_write_at(s, o, z)

Spec == Init /\ [][Next]_vars
-----------------------------------------------------------------------------
(* Properties                                                              *)

TypeOK ==
  /\ used \subseteq Sectors
  /\ idx \in [Sectors -> [0..SECTOR_MAX-1 -> Ptr]]
  /\ dinode \in [Sectors -> InodeData \cup {NoInode}]
  /\ open \in [Sectors -> [cnt : 1..MaxOpen, removed : BOOLEAN,
                           data : InodeData] \cup {NoInode}]
  /\ dir \in [Names -> Sectors \cup {NoEntry}]
  /\ crashed \in {"none", "release_unused", "release_free", "read_unused",
                  "write_unused"}

\* Inodes that are in the directory or open, and their current block map
\* (the in-memory copy while open, else the one on disk).
Live == {dir[n] : n \in {m \in Names : dir[m] # NoEntry}}
          \cup {s \in Sectors : open[s] # NoInode}
DataOf(s) == IF open[s] # NoInode THEN open[s].data ELSE dinode[s]

\* The sector holding block `pos`, found without allocating.
Lookup(d, pos) ==
  IF pos < DIRECT_MAX THEN d.direct[pos]
  ELSE IF pos < DIRECT_MAX + SECTOR_MAX THEN
    IF d.indirect = UNUSED_SECTOR THEN UNUSED_SECTOR
    ELSE idx[d.indirect][pos - DIRECT_MAX]
  ELSE IF d.double_indirect = UNUSED_SECTOR THEN UNUSED_SECTOR
  ELSE LET i == idx[d.double_indirect][IOffset(pos)] IN
       IF i = UNUSED_SECTOR THEN UNUSED_SECTOR ELSE idx[i][DOffset(pos)]

Positions == 0..DIRECT_MAX + SECTOR_MAX + SECTOR_MAX * SECTOR_MAX - 1

\* Every sector an inode refers to: itself, its index blocks, its blocks.
Refs(s) ==
  LET d == DataOf(s)
      mid == IF d.double_indirect = UNUSED_SECTOR THEN {}
             ELSE {idx[d.double_indirect][k] : k \in 0..SECTOR_MAX-1}
  IN ({s, d.indirect, d.double_indirect} \cup mid
        \cup {Lookup(d, p) : p \in Positions}) \ {UNUSED_SECTOR}

\* The free map never hands out a sector a live inode still refers to: all
\* their sectors are marked used and no sector belongs to two inodes.  It
\* rests on inode_close releasing only at the last close, remove deferring
\* the release while the inode is open, and free_blocks releasing nothing
\* another inode holds.
SectorsExclusive ==
  Running =>
    /\ \A s \in Live : Refs(s) \subseteq used
    /\ \A s, t \in Live : s # t => Refs(s) \cap Refs(t) = {}

\* Design 8.5: every block below the length of a live inode is allocated.
\* inode_write_at extends the length up front and allocates only the blocks
\* it writes.
BlocksReachable ==
  Running =>
    \A s \in Live : \A p \in 0..bytes_to_sectors(DataOf(s).length) - 1 :
      Lookup(DataOf(s), p) \in used

\* No leak: every sector marked used belongs to a live inode.
NoLeak == Running => used \subseteq UNION {Refs(s) : s \in Live}
=============================================================================
