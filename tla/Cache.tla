------------------------------- MODULE Cache --------------------------------
(***************************************************************************)
(* The buffer cache of src/filesys/cache.c: a list of cached sectors with  *)
(* a size counter, one lock, the background flusher thread, and            *)
(* cache_table_destroy, run by filesys_done at shutdown.                   *)
(*                                                                         *)
(* cache_table_read, cache_table_write and free_cache hold the lock for    *)
(* their whole run, so each is one step.  The flusher holds the lock while *)
(* it walks the list, one step per sector it writes (disk_write blocks).   *)
(* cache_table_destroy takes the lock only for its first flush; it then    *)
(* pops and frees the entries without the lock, one step per entry, while  *)
(* the flusher may still be walking.  Callers of the file system stop      *)
(* before filesys_done.                                                    *)
(*                                                                         *)
(* A sector's content is one value; `written` is a history variable with   *)
(* the value last written to each sector through the cache (NoVal once     *)
(* the sector was freed: its content no longer matters); a write that      *)
(* panics in allocate_cache never completes and is not recorded.           *)
(***************************************************************************)
EXTENDS Integers, Sequences, FiniteSets, TLC

CONSTANTS
  Sectors,               \* disk sectors used through the cache
  Vals,                  \* sector contents
  CACHE_TABLE_MAX_SIZE,  \* capacity of the cache
  NoVal, NoHolder, End

ASSUME CACHE_TABLE_MAX_SIZE \in Nat \ {0}

VARIABLES
  list,       \* cache_table.list: sequence of [block, data]
  size,       \* cache_table.size
  lock,       \* holder of cache_table.lock between steps: NoHolder or "flusher"
  destroyed,  \* cache_table.destroyed
  disk,       \* the file-system disk: sector -> value
  fpc,        \* flusher thread: "sleep", "flush" (walking the list) or "done"
  cursor,     \* flusher: block of the list element it is at, or End
  dpc,        \* filesys_done: "idle", "pop" (freeing entries) or "done"
  written,    \* history: last value written to each sector, or NoVal
  crashed     \* "none", "pop_empty" or "use_after_free"

vars == <<list, size, lock, destroyed, disk, fpc, cursor, dpc, written, crashed>>

Running == crashed = "none"

-----------------------------------------------------------------------------
(* cache_table_init (cache.c:10-20) with a disk of zeros.                  *)
Init ==
  /\ list = <<>>
  /\ size = 0
  /\ lock = NoHolder
  /\ destroyed = FALSE
  /\ disk = [s \in Sectors |-> 0]
  /\ fpc = "sleep"
  /\ cursor = End
  /\ dpc = "idle"
  /\ written = [s \in Sectors |-> 0]
  /\ crashed = "none"

-----------------------------------------------------------------------------
(* Helpers                                                                 *)

Blocks(lst) == {lst[i].block : i \in DOMAIN lst}

\* cache_table_find (cache.c:22-32): is the sector cached?
cache_table_find(lst, s) == s \in Blocks(lst)

\* The list position of a cached sector.
IndexOf(lst, s) == CHOOSE i \in DOMAIN lst : lst[i].block = s

\* Mutant: the walk stops one element before the end of the list.
NextCursorSkip(lst, s) ==
  IF IndexOf(lst, s) + 1 >= Len(lst) THEN End ELSE lst[IndexOf(lst, s) + 1].block

\* list_next as the flusher uses it (cache.c:110): the block after s, or End.
NextCursor(lst, s) ==
  IF IndexOf(lst, s) = Len(lst) THEN End ELSE lst[IndexOf(lst, s) + 1].block

\* The first element of a walk over the list.
FirstCursor(lst) == IF lst = <<>> THEN End ELSE lst[1].block

\* Every cached entry written to its sector: cache_table_flush's loop
\* (cache.c:110-113) taken as a whole.
FlushAll(dsk, lst) ==
  [s \in Sectors |-> IF s \in Blocks(lst) THEN lst[IndexOf(lst, s)].data
                                           ELSE dsk[s]]

\* Mutant: the limit test is `size > CACHE_TABLE_MAX_SIZE`.
AllocateCacheLate(s, d) ==
  \/ /\ size <= CACHE_TABLE_MAX_SIZE
     /\ list' = Append(list, [block |-> s, data |-> d])
     /\ size' = size + 1
     /\ UNCHANGED <<disk, crashed>>
  \/ /\ size > CACHE_TABLE_MAX_SIZE
     /\ list' = Append(Tail(list), [block |-> s, data |-> d])
     /\ disk' = [disk EXCEPT ![Head(list).block] = Head(list).data]
     /\ UNCHANGED <<size, crashed>>

\* Mutant: the victim is freed without its disk_write.
AllocateCacheNoWriteBack(s, d) ==
  \/ /\ size < CACHE_TABLE_MAX_SIZE
     /\ list' = Append(list, [block |-> s, data |-> d])
     /\ size' = size + 1
     /\ UNCHANGED <<disk, crashed>>
  \/ /\ size = CACHE_TABLE_MAX_SIZE
     /\ list # <<>>
     /\ list' = Append(Tail(list), [block |-> s, data |-> d])
     /\ UNCHANGED <<size, disk, crashed>>

\* allocate_cache (cache.c:34-58) for sector s, whose new entry ends up
\* holding d.  At the limit the list head is written back and freed and
\* size decremented; list_pop_front of an empty list fails its assertion.
AllocateCache(s, d) ==
  \/ /\ size < CACHE_TABLE_MAX_SIZE
     /\ list' = Append(list, [block |-> s, data |-> d])
     /\ size' = size + 1
     /\ UNCHANGED <<disk, crashed>>
  \/ /\ size = CACHE_TABLE_MAX_SIZE
     /\ list # <<>>
     /\ disk' = [disk EXCEPT ![Head(list).block] = Head(list).data]
     /\ list' = Append(Tail(list), [block |-> s, data |-> d])
     /\ UNCHANGED <<size, crashed>>
  \/ /\ size = CACHE_TABLE_MAX_SIZE
     /\ list = <<>>
     /\ crashed' = "pop_empty"
     /\ UNCHANGED <<list, size, disk>>

-----------------------------------------------------------------------------
(* Callers: inode and directory code, before filesys_done                 *)

Callers == Running /\ dpc = "idle" /\ lock = NoHolder

\* Mutant: cache_table_read allocates without first looking the sector up.
cache_table_read_nofind(s) ==
  /\ Callers
  /\ AllocateCache(s, disk[s])
  /\ UNCHANGED <<lock, destroyed, fpc, cursor, dpc, written>>

\* cache_table_read (cache.c:75-89): a miss allocates an entry and reads
\* the sector from disk into it.
cache_table_read(s) ==
  /\ Callers
  /\ ~cache_table_find(list, s)
  /\ AllocateCache(s, disk[s])
  /\ UNCHANGED <<lock, destroyed, fpc, cursor, dpc, written>>

\* cache_table_write (cache.c:91-105): a hit updates the entry; a miss
\* allocates one, reads the sector, then copies the new bytes over it.
cache_table_write(s, v) ==
  /\ Callers
  /\ \/ /\ cache_table_find(list, s)
        /\ list' = [list EXCEPT ![IndexOf(list, s)].data = v]
        /\ UNCHANGED <<size, disk, crashed>>
     \/ /\ ~cache_table_find(list, s)
        /\ AllocateCache(s, v)
  /\ written' = IF crashed' = "none" THEN [written EXCEPT ![s] = v] ELSE written
  /\ UNCHANGED <<lock, destroyed, fpc, cursor, dpc>>

\* free_cache (cache.c:60-73), called by free_blocks for a released
\* sector: the entry is unlinked and freed; size is left as it was.
free_cache(s) ==
  /\ Callers
  /\ list' = SelectSeq(list, LAMBDA e : e.block # s)
  /\ written' = [written EXCEPT ![s] = NoVal]
  /\ UNCHANGED <<size, lock, destroyed, disk, fpc, cursor, dpc, crashed>>

-----------------------------------------------------------------------------
(* The flusher thread, cache_table_thread (cache.c:117-122)                *)

\* The loop test passes and cache_table_flush takes the lock (line 108).
FlushBegin ==
  /\ Running /\ fpc = "sleep" /\ ~destroyed /\ lock = NoHolder
  /\ lock' = "flusher"
  /\ cursor' = FirstCursor(list)
  /\ fpc' = "flush"
  /\ UNCHANGED <<list, size, destroyed, disk, dpc, written, crashed>>

\* Lines 111-112: write the element at the cursor and step to the next.
FlushWrite ==
  /\ Running /\ fpc = "flush" /\ cursor # End
  /\ cache_table_find(list, cursor)
  /\ disk' = [disk EXCEPT ![cursor] = list[IndexOf(list, cursor)].data]
  /\ cursor' = NextCursor(list, cursor)
  /\ UNCHANGED <<list, size, lock, destroyed, fpc, dpc, written, crashed>>

\* The element at the cursor was popped and freed by cache_table_destroy:
\* reading its block, data or next link reads freed memory.
FlushFreed ==
  /\ Running /\ fpc = "flush" /\ cursor # End
  /\ ~cache_table_find(list, cursor)
  /\ crashed' = "use_after_free"
  /\ UNCHANGED <<list, size, lock, destroyed, disk, fpc, cursor, dpc, written>>

\* Line 114, then timer_msleep.
FlushEnd ==
  /\ Running /\ fpc = "flush" /\ cursor = End
  /\ lock' = NoHolder
  /\ fpc' = "sleep"
  /\ UNCHANGED <<list, size, destroyed, disk, cursor, dpc, written, crashed>>

\* Line 118: destroyed is set, the thread ends.
FlusherExit ==
  /\ Running /\ fpc = "sleep" /\ destroyed
  /\ fpc' = "done"
  /\ UNCHANGED <<list, size, lock, destroyed, disk, cursor, dpc, written, crashed>>

-----------------------------------------------------------------------------
(* cache_table_destroy (cache.c:124-134), from filesys_done                *)

\* Line 125: a full cache_table_flush under the lock.
DestroyFlush ==
  /\ Running /\ dpc = "idle" /\ lock = NoHolder
  /\ disk' = FlushAll(disk, list)
  /\ dpc' = "pop"
  /\ UNCHANGED <<list, size, lock, destroyed, fpc, cursor, written, crashed>>

\* Lines 127-131: pop the head and free it, without the lock.
DestroyPop ==
  /\ Running /\ dpc = "pop" /\ list # <<>>
  /\ list' = Tail(list)
  /\ UNCHANGED <<size, lock, destroyed, disk, fpc, cursor, dpc, written, crashed>>

\* Line 133.
DestroyDone ==
  /\ Running /\ dpc = "pop" /\ list = <<>>
  /\ destroyed' = TRUE
  /\ dpc' = "done"
  /\ UNCHANGED <<list, size, lock, disk, fpc, cursor, written, crashed>>

-----------------------------------------------------------------------------
Flusher == FlushBegin \/ FlushWrite \/ FlushFreed \/ FlushEnd \/ FlusherExit

Next ==
  \/ \E s \in Sectors : cache_table_read(s) \/ free_cache(s)
  \/ \E s \in Sectors, v \in Vals : cache_table_write(s, v)
  \/ Flusher
  \/ DestroyFlush \/ DestroyPop \/ DestroyDone

\* The flusher is woken by the timer every CACHE_TABLE_FLUSH_PERIOD and
\* then only waits for the cache lock, which callers hold for one
\* operation at a time.
Spec == Init /\ [][Next]_vars /\ WF_vars(Flusher)
-----------------------------------------------------------------------------
(* Properties                                                              *)

TypeOK ==
  /\ list \in Seq([block : Sectors, data : Vals])
  /\ Len(list) <= CACHE_TABLE_MAX_SIZE
  /\ size \in 0..CACHE_TABLE_MAX_SIZE
  /\ lock \in {NoHolder, "flusher"}
  /\ destroyed \in BOOLEAN
  /\ disk \in [Sectors -> Vals]
  /\ fpc \in {"sleep", "flush", "done"} /\ cursor \in Sectors \cup {End}
  /\ dpc \in {"idle", "pop", "done"}
  /\ written \in [Sectors -> Vals \cup {NoVal}]
  /\ crashed \in {"none", "pop_empty", "use_after_free"}

\* Design section 8.1: at most one cache entry per sector.  Needs every
\* miss path of cache_table_read / cache_table_write to have searched the
\* whole list under the same hold of the lock as the allocation.
UniqueSectors ==
  \A i, j \in DOMAIN list : list[i].block = list[j].block => i = j

\* What a read of sector s returns: the cached copy if there is one, else
\* the disk.
View(s) == IF cache_table_find(list, s) THEN list[IndexOf(list, s)].data
                                         ELSE disk[s]

\* Every live sector reads back what was last written to it, through
\* eviction write-back in allocate_cache, flushes, and the frees of
\* cache_table_destroy (design 5: writes are visible once write_at returns;
\* 8, scenario 6: durable after filesys_done).
CacheCoherent ==
  Running =>
    \A s \in Sectors : written[s] # NoVal => View(s) = written[s]

\* Design section 8.1: the table size is the number of entries and within
\* CACHE_TABLE_MAX_SIZE.  free_cache (cache.c:60-73) unlinks an entry
\* without decrementing size.
CacheSizeMatches == Running => size = Len(list)

\* The flusher never touches an entry cache_table_destroy has freed.
\* cache_table_destroy (cache.c:127-131) pops and frees without the lock
\* the flusher walks the list under.
NoUseAfterFree == crashed # "use_after_free"

\* A value written into the cache reaches the disk unless it is
\* overwritten or the sector freed first: the flusher writes every entry
\* on each pass.
EventuallyOnDisk ==
  \A s \in Sectors, v \in Vals :
    (written[s] = v /\ cache_table_find(list, s))
      ~> (disk[s] = v \/ written[s] # v \/ ~Running)

-----------------------------------------------------------------------------
(* Refinement of the abstract sector store CacheStore: what a read returns *)
(* (View), the written history, and "open" until filesys_done starts.      *)
Store == INSTANCE CacheStore WITH
           content <- [s \in Sectors |-> View(s)],
           last <- written,
           open <- (dpc = "idle")

\* The cache implements the abstract store: every step of the callers,
\* the flusher, eviction in allocate_cache and cache_table_destroy either
\* leaves what every sector reads as unchanged, or is the write or free
\* the caller asked for; once filesys_done has begun (its first flush,
\* cache.c:125), no step, including the unlocked pops at cache.c:127-131
\* racing the flusher, changes what any sector holds.
CacheImplementsStore == Store!StoreSpec
=============================================================================
