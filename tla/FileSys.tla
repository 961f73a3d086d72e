------------------------------ MODULE FileSys --------------------------------
(***************************************************************************)
(* The directory tree of the file system as the system calls see it:      *)
(* path resolution (filesys_find_dir, src/filesys/filesys.c), the          *)
(* create / open / remove entry points, and sys_create, sys_remove,        *)
(* sys_open, sys_close, sys_chdir and sys_mkdir of src/userprog/syscall.c, *)
(* for a few processes, each with a current directory and a file table.   *)
(*                                                                         *)
(* The state is the inode registry of inode.c (an open count and the       *)
(* removed flag per sector), the free map, each inode's is_dir flag and,   *)
(* for a directory, its entries (name -> inode sector).  Block layout and  *)
(* file data are left to the Inode module: every inode created here has    *)
(* length 0, so its sector is all it owns.  A directory's entries are      *)
(* stored in its blocks and go with them when the inode is released.      *)
(*                                                                         *)
(* sys_create, sys_remove, sys_open and sys_close hold lock_file for the   *)
(* whole file-system call, so each is one step.  sys_chdir and sys_mkdir   *)
(* take no lock: each is two steps that the locked calls may run between.  *)
(* sys_chdir reads the sector an entry names (dir_lookup reads the         *)
(* directory through the buffer cache, which blocks) and opens it in a     *)
(* second step; sys_mkdir looks the name up, then creates.  Inside a step, *)
(* inode_open and inode_close are atomic: the window between the scan of   *)
(* the open-inode list and list_push_front, and between the decrement of   *)
(* open_cnt and list_remove, is below this model's grain.                  *)
(*                                                                         *)
(* The root directory is never named by an entry, so it is never removed   *)
(* and never released; its open count is not tracked (dir_open_root's      *)
(* handles in filesys_create / _open / _remove and sys_chdir are never     *)
(* closed, so that count only grows).                                      *)
(*                                                                         *)
(* directory.c, free-map.c and process.c are not among the sources:        *)
(* dir_lookup opens the inode an entry names; dir_add fails on an empty or *)
(* existing name; dir_remove opens the target, refuses a non-empty         *)
(* directory (and an open one unless RemoveOpenDirs), clears the entry,    *)
(* marks the inode removed and closes it; free_map_allocate takes the      *)
(* lowest free sector; process_open_file takes the lowest free descriptor. *)
(***************************************************************************)
EXTENDS Integers, FiniteSets, SequencesExt, Graphs

CONSTANTS
  Procs,            \* user processes
  Sectors,          \* inode sectors, the root directory's among them
  ROOT_DIR_SECTOR,  \* filesys.h
  Names,            \* path components
  Paths,            \* path arguments: [abs : BOOLEAN, comps : Seq(Names)]
  FDs,              \* descriptors process_open_file hands out (from 2)
  RemoveOpenDirs,   \* does dir_remove remove a directory that is open?
  NoEntry, NoDir, NoPend, NULL, Empty

ASSUME /\ ROOT_DIR_SECTOR \in Sectors
       /\ RemoveOpenDirs \in BOOLEAN

VARIABLES
  used,     \* free map: allocated sectors
  isdir,    \* inode_disk.is_dir of each sector
  ent,      \* directory entries of each sector: Names -> sector or NoEntry
  cnt,      \* inode.open_cnt (0: not in the open-inode list)
  rm,       \* inode.removed
  cwd,      \* process.dir: inode sector of each process's directory
  fd,       \* process.files: descriptor -> inode sector or NULL
  pend,     \* sys_mkdir or sys_chdir between its two steps, or NoPend
  crashed   \* "none", or "close_freed": inode_close of a freed inode

vars == <<used, isdir, ent, cnt, rm, cwd, fd, pend, crashed>>

Running == crashed = "none"

NoEntries == [n \in Names |-> NoEntry]

-----------------------------------------------------------------------------
(* The file-system state a call works on, as one record, so that a call's *)
(* sequence of inode and directory operations composes as functions.      *)

FS == [used |-> used, isdir |-> isdir, ent |-> ent, cnt |-> cnt, rm |-> rm,
       bad |-> crashed]

SetFS(f) ==
  /\ used' = f.used /\ isdir' = f.isdir /\ ent' = f.ent
  /\ cnt' = f.cnt /\ rm' = f.rm /\ crashed' = f.bad

\* inode_open (inode.c:268-307): a second opener increments open_cnt; the
\* first one puts a fresh inode, not removed, on the list.
inode_open(fs, s) ==
  IF s = ROOT_DIR_SECTOR THEN fs
  ELSE [fs EXCEPT !.cnt[s] = @ + 1,
                  !.rm[s] = IF fs.cnt[s] = 0 THEN FALSE ELSE @]

\* Mutant: the last closer releases the inode whether or not it was removed.
inode_close_ignore_removed(fs, s) ==
  CASE s = ROOT_DIR_SECTOR -> fs
    [] fs.cnt[s] = 0       -> [fs EXCEPT !.bad = "close_freed"]
    [] fs.cnt[s] > 1       -> [fs EXCEPT !.cnt[s] = @ - 1]
    [] OTHER               -> [fs EXCEPT !.cnt[s] = 0, !.used = @ \ {s},
                                         !.ent[s] = NoEntries]

\* inode_close (inode.c:320-349): the last closer takes the inode off the
\* list and, if it was removed, releases its sector and blocks (with them
\* a directory's entries).  Closing an inode no one has open touches
\* freed memory.
inode_close(fs, s) ==
  CASE s = ROOT_DIR_SECTOR -> fs
    [] fs.cnt[s] = 0       -> [fs EXCEPT !.bad = "close_freed"]
    [] fs.cnt[s] > 1       -> [fs EXCEPT !.cnt[s] = @ - 1]
    [] fs.rm[s]            -> [fs EXCEPT !.cnt[s] = 0, !.used = @ \ {s},
                                         !.ent[s] = NoEntries]
    [] OTHER               -> [fs EXCEPT !.cnt[s] = 0]

\* inode_create (inode.c:194-242) of a zero-length inode: the on-disk
\* inode with its is_dir flag and no blocks.
inode_create(fs, s, is_dir) ==
  [fs EXCEPT !.isdir[s] = is_dir, !.ent[s] = NoEntries]

\* free_map_allocate: the lowest free sector, or NULL when the map is full.
free_map_allocate(fs) ==
  IF Sectors \subseteq fs.used THEN NULL ELSE Min(Sectors \ fs.used)

free_map_release(fs, s) == [fs EXCEPT !.used = @ \ {s}]

\* dir_lookup: the sector an entry names, or NoEntry ("" names nothing).
dir_lookup(fs, d, n) == IF n \in Names THEN fs.ent[d][n] ELSE NoEntry

\* dir_add: fails on an empty or existing name.
dir_add(fs, d, n, s) ==
  IF n \notin Names \/ fs.ent[d][n] # NoEntry THEN [ok |-> FALSE, fs |-> fs]
  ELSE [ok |-> TRUE, fs |-> [fs EXCEPT !.ent[d][n] = s]]

\* dir_remove: the target is opened, a non-empty (or, unless
\* RemoveOpenDirs, an open) directory refused; else the entry is cleared,
\* the inode marked removed and closed.
dir_remove(fs, d, n) ==
  LET s == dir_lookup(fs, d, n)
      f1 == inode_open(fs, s)
  IN  IF s = NoEntry THEN [ok |-> FALSE, fs |-> fs]
      ELSE IF f1.isdir[s] /\ (f1.ent[s] # NoEntries
                              \/ (~RemoveOpenDirs /\ f1.cnt[s] > 1))
           THEN [ok |-> FALSE, fs |-> inode_close(f1, s)]
      ELSE [ok |-> TRUE,
            fs |-> inode_close([f1 EXCEPT !.ent[d][n] = NoEntry,
                                          !.rm[s] = TRUE], s)]

-----------------------------------------------------------------------------
(* Path resolution                                                         *)

\* The traversal loop of filesys_find_dir (filesys.c:83-104) from the
\* directory d it holds open, over the components but the last: each is
\* looked up (which opens it); a missing one closes d, a file closes d and
\* the file, a directory closes d and continues from it.
RECURSIVE Walk(_, _, _)
Walk(fs, d, cs) ==
  IF Len(cs) <= 1 THEN [dir |-> d, fs |-> fs]
  ELSE LET s == dir_lookup(fs, d, Head(cs)) IN
       IF s = NoEntry THEN [dir |-> NoDir, fs |-> inode_close(fs, d)]
       ELSE IF ~fs.isdir[s]
            THEN [dir |-> NoDir,
                  fs |-> inode_close(inode_close(inode_open(fs, s), d), s)]
       ELSE Walk(inode_close(inode_open(fs, s), d), s, Tail(cs))

\* Mutant: the walk starts from the caller's handle without dir_reopen.
filesys_find_dir_noreopen(fs, start, comps) ==
  LET w == Walk(fs, start, comps)
  IN  [dir |-> w.dir, fs |-> w.fs,
       final |-> IF comps = <<>> THEN Empty ELSE Last(comps)]

\* filesys_find_dir (filesys.c:74-116): the parent directory of the last
\* component, opened (dir_reopen of the start, line 81), and that
\* component ("" for a path with none); NoDir if the walk failed.
filesys_find_dir(fs, start, comps) ==
  LET w == Walk(inode_open(fs, start), start, comps)
  IN  [dir |-> w.dir, fs |-> w.fs,
       final |-> IF comps = <<>> THEN Empty ELSE Last(comps)]

\* Where resolution starts (filesys_create / _open / _remove, sys_chdir,
\* sys_mkdir): the root for an absolute path (dir_open_root), else the
\* process directory (process_current_dir).
StartDir(p, path) == IF path.abs THEN ROOT_DIR_SECTOR ELSE cwd[p]

\* dir_close of the result of filesys_find_dir (a no-op on NULL).
dir_close(fs, d) == IF d = NoDir THEN fs ELSE inode_close(fs, d)

\* filesys_find_and_create (filesys.c:118-147) from start: no creation in
\* a missing or removed parent; the sector is allocated, the inode
\* created and named in the parent, and released if the name is taken.
filesys_find_and_create(fs, start, comps) ==
  LET f == filesys_find_dir(fs, start, comps)
      d == f.dir
      s == free_map_allocate(f.fs)
      a == dir_add(inode_create([f.fs EXCEPT !.used = @ \cup {s}], s, FALSE),
                   d, f.final, s)
  IN  IF d = NoDir \/ f.fs.rm[d] \/ s = NULL THEN dir_close(f.fs, d)
      ELSE dir_close(IF a.ok THEN a.fs ELSE free_map_release(a.fs, s), d)

\* filesys_find_and_open (filesys.c:149-174): the inode the last
\* component names, opened by dir_lookup, or NoEntry.
filesys_find_and_open(fs, start, comps) ==
  LET f == filesys_find_dir(fs, start, comps)
      s == IF f.dir = NoDir THEN NoEntry ELSE dir_lookup(f.fs, f.dir, f.final)
  IN  [s |-> s,
       fs |-> IF s = NoEntry THEN dir_close(f.fs, f.dir)
              ELSE dir_close(inode_open(f.fs, s), f.dir)]

\* filesys_find_and_remove (filesys.c:176-193).
filesys_find_and_remove(fs, start, comps) ==
  LET f == filesys_find_dir(fs, start, comps)
  IN  IF f.dir = NoDir THEN f.fs
      ELSE dir_close(dir_remove(f.fs, f.dir, f.final).fs, f.dir)

\* filesys_create, filesys_open and filesys_remove (filesys.c:203-289):
\* resolution from the root for an absolute path, else from the process's
\* directory.
filesys_create(fs, p, path) ==
  filesys_find_and_create(fs, StartDir(p, path), path.comps)

filesys_open(fs, p, path) ==
  filesys_find_and_open(fs, StartDir(p, path), path.comps)

filesys_remove(fs, p, path) ==
  filesys_find_and_remove(fs, StartDir(p, path), path.comps)

-----------------------------------------------------------------------------
(* System calls of process p                                               *)

\* The "" argument that sys_create, sys_remove, sys_open and sys_mkdir
\* answer with failure before touching the file system.
EmptyPath == [abs |-> FALSE, comps |-> <<>>]

\* A process runs one system call at a time.
Idle(p) == Running /\ pend[p] = NoPend

FreeFds(p) == {f \in FDs : fd[p][f] = NULL}

\* sys_create (syscall.c:174-194), through filesys_create (filesys.c:203-218).
sys_create(p, path) ==
  /\ Idle(p) /\ path # EmptyPath
  /\ SetFS(filesys_create(FS, p, path))
  /\ UNCHANGED <<cwd, fd, pend>>

\* sys_remove (syscall.c:196-216), through filesys_remove (filesys.c:274-289).
sys_remove(p, path) ==
  /\ Idle(p) /\ path # EmptyPath
  /\ SetFS(filesys_remove(FS, p, path))
  /\ UNCHANGED <<cwd, fd, pend>>

\* sys_open (syscall.c:218-243), through filesys_open (filesys.c:240-255):
\* file_open keeps the inode dir_lookup opened, process_open_file puts it
\* in the lowest free descriptor.  A full table is beyond FDs.
sys_open(p, path) ==
  LET o == filesys_open(FS, p, path) IN
  /\ Idle(p) /\ path # EmptyPath /\ FreeFds(p) # {}
  /\ SetFS(o.fs)
  /\ fd' = IF o.s = NoEntry THEN fd
           ELSE [fd EXCEPT ![p][Min(FreeFds(p))] = o.s]
  /\ UNCHANGED <<cwd, pend>>

\* sys_close (syscall.c:375-400): file_close of a valid descriptor.
sys_close(p, f) ==
  /\ Idle(p) /\ fd[p][f] # NULL
  /\ SetFS(inode_close(FS, fd[p][f]))
  /\ fd' = [fd EXCEPT ![p][f] = NULL]
  /\ UNCHANGED <<cwd, pend>>

\* sys_chdir (syscall.c:504-543), first part: no check of an empty name;
\* resolve the parent and read the sector the final entry names (the
\* lookup half of dir_lookup).  A missing parent or entry fails; otherwise
\* the parent stays open and the sector is remembered, not yet opened.
ChdirLookup(p, path) ==
  LET f == filesys_find_dir(FS, StartDir(p, path), path.comps)
      s == IF f.dir = NoDir THEN NoEntry ELSE dir_lookup(f.fs, f.dir, f.final)
  IN
  /\ Idle(p)
  /\ IF s = NoEntry THEN SetFS(dir_close(f.fs, f.dir)) /\ UNCHANGED pend
     ELSE SetFS(f.fs) /\ pend' = [pend EXCEPT ![p] = [dir |-> f.dir, sec |-> s]]
  /\ UNCHANGED <<cwd, fd>>

\* sys_chdir, second part (syscall.c:536-566): dir_lookup's inode_open of
\* the sector read, the parent closed, then the checks.  When the inode is
\* not a directory, or is the current one, the call returns with it still
\* open; otherwise it becomes the directory (dir_open) and the old one is
\* closed.  Nothing tests that the entry still names the sector.
ChdirOpen(p) ==
  LET s == pend[p].sec
      g == dir_close(inode_open(FS, s), pend[p].dir)
  IN
  /\ Running /\ pend[p] # NoPend /\ "sec" \in DOMAIN pend[p]
  /\ IF ~g.isdir[s] \/ s = cwd[p] THEN SetFS(g) /\ UNCHANGED cwd
     ELSE SetFS(inode_close(g, cwd[p])) /\ cwd' = [cwd EXCEPT ![p] = s]
  /\ pend' = [pend EXCEPT ![p] = NoPend]
  /\ UNCHANGED fd

\* sys_mkdir (syscall.c:568-612), first part: resolve the parent and look
\* the name up.  An existing name fails, with the inode dir_lookup opened
\* left open; otherwise the parent stays open for the second part.
MkdirFind(p, path) ==
  LET f == filesys_find_dir(FS, StartDir(p, path), path.comps)
      s == IF f.dir = NoDir THEN NoEntry ELSE dir_lookup(f.fs, f.dir, f.final)
  IN
  /\ Idle(p) /\ path # EmptyPath
  /\ IF f.dir = NoDir THEN SetFS(f.fs) /\ UNCHANGED pend
     ELSE IF s # NoEntry
          THEN SetFS(dir_close(inode_open(f.fs, s), f.dir)) /\ UNCHANGED pend
     ELSE SetFS(f.fs) /\ pend' = [pend EXCEPT ![p] = [dir |-> f.dir, final |-> f.final]]
  /\ UNCHANGED <<cwd, fd>>

\* Mutant: the result of free_map_allocate is not tested.
MkdirAddNoSpaceCheck(p) ==
  LET d == pend[p].dir
      s == free_map_allocate(FS)
      a == dir_add(inode_create([FS EXCEPT !.used = @ \cup {s}], s, TRUE),
                   d, pend[p].final, s)
  IN
  /\ Running /\ pend[p] # NoPend /\ "final" \in DOMAIN pend[p]
  /\ SetFS(dir_close(IF a.ok THEN a.fs ELSE free_map_release(a.fs, s), d))
  /\ pend' = [pend EXCEPT ![p] = NoPend]
  /\ UNCHANGED <<cwd, fd>>

\* sys_mkdir, second part (syscall.c:614-626): allocate a sector, create
\* an empty directory inode there, name it in the parent, release the
\* sector if that fails, close the parent.  Unlike filesys_find_and_create
\* it does not test whether the parent was removed.
MkdirAdd(p) ==
  LET d == pend[p].dir
      s == free_map_allocate(FS)
      a == dir_add(inode_create([FS EXCEPT !.used = @ \cup {s}], s, TRUE),
                   d, pend[p].final, s)
  IN
  /\ Running /\ pend[p] # NoPend /\ "final" \in DOMAIN pend[p]
  /\ IF s = NULL THEN SetFS(dir_close(FS, d))
     ELSE SetFS(dir_close(IF a.ok THEN a.fs ELSE free_map_release(a.fs, s), d))
  /\ pend' = [pend EXCEPT ![p] = NoPend]
  /\ UNCHANGED <<cwd, fd>>

-----------------------------------------------------------------------------
\* filesys_init with a freshly formatted disk (do_format, filesys.c:300-309):
\* only the root directory, every process in it.
Init ==
  /\ used = {ROOT_DIR_SECTOR}
  /\ isdir = [s \in Sectors |-> s = ROOT_DIR_SECTOR]
  /\ ent = [s \in Sectors |-> NoEntries]
  /\ cnt = [s \in Sectors |-> 0]
  /\ rm = [s \in Sectors |-> FALSE]
  /\ cwd = [p \in Procs |-> ROOT_DIR_SECTOR]
  /\ fd = [p \in Procs |-> [f \in FDs |-> NULL]]
  /\ pend = [p \in Procs |-> NoPend]
  /\ crashed = "none"

Next ==
  \E p \in Procs :
    \/ \E path \in Paths :
         \/ sys_create(p, path) \/ sys_remove(p, path) \/ sys_open(p, path)
         \/ ChdirLookup(p, path) \/ MkdirFind(p, path)
    \/ \E f \in FDs : sys_close(p, f)
    \/ ChdirOpen(p)
    \/ MkdirAdd(p)

Spec == Init /\ [][Next]_vars

-----------------------------------------------------------------------------
(* Properties                                                              *)

TypeOK ==
  /\ used \subseteq Sectors /\ ROOT_DIR_SECTOR \in used
  /\ isdir \in [Sectors -> BOOLEAN]
  /\ ent \in [Sectors -> [Names -> Sectors \cup {NoEntry}]]
  /\ cnt \in [Sectors -> Nat] /\ rm \in [Sectors -> BOOLEAN]
  /\ cwd \in [Procs -> Sectors]
  /\ fd \in [Procs -> [FDs -> Sectors \cup {NULL}]]
  /\ \A p \in Procs : pend[p] = NoPend \/ pend[p].dir \in Sectors
  /\ crashed \in {"none", "close_freed"}

\* The handles the processes hold on inode s: a current directory, a
\* descriptor, or the parent a sys_mkdir or sys_chdir holds between its
\* two parts.
Holders(s) ==
  Cardinality({p \in Procs : cwd[p] = s})
  + Cardinality({<<p, f>> \in Procs \X FDs : fd[p][f] = s})
  + Cardinality({p \in Procs : pend[p] # NoPend /\ pend[p].dir = s})

\* No inode is closed more often than it is opened: every handle a process
\* holds is counted in its inode's open_cnt, so no handle outlives its
\* inode (whose sector the free map could hand out again).  Every path
\* through filesys_find_dir, sys_chdir and sys_mkdir must close exactly
\* what it opened, on the failure paths too.
RefCountCovers ==
  \A s \in Sectors \ {ROOT_DIR_SECTOR} : Holders(s) <= cnt[s]

\* A process's current directory is an allocated directory inode: sys_chdir
\* moves only to directories, and a directory stays allocated while it is
\* some process's current directory, even when it is removed.  sys_chdir
\* reads the entry and opens the sector it names in two steps without
\* lock_file; a sys_remove in between releases that sector, and nothing
\* checks again before the process makes it its directory.
CwdIsDir == \A p \in Procs : cwd[p] \in used /\ isdir[cwd[p]]

\* The inodes a process can still reach: the root, what it holds open, and
\* everything named, directly or not, in their directory entries.
Reachable ==
  LET G == [node |-> Sectors,
            edge |-> {<<e[1], ent[e[1]][e[2]]>> :
                        e \in {q \in used \X Names : ent[q[1]][q[2]] # NoEntry}}]
      R == {ROOT_DIR_SECTOR} \cup {s \in Sectors : Holders(s) > 0}
  IN  R \cup UNION {Descendants(G, r) : r \in R}

\* No allocated sector is lost: every inode that is allocated can be reached
\* from the root or from a handle.  The inode opened by dir_lookup must be
\* closed on every path that drops it (sys_chdir, sys_mkdir), and no entry
\* may be added to a directory that is removed.
NoLostInode == Running => used \subseteq Reachable

\* No directory entry dangles: every name in a directory that is allocated
\* and not removed leads to an allocated inode that is not removed, so a
\* lookup never opens a freed sector, or one the free map has handed to a
\* new file.  dir_remove must clear the entry before the inode is released,
\* inode_close may release only a removed inode, and a failed create or
\* mkdir must release only the sector it did not name.
EntriesLive ==
  LET Removed(s) == cnt[s] > 0 /\ rm[s]  \* rm is read only while open
  IN  \A d \in used : isdir[d] /\ ~Removed(d) =>
        \A n \in Names : ent[d][n] # NoEntry =>
          ent[d][n] \in used /\ ~Removed(ent[d][n])

=============================================================================
