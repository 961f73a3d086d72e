------------------------------- MODULE Syscall -------------------------------
(***************************************************************************)
(* The system-call entry of userprog/syscall.c: syscall_handler's dispatch *)
(* through its handler table, the argument fetch of every handler          *)
(* (is_valid, get_integer, get_pointer), the fd and name checks a handler  *)
(* makes before it calls into the file system, and the bytes it then       *)
(* touches through a pointer, a length or an index the user supplied.      *)
(* What the file-system and VM calls do after that is modelled in FileSys  *)
(* and VM; here they only return.                                          *)
(*                                                                         *)
(* Memory is abstracted to addresses: a word the handler reads may hold    *)
(* any value, so the values are inputs of the step, and what the model     *)
(* keeps is which addresses were touched.  A kernel access to a user page  *)
(* with no page-table entry is a page fault in kernel mode, which          *)
(* page_fault (exception.c:199-210) resolves as stack growth or by         *)
(* killing the process.  The handler runs in the calling thread with no    *)
(* lock held until the file layer, so one call is one step.                *)
(***************************************************************************)
EXTENDS Integers, FiniteSets

CONSTANTS
  PGSIZE,          \* bytes per page
  PHYS_BASE,       \* first kernel address
  ADDR_SPACE,      \* 2^32, the range of a pointer (scaled with PHYS_BASE)
  MAX_FILE_COUNT,  \* size of process.files[] (process.h:22)
  NAME_MAX,        \* longest file name (directory.h); temp holds NAME_MAX + 1
  Esps,            \* values of the user esp at the int 0x30
  Args,            \* values the user leaves in the argument words
  Lens             \* lengths (with the NUL) of user strings, bytes transferred

VARIABLES
  pages,    \* user pages with a supplementary page-table entry
  files,    \* files[fd]: "none" (NULL), or an open "file" or "dir"
  status,   \* "run", or how the process ended
  last,     \* the handler the last call reached and how it returned
  wild      \* some call touched memory outside what it may touch

vars == <<pages, files, status, last, wild>>

WORD == 4
STDIN_FILENO == 0
STDOUT_FILENO == 1
MIN_FILE_COUNT == 2            \* process.h:23
STACK_SLACK == 32              \* exception.c:192, 202
FDs == 0..(MAX_FILE_COUNT - 1)
UserPages == 0..(PHYS_BASE \div PGSIZE - 1)
PageOf(a) == a \div PGSIZE

\* The C conversion of an int to a pointer or an unsigned int.
Unsigned(v) == v % ADDR_SPACE

\* The handler table of syscall_handler with PR_VM and PR_FS defined.
Handlers == <<"halt", "exit", "exec", "wait", "create", "remove", "open",
              "filesize", "read", "write", "seek", "tell", "close",
              "mmap", "munmap", "chdir", "mkdir", "readdir", "isdir",
              "inumber">>
SYSCALL_COUNT == 20

\* The state of one call as it runs: res is "go" while the handler runs.
Go == [res |-> "go", pages |-> pages, files |-> files, wild |-> FALSE]

\* is_valid with PR_VM: below PHYS_BASE, and a page with an entry or a
\* page whose base is at or above esp.
is_valid(uaddr, esp, pg) ==
  /\ uaddr < PHYS_BASE
  /\ PageOf(uaddr) \in pg \/ esp =< PageOf(uaddr) * PGSIZE

\* exit_status(PID_ERROR) when a check fails.
Check(s, ok) == IF s.res = "go" /\ ~ok THEN [s EXCEPT !.res = "killed"] ELSE s

Ret(s) == IF s.res = "go" THEN [s EXCEPT !.res = "ret"] ELSE s

\* The kernel touches bytes lo..hi.  A user page without an entry faults:
\* page_fault's kernel branch grows the stack when the saved esp - 32 (a
\* pointer, so it wraps below 32) is at most the faulting address, and
\* kills the process otherwise.  Kernel addresses do not fault: those
\* bytes are kernel memory read or overwritten.
Touch(s, esp, lo, hi) ==
  LET top == IF hi < PHYS_BASE THEN hi ELSE PHYS_BASE - 1
      U == IF lo < PHYS_BASE THEN PageOf(lo)..PageOf(top) ELSE {}
      First(pg) == IF pg = PageOf(lo) THEN lo ELSE pg * PGSIZE
      bad == {pg \in U \ s.pages : First(pg) < Unsigned(esp - STACK_SLACK)}
  IN CASE s.res # "go" -> s
       [] bad # {}     -> [s EXCEPT !.res = "killed"]
       [] OTHER        -> [s EXCEPT !.pages = @ \cup U,
                                    !.wild = @ \/ hi >= PHYS_BASE]

get_integer(s, esp, i) ==
  LET a == esp + WORD * i
  IN Touch(Check(s, is_valid(a, esp, s.pages)), esp, a, a + WORD - 1)

get_pointer(s, esp, i, ptr) ==
  LET t == get_integer(s, esp, i) IN Check(t, is_valid(ptr, esp, t.pages))

\* process.c is not among the sources: a valid fd is an open slot of the
\* table at or above MIN_FILE_COUNT, and a new file takes the lowest free
\* slot (or the call returns -1 when the table is full).
process_valid_fd(s, fd) == fd \in MIN_FILE_COUNT..(MAX_FILE_COUNT - 1)
                           /\ s.files[fd] # "none"
process_open_file(s, kind) ==
  LET free == {fd \in MIN_FILE_COUNT..(MAX_FILE_COUNT - 1) : s.files[fd] = "none"}
  IN IF free = {} THEN s
     ELSE LET fd == CHOOSE x \in free : \A y \in free : x =< y
          IN [s EXCEPT !.files[fd] = kind]

\* strlen and strlcpy (temp, name, strlen (name) + 1) of an n-byte name:
\* the name is read, and n bytes are written into the NAME_MAX + 1 bytes
\* malloc gave temp.
CopyName(s, esp, ptr, n) ==
  LET t == Touch(s, esp, ptr, ptr + n - 1)
  IN IF t.res = "go" /\ n > NAME_MAX + 1 THEN [t EXCEPT !.wild = TRUE] ELSE t

\* The check !name || !strcmp (name, "") of create, remove and open.
NamedCall(s, esp, ptr, n) ==
  LET t == Touch(s, esp, ptr, ptr)
  IN CASE ptr = 0 -> s
       [] n = 1   -> t
       [] OTHER   -> CopyName(t, esp, ptr, n)

sys_halt(s) == IF s.res = "go" THEN [s EXCEPT !.res = "halt"] ELSE s

sys_exit(s, esp) ==
  LET t == get_integer(s, esp, 1)
  IN IF t.res = "go" THEN [t EXCEPT !.res = "exit"] ELSE t

sys_exec(s, esp, w) == Ret(get_pointer(s, esp, 1, Unsigned(w[1])))

sys_wait(s, esp) == Ret(get_integer(s, esp, 1))

sys_create(s, esp, w, n) ==
  LET ptr == Unsigned(w[1])
      t == get_integer(get_pointer(s, esp, 1, ptr), esp, 2)
  IN Ret(NamedCall(t, esp, ptr, n))

sys_remove(s, esp, w, n) ==
  LET ptr == Unsigned(w[1])
  IN Ret(NamedCall(get_pointer(s, esp, 1, ptr), esp, ptr, n))

\* filesys_open returns NULL ("fail") or a file or directory handle.
sys_open(s, esp, w, n, o) ==
  LET ptr == Unsigned(w[1])
      t == NamedCall(get_pointer(s, esp, 1, ptr), esp, ptr, n)
  IN Ret(IF t.res = "go" /\ ptr # 0 /\ n > 1 /\ o # "fail"
         THEN process_open_file(t, o) ELSE t)

\* filesize, seek and tell check the fd and call file_length, file_seek or
\* file_tell; nothing this model keeps changes.
sys_filesize(s, esp) == Ret(get_integer(s, esp, 1))
sys_seek(s, esp) == Ret(get_integer(get_integer(s, esp, 1), esp, 2))
sys_tell(s, esp) == Ret(get_integer(s, esp, 1))

\* A file_read or file_write of fd: fd is valid and not a directory.
FileIO(s, fd) == process_valid_fd(s, fd) /\ s.files[fd] = "file"

\* sys_read: fd 0 reads the keyboard and discards it; otherwise file_read
\* stores min (size, what the file holds) bytes at buffer.
sys_read(s, esp, w, n) ==
  LET fd == w[1]
      buf == Unsigned(w[2])
      size == Unsigned(w[3])
      t == get_integer(get_pointer(get_integer(s, esp, 1), esp, 2, buf), esp, 3)
      k == IF n < size THEN n ELSE size
  IN Ret(IF fd \notin {STDIN_FILENO, STDOUT_FILENO} /\ FileIO(t, fd) /\ k > 0
         THEN Touch(t, esp, buf, buf + k - 1) ELSE t)

\* sys_write: putbuf (buffer, size) for fd 1; file_write for a file, which
\* grows the file and so reads all size bytes of the buffer.
sys_write(s, esp, w) ==
  LET fd == w[1]
      buf == Unsigned(w[2])
      size == Unsigned(w[3])
      t == get_integer(get_pointer(get_integer(s, esp, 1), esp, 2, buf), esp, 3)
      out == fd = STDOUT_FILENO \/ (fd # STDIN_FILENO /\ FileIO(t, fd))
  IN Ret(IF out /\ size > 0 THEN Touch(t, esp, buf, buf + size - 1) ELSE t)

sys_close(s, esp, w) ==
  LET t == get_integer(s, esp, 1)
  IN Ret(IF t.res = "go" /\ process_valid_fd(t, w[1])
         THEN [t EXCEPT !.files[w[1]] = "none"] ELSE t)

\* sys_mmap reads its page argument with no check (line 405) and indexes
\* p->files[fd] before any check of fd (line 414).
sys_mmap(s, esp, w) ==
  LET t == Touch(get_integer(s, esp, 1), esp, esp + 2 * WORD, esp + 3 * WORD - 1)
  IN Ret(IF t.res = "go" /\ w[1] \notin FDs THEN [t EXCEPT !.wild = TRUE] ELSE t)

sys_munmap(s, esp) == Ret(get_integer(s, esp, 1))

\* sys_chdir copies the name at once; sys_mkdir first compares it with "".
sys_chdir(s, esp, w, n) ==
  LET ptr == Unsigned(w[1])
  IN Ret(CopyName(get_pointer(s, esp, 1, ptr), esp, ptr, n))

sys_mkdir(s, esp, w, n) ==
  LET ptr == Unsigned(w[1])
      t == Touch(get_pointer(s, esp, 1, ptr), esp, ptr, ptr)
  IN Ret(IF n = 1 THEN t ELSE CopyName(t, esp, ptr, n))

\* dir_readdir on a directory fd stores the next name, at most
\* NAME_MAX + 1 bytes, at the user pointer.
sys_readdir(s, esp, w, n) ==
  LET ptr == Unsigned(w[2])
      t == get_pointer(get_integer(s, esp, 1), esp, 2, ptr)
      m == IF n < NAME_MAX + 1 THEN n ELSE NAME_MAX + 1
  IN Ret(IF t.res = "go" /\ process_valid_fd(t, w[1]) /\ t.files[w[1]] = "dir"
         THEN Touch(t, esp, ptr, ptr + m - 1) ELSE t)

sys_isdir(s, esp) == Ret(get_integer(s, esp, 1))
sys_inumber(s, esp) == Ret(get_integer(s, esp, 1))

Dispatch(h, s, esp, w, n, o) ==
  CASE h = "halt"     -> sys_halt(s)
    [] h = "exit"     -> sys_exit(s, esp)
    [] h = "exec"     -> sys_exec(s, esp, w)
    [] h = "wait"     -> sys_wait(s, esp)
    [] h = "create"   -> sys_create(s, esp, w, n)
    [] h = "remove"   -> sys_remove(s, esp, w, n)
    [] h = "open"     -> sys_open(s, esp, w, n, o)
    [] h = "filesize" -> sys_filesize(s, esp)
    [] h = "read"     -> sys_read(s, esp, w, n)
    [] h = "write"    -> sys_write(s, esp, w)
    [] h = "seek"     -> sys_seek(s, esp)
    [] h = "tell"     -> sys_tell(s, esp)
    [] h = "close"    -> sys_close(s, esp, w)
    [] h = "mmap"     -> sys_mmap(s, esp, w)
    [] h = "munmap"   -> sys_munmap(s, esp)
    [] h = "chdir"    -> sys_chdir(s, esp, w, n)
    [] h = "mkdir"    -> sys_mkdir(s, esp, w, n)
    [] h = "readdir"  -> sys_readdir(s, esp, w, n)
    [] h = "isdir"    -> sys_isdir(s, esp)
    [] h = "inumber"  -> sys_inumber(s, esp)

\* syscall_handler: validate esp, read the 4-byte number at esp, and call
\* handler[number] with no bound check: an index past the table calls
\* whatever the kernel stack holds there.
syscall_handler(esp, num, w, n, o) ==
  LET s == Touch(Check(Go, is_valid(esp, esp, pages)), esp, esp, esp + WORD - 1)
  IN CASE s.res # "go"         -> s
       [] num >= SYSCALL_COUNT -> [s EXCEPT !.res = "ret", !.wild = TRUE]
       [] OTHER                -> Dispatch(Handlers[num + 1], s, esp, w, n, o)

Init ==
  /\ pages \in SUBSET UserPages
  /\ files = [fd \in FDs |-> "none"]
  /\ status = "run"
  /\ last = [call |-> "none", esp |-> 0, args |-> <<0, 0, 0>>, len |-> 0,
              res |-> "none"]
  /\ wild = FALSE

\* The process traps with int 0x30.
SysCall(esp, num, w, n, o) ==
  LET r == syscall_handler(esp, num, w, n, o) IN
  /\ status = "run"
  /\ pages' = r.pages
  /\ files' = r.files
  /\ wild' = (wild \/ r.wild)
  /\ status' = CASE r.res = "killed" -> "killed"
                 [] r.res = "exit"   -> "exited"
                 [] r.res = "halt"   -> "halted"
                 [] OTHER            -> "run"
  /\ last' = [call |-> IF num < SYSCALL_COUNT THEN Handlers[num + 1] ELSE "none",
              esp |-> esp, args |-> w, len |-> n, res |-> r.res]

Next ==
  \E esp \in Esps, num \in 0..SYSCALL_COUNT, w \in [1..3 -> Args],
     n \in Lens, o \in {"fail", "file", "dir"} :
       SysCall(esp, num, w, n, o)

Spec == Init /\ [][Next]_vars

-----------------------------------------------------------------------------
(* Properties                                                              *)

TypeOK ==
  /\ pages \subseteq UserPages
  /\ files \in [FDs -> {"none", "file", "dir"}]
  /\ status \in {"run", "killed", "exited", "halted"}
  /\ wild \in BOOLEAN

\* Every byte the kernel touches through an address, a length or an index
\* a user program supplied lies in user memory below PHYS_BASE, in the
\* kernel buffer it copies into, or in the table it indexes: the syscall
\* number and argument words (syscall_handler, get_integer), the buffers
\* of read, write and readdir, the names copied into temp, sys_mmap's
\* files[fd], and handler[number].  A bad address must end the process
\* (exit_status), not reach kernel memory.
NoWildAccess == ~wild

=============================================================================
