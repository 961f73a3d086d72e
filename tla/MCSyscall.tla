------------------------------ MODULE MCSyscall ------------------------------
EXTENDS Syscall

\* Argument words: -1 (a negative fd, a pointer into the kernel, the
\* largest size), 0 (NULL, stdin, size 0), 2 (the first file fd), 4 (one
\* past files[]), 40 (a pointer into the third user page) and 62 (a pointer
\* two bytes below PHYS_BASE).
MCArgs == {-1, 0, 2, 4, 40, 62}
=============================================================================
