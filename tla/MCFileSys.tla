----------------------------- MODULE MCFileSys -------------------------------
(***************************************************************************)
(* FileSys for TLC: two processes, the root and three more inode sectors, *)
(* two names, paths of up to two components, two descriptors each.         *)
(***************************************************************************)
EXTENDS FileSys, TLC

\* Every path of at most two components, absolute or relative.
MCPaths ==
  {[abs |-> a, comps |-> c] : a \in BOOLEAN, c \in BoundedSeq(Names, 2)}

\* Leaked opens (sys_chdir, sys_mkdir) let an open count grow without end.
MaxOpenCnt == 2

OpenCntBound == \A s \in Sectors : cnt[s] <= MaxOpenCnt

\* Processes and names are interchangeable: every path over one name is
\* in MCPaths with the other.
Symm == Permutations(Procs) \cup Permutations(Names)
==============================================================================
