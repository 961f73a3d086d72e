------------------------------- MODULE MCInode ------------------------------
(* Model-checking instance of Inode; the constants are given in the .cfg  *)
(* files.                                                                  *)
EXTENDS Inode

\* The state up to the content of sectors nothing reads again: the pointer
\* view of a sector that is not an index block of a live inode (allocate_block
\* rewrites an index block when it takes it; free_blocks reads only those of
\* the inode it frees) and the on-disk inode of a sector that is not a closed inode
\* in the directory (inode_open reads only those; inode_close rewrites the
\* others before they are read).
InodeView ==
  LET InDir == {dir[n] : n \in {m \in Names : dir[m] # NoEntry}}
      Leaves(s) == {s} \cup {Lookup(DataOf(s), p) : p \in Positions}
      IndexBlocks == UNION {Refs(s) \ Leaves(s) : s \in Live}
  IN
  <<used, dir, open, crashed,
    [s \in Sectors |-> IF s \in IndexBlocks THEN idx[s] ELSE EmptyIndex],
    [s \in Sectors |-> IF s \in InDir /\ open[s] = NoInode THEN dinode[s]
                                                            ELSE NoInode]>>
=============================================================================
