----------------------------- MODULE CacheStore -----------------------------
(***************************************************************************)
(* What the buffer cache promises its callers (design sections 5 and 8):  *)
(* a store of sector contents that changes only when a sector is written  *)
(* or freed, and not at all once the file system is shut down.            *)
(*                                                                         *)
(* content[s] is what a read of sector s returns; last[s] is the value    *)
(* last written to s, or NoVal once s was freed (a freed sector's content *)
(* may be anything).  open is FALSE after filesys_done.                   *)
(***************************************************************************)
CONSTANTS Sectors, Vals, NoVal

VARIABLES content, last, open

storeVars == <<content, last, open>>

StoreInit ==
  /\ content = [s \in Sectors |-> 0]
  /\ last = [s \in Sectors |-> 0]
  /\ open = TRUE

\* A write of v to s: reads of s return v from now on.
Write(s, v) ==
  /\ open
  /\ content' = [content EXCEPT ![s] = v]
  /\ last' = [last EXCEPT ![s] = v]
  /\ UNCHANGED open

\* Freeing s: its content is no longer defined.
Free(s) ==
  /\ open
  /\ last' = [last EXCEPT ![s] = NoVal]
  /\ \E v \in Vals : content' = [content EXCEPT ![s] = v]
  /\ UNCHANGED open

\* Shutdown: the store keeps its content from now on.
Close ==
  /\ open
  /\ open' = FALSE
  /\ UNCHANGED <<content, last>>

StoreNext ==
  \/ \E s \in Sectors, v \in Vals : Write(s, v)
  \/ \E s \in Sectors : Free(s)
  \/ Close

StoreSpec == StoreInit /\ [][StoreNext]_storeVars

\* A sector that has not been freed reads back its last write.
StoreCoherent == \A s \in Sectors : last[s] # NoVal => content[s] = last[s]
=============================================================================
