----------------------------- MODULE FrameTable -----------------------------
(***************************************************************************)
(* The global frame table of src/vm/frame.c as pure operators on a value. *)
(*                                                                         *)
(* A frame table is a record                                               *)
(*   [hash |-> a function from resident frames to [owner, page],           *)
(*    list |-> a sequence of list elements [frame, live]]                  *)
(* `hash` is struct frame_table.hash, `list` is struct frame_table.list    *)
(* (the FIFO victim queue).  A list element stands for one malloc'd        *)
(* struct frame_table_entry; `live` is FALSE once that entry has been      *)
(* freed while its list_elem is still linked (see page_table_entry_destroy *)
(* in PageTable).                                                          *)
(***************************************************************************)
EXTENDS Sequences, TLC

EmptyFrameTable == [hash |-> <<>>, list |-> <<>>]

\* frame_table_find: is there an entry for `frame` in the hash?
frame_table_find(ft, frame) == frame \in DOMAIN ft.hash

\* Mutant: an entry found in the hash keeps its old owner and page.
frame_table_insert_keep_owner(ft, process, frame, page) ==
  [hash |-> ft.hash @@ (frame :> [owner |-> process, page |-> page]),
   list |-> IF frame_table_find(ft, frame)
              THEN ft.list
              ELSE Append(ft.list, [frame |-> frame, live |-> TRUE])]

\* frame_table_insert (frame.c:37-53): upsert the hash entry, then
\* list_push_back the entry's list_elem.  On a hit the entry is the one
\* already linked in the list; pushing it again is what WouldRelink flags.
\* The list is then left as it was: in the only order the code reaches
\* (the victim was just rotated to the tail) the element stays at the tail.
frame_table_insert(ft, process, frame, page) ==
  [hash |-> (frame :> [owner |-> process, page |-> page]) @@ ft.hash,
   list |-> IF frame_table_find(ft, frame)
              THEN ft.list
              ELSE Append(ft.list, [frame |-> frame, live |-> TRUE])]

\* list_push_back of an element that is already linked (frame.c:52).
WouldRelink(ft, frame) == frame_table_find(ft, frame)

\* frame_table_select_victim (frame.c:82-117): list_pop_front, read the
\* entry's frame, list_push_back the same element.
VictimElem(ft) == Head(ft.list)
frame_table_select_victim(ft) ==
  [ft EXCEPT !.list = Append(Tail(@), Head(@))]

\* The hash_delete + free(fte) of page_table_entry_destroy (page.c:140-142)
\* for each resident page of a process: the entries leave the hash and are
\* freed, their list_elems stay linked.
frame_table_destroy_entries(ft, frames) ==
  [hash |-> [f \in DOMAIN ft.hash \ frames |-> ft.hash[f]],
   list |-> [i \in DOMAIN ft.list |->
               IF ft.list[i].frame \in frames
                 THEN [ft.list[i] EXCEPT !.live = FALSE]
                 ELSE ft.list[i]]]
=============================================================================
