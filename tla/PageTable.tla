----------------------------- MODULE PageTable ------------------------------
(***************************************************************************)
(* The supplementary page table of one process (src/vm/page.c) as pure    *)
(* operators.  A table is a function from user pages to NoPte or to an     *)
(* entry that keeps the fields of struct page_table_entry: frame (NoFrame  *)
(* for NULL), block (the swap slot), file (is the file pointer non-NULL;   *)
(* a process only maps its own file), offset (page index in that file) and *)
(* disk.  The C struct keeps these fields independently; the operators     *)
(* below update exactly the fields each C function assigns.                *)
(***************************************************************************)
CONSTANTS NoPte, NoFrame

\* The entry page_table_insert_* mallocs on a miss (page.c:46-51):
\* frame NULL, disk false, file NULL.  block and offset are assigned by
\* every caller that later reads them.
LOCAL FreshEntry == [frame |-> NoFrame, block |-> 0, file |-> FALSE,
                     offset |-> 0, disk |-> FALSE]

LOCAL Current(pt, page) == IF pt[page] = NoPte THEN FreshEntry ELSE pt[page]

\* page_table_insert_file (page.c:40-61)
page_table_insert_file(pt, page, offset) ==
  [pt EXCEPT ![page] = [Current(pt, page) EXCEPT
                          !.frame = NoFrame, !.block = 0, !.disk = FALSE,
                          !.file = TRUE, !.offset = offset]]

\* page_table_insert_block (page.c:63-82): file and offset are kept.
page_table_insert_block(pt, page, block) ==
  [pt EXCEPT ![page] = [Current(pt, page) EXCEPT
                          !.frame = NoFrame, !.block = block, !.disk = TRUE]]

\* page_table_insert_frame (page.c:84-103): file and offset are kept, so a
\* resident mmap page still remembers where it is written back to.
page_table_insert_frame(pt, page, frame) ==
  [pt EXCEPT ![page] = [Current(pt, page) EXCEPT
                          !.frame = frame, !.block = 0, !.disk = FALSE]]

\* page_table_find (page.c:105-117)
page_table_find(pt, page) == pt[page]
=============================================================================
