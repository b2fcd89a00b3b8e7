---------------------------- MODULE DiskManager ----------------------------
(***************************************************************************)
(* proj1's DiskManager (DiskManager.cpp): a file of leaf pages, and a      *)
(* context file whose existence tells that there is a database.  A page is *)
(* longer than what the stream buffers, so that each write is in the file  *)
(* when it returns.  freePage is never called and left out.                *)
(***************************************************************************)
EXTENDS TeamsRecord, FiniteSets, Sequences, SequencesExt

VARIABLES
  ctx,        \* whether the context file exists
  file,       \* whether the file of pages exists
  kept,       \* has_init_ctx_: whether this process found a database
  pages,      \* the file: its pages by number, from 0 without gaps
  pageCount   \* page_count_: the pages this process has allocated

diskVars == <<ctx, file, kept, pages, pageCount>>

NoPage == -1

\* A page is a leaf: its keys in order, its own number and the next leaf's.
ZeroPage    == [keys |-> <<>>, pageId |-> 0, next |-> 0]
NewPage(id) == [keys |-> <<>>, pageId |-> id, next |-> NoPage]

DiskInit ==
  ctx = FALSE /\ file = FALSE /\ kept = FALSE /\ pages = <<>> /\ pageCount = 0

\* The constructor opens, or creates, the context file first.
OpenContext(trunc) ==
  /\ kept' = (ctx /\ ~trunc)
  /\ ctx' = TRUE
  /\ pageCount' = 0
  /\ UNCHANGED <<file, pages>>

\* The constructor goes on with the file of pages.  Without a database it is
\* created or emptied; with one it must exist.
CanOpenFile == kept => file
OpenFile ==
  /\ CanOpenFile
  /\ file' = TRUE
  /\ pages' = IF kept THEN pages ELSE <<>>
  /\ UNCHANGED <<ctx, kept, pageCount>>

\* Mutant: the last page is zeroed, not one behind it.
AllocateLastPage ==
  LET id == IF pageCount = 0 THEN 0 ELSE pageCount - 1
  IN  /\ pages' = [p \in DOMAIN pages \cup {pageCount} |-> IF p \in {id, pageCount} THEN ZeroPage ELSE pages[p]]
      /\ pageCount' = pageCount + 1
      /\ UNCHANGED <<ctx, file, kept>>

\* allocatePage: the page that the counter names is zeroed, whatever it holds.
AllocatePage ==
  /\ pages' = [p \in DOMAIN pages \cup {pageCount} |-> IF p = pageCount THEN ZeroPage ELSE pages[p]]
  /\ pageCount' = pageCount + 1
  /\ UNCHANGED <<ctx, file, kept>>

WritePage(id, page) ==
  /\ pages' = [pages EXCEPT ![id] = page]
  /\ UNCHANGED <<ctx, file, kept, pageCount>>

TotalPages == Cardinality(DOMAIN pages)

\* keys[0] of a page.
FirstKey(page) == IF page.keys = <<>> THEN ZeroKey ELSE Head(page.keys)

\* readAllPage: all pages in the order of their first keys.
ReadAllPage ==
  LET before(p, q) == Less(FirstKey(p), FirstKey(q))
  IN  SortSeq([i \in 1..TotalPages |-> pages[i - 1]], before)
=============================================================================
