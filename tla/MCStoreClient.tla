--------------------------- MODULE MCStoreClient ---------------------------
(* Small stores: two blocks of each kind that differ in one field.         *)
EXTENDS StoreReader

MCContents ==
  {[EmptyData EXCEPT !.next = n] : n \in {0, BlockNull}}
    \cup {EmptyNode(leaf) : leaf \in BOOLEAN}
=============================================================================
