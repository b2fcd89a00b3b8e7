--------------------------- MODULE AtomicDatabase ---------------------------
(***************************************************************************)
(* What project1's database file promises over any number of loads, of     *)
(* which some die: a table is in the file as a whole or not at all, what   *)
(* was stored stays, and the index is that of the last table that had a    *)
(* row.  There are no blocks, ids or crashes here.                         *)
(***************************************************************************)
CONSTANT Tables     \* the tables, as sets of records, that loads may bring

VARIABLES
  stored,    \* records a scan of the file finds
  indexed    \* records its index leads to

Init == stored = {} /\ indexed = {}

LoadTable(table) ==
  /\ table \cap stored = {}
  /\ stored' = stored \cup table
  /\ indexed' = IF table = {} THEN indexed ELSE table

Next == \E table \in Tables : LoadTable(table)

Spec == Init /\ [][Next]_<<stored, indexed>>
=============================================================================
