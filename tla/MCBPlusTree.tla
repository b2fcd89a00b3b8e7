---------------------------- MODULE MCBPlusTree ----------------------------
(* Tables of rows in many orders.                                          *)
EXTENDS BPlusTreeClient

\* Every table of five rows over three values, and long ones that are of one
\* value or two, fall, and come from both ends: the tree gets a third level.
\* Field 0 is what the bytes of a page of zeros read as.
MCTables ==
  [1..5 -> 0..2]
    \cup {[n \in 1..12 |-> 0], [n \in 1..9 |-> n % 2], [n \in 1..9 |-> 10 - n],
          [n \in 1..9 |-> IF n % 2 = 0 THEN 10 + n ELSE 10 - n]}

\* One long table in the order of its keys.
MCRising == {[n \in 1..18 |-> n]}
=============================================================================
