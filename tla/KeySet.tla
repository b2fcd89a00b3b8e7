------------------------------- MODULE KeySet -------------------------------
(***************************************************************************)
(* What proj1's B+tree promises of its file: a set of keys that takes new  *)
(* ones, one at a time and once, and is emptied as a whole.                *)
(***************************************************************************)
EXTENDS FiniteSets

CONSTANT Keys

VARIABLE stored

Init == stored = {}

Add   == \E k \in Keys \ stored : stored' = stored \cup {k}
Clear == stored' = {}

Next == Add \/ Clear

Spec == Init /\ [][Next]_stored
=============================================================================
