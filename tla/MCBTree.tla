------------------------------ MODULE MCBTree ------------------------------
(* Every set of at most seven keys, nodes of one to three keys.            *)
EXTENDS BTreeClient

MCKeys == 0..6
MCCapacities == 1..3
=============================================================================
