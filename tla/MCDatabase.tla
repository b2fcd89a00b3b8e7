----------------------------- MODULE MCDatabase -----------------------------
(* Tables and ranges for the runs of Database.                             *)
EXTENDS Database

\* Every table of up to three rows over the keys 1 and 3, one over three keys
\* with a chain of three blocks for one of them, one with a row that has no key
\* value (the key MaxKey), one with a bad row.
MCTables == UNION {[1..n -> {1, 3}] : n \in 0..3}
              \cup {<<5, 1, 3, 1, 1, 5>>, <<3, MaxKey>>, <<3, BadRow>>}
\* Few tables, for runs that load several times and die anywhere.
MCFewTables == {<<3, 1, 3>>, <<1, 5>>, <<>>, <<1, BadRow>>}
MCOneTable == {<<3, 1, 3>>}
\* Every range over 0..5, some of them, and the whole of it.
MCRanges == (0..5) \X (0..5)
MCFewRanges == {<<0, 5>>, <<1, 1>>, <<2, 5>>}
MCWholeRange == {<<0, 5>>}
=============================================================================
