---------------------------- MODULE TeamsRecord ----------------------------
(***************************************************************************)
(* The keys of proj1's B+tree (TeamsRecord.h): the field that is searched, *)
(* and the number of the row.  No row has the number -1: as the end of a   *)
(* range it stands for any.  The other fields of a record travel with its  *)
(* key and are left out.                                                   *)
(***************************************************************************)
EXTENDS Integers

Key(fg, id) == [fg |-> fg, id |-> id]
AnyId == -1

\* operator< and operator>: the order of the tree.
Less(a, b)    == a.fg < b.fg \/ (a.fg = b.fg /\ a.id < b.id)
Greater(a, b) == Less(b, a)

\* Mutant: the number of a row at the end of a range is taken for a number.
AtMostNoAny(a, b) == a.fg < b.fg \/ (a.fg = b.fg /\ a.id <= b.id)

\* operator>= and operator<=: the ends of a range.
AtLeast(a, b) == a.fg > b.fg \/ (a.fg = b.fg /\ (AnyId \in {a.id, b.id} \/ a.id >= b.id))
AtMost(a, b)  == a.fg < b.fg \/ (a.fg = b.fg /\ (AnyId \in {a.id, b.id} \/ a.id <= b.id))

\* What a key reads as in a page of zeros.
ZeroKey == Key(0, 0)
=============================================================================
