------------------------------- MODULE Basics -------------------------------
(***************************************************************************)
(* Lemmas about numbers and sequences that several proofs share.  Proofs   *)
(* about searches and insertions go by the first number for which a claim  *)
(* would fail: every nonempty set of natural numbers has a least element.  *)
(***************************************************************************)
EXTENDS Integers, SequencesExt, SequenceTheorems, WellFoundedInduction, TLAPS

LEMMA LeastNat ==
  ASSUME NEW T, T \subseteq Nat, T # {}
  PROVE  \E n \in T : \A m \in T : n <= m
<1> DEFINE R == {ss \in Nat \X Nat : ss[1] < ss[2]}
<1>1. IsWellFoundedOn(R, Nat)
  BY NatLessThanWellFounded, Zenon DEF OpToRel
<1> HIDE DEF R
<1>2. PICK n \in T : \A m \in T : ~(<<m, n>> \in R)
  BY <1>1, WFMin, Zenon
<1>3. \A m \in T : <<m, n>> \in Nat \X Nat /\ <<m, n>>[1] = m /\ <<m, n>>[2] = n
  BY SMT
<1>4. \A m \in T : ~(m < n)
  BY <1>2, <1>3 DEF R
<1> QED BY <1>4, SMT

\* Max is defined by choice; on a bounded set there is something to choose.
LEMMA MaxLemma ==
  ASSUME NEW S, NEW bound \in Nat, S \subseteq 0..bound, S # {}
  PROVE  Max(S) \in S /\ \A m \in S : Max(S) >= m
<1> DEFINE T == {bound - m : m \in S}
<1>1. T \subseteq Nat /\ T # {}
  <2>1. \A m \in S : bound - m \in Nat
    BY SMT
  <2> QED BY <2>1, Zenon
<1> HIDE DEF T
<1>2. PICK n \in T : \A m \in T : n <= m
  BY <1>1, LeastNat
<1>3. PICK top \in S : n = bound - top
  BY <1>2 DEF T
<1>4. \A m \in S : bound - m \in T
  BY DEF T
<1>5. \A m \in S : top >= m
  BY <1>2, <1>3, <1>4, SMT
<1> QED BY <1>5 DEF Max

\* Inserting an element moves those behind it.
LEMMA InsertAtFacts ==
  ASSUME NEW S, NEW s \in Seq(S), NEW n \in 1..Len(s) + 1, NEW x \in S
  PROVE  /\ InsertAt(s, n, x) \in Seq(S) /\ Len(InsertAt(s, n, x)) = Len(s) + 1
         /\ DOMAIN InsertAt(s, n, x) = 1..Len(s) + 1
         /\ \A i \in 1..n - 1 : InsertAt(s, n, x)[i] = s[i]
         /\ InsertAt(s, n, x)[n] = x
         /\ \A i \in n + 1..Len(s) + 1 : InsertAt(s, n, x)[i] = s[i - 1]
<1> DEFINE l == SubSeq(s, 1, n - 1)
           r == SubSeq(s, n, Len(s))
<1>1. /\ l \in Seq(S) /\ Len(l) = n - 1 /\ \A i \in 1..n - 1 : l[i] = s[i]
      /\ r \in Seq(S) /\ Len(r) = Len(s) - n + 1
      /\ \A i \in 1..Len(s) - n + 1 : r[i] = s[n + i - 1]
  BY SMT
<1>2. InsertAt(s, n, x) = (l \o <<x>>) \o r
  BY DEF InsertAt
<1>3. Len(s) \in Nat /\ n \in Nat /\ n <= Len(s) + 1 /\ n >= 1
  BY SMT
<1> HIDE DEF l, r
<1> DEFINE o == <<x>>
<1>4. o \in Seq(S) /\ Len(o) = 1 /\ o[1] = x
  BY SMT
<1> HIDE DEF o
<1>5. l \o o \in Seq(S) /\ Len(l \o o) = Len(l) + Len(o)
  BY <1>1, <1>4, ConcatProperties
<1>6. \A i \in 1..Len(l) + Len(o) : (l \o o)[i] = IF i <= Len(l) THEN l[i] ELSE o[i - Len(l)]
  BY <1>1, <1>4, ConcatProperties
<1> DEFINE h == l \o o
<1>7. h \in Seq(S) /\ h = l \o o
  BY <1>5
<1>8. Len(h) = n /\ h[n] = x /\ \A i \in 1..n - 1 : h[i] = s[i]
  BY <1>1, <1>3, <1>4, <1>5, <1>6, SMT
<1> HIDE DEF h
<1>9. h \o r \in Seq(S) /\ Len(h \o r) = Len(h) + Len(r)
  BY <1>1, <1>7, ConcatProperties
<1>10. \A i \in 1..Len(h) + Len(r) : (h \o r)[i] = IF i <= Len(h) THEN h[i] ELSE r[i - Len(h)]
  BY <1>1, <1>7, ConcatProperties
<1>11. InsertAt(s, n, x) = h \o r
  BY <1>2, <1>7 DEF o
<1> DEFINE t == h \o r
<1>12. /\ t \in Seq(S) /\ Len(t) = Len(s) + 1 /\ InsertAt(s, n, x) = t
       /\ \A i \in 1..Len(s) + 1 : t[i] = IF i <= n THEN h[i] ELSE r[i - n]
  <2>1. t \in Seq(S) /\ InsertAt(s, n, x) = t
    BY <1>9, <1>11
  <2>2. Len(t) = Len(s) + 1
    BY <1>1, <1>3, <1>8, <1>9, SMT
  <2>3. 1..Len(h) + Len(r) = 1..Len(s) + 1
    BY <1>1, <1>3, <1>8, SMT
  <2> QED BY <1>8, <1>10, <2>1, <2>2, <2>3
<1> HIDE DEF t
<1>13. DOMAIN t = 1..Len(s) + 1
  BY <1>12, LenProperties
<1>14. \A i \in n + 1..Len(s) + 1 : t[i] = s[i - 1]
  <2> SUFFICES ASSUME NEW i \in n + 1..Len(s) + 1 PROVE t[i] = s[i - 1]
    OBVIOUS
  <2>1. i \in 1..Len(s) + 1 /\ ~(i <= n) /\ i - n \in 1..Len(s) - n + 1 /\ n + (i - n) - 1 = i - 1
    BY <1>3, SMT
  <2> QED BY <1>1, <1>12, <2>1
<1>15. t[n] = x /\ \A i \in 1..n - 1 : t[i] = s[i]
  <2>1. n \in 1..Len(s) + 1 /\ n <= n /\ \A i \in 1..n - 1 : i \in 1..Len(s) + 1 /\ i <= n
    BY <1>3, SMT
  <2> QED BY <1>8, <1>12, <2>1
<1> QED BY <1>12, <1>13, <1>14, <1>15

\* Inserting adds one element; a cut shares the elements out.
LEMMA InsertAtSet ==
  ASSUME NEW S, NEW s \in Seq(S), NEW n \in 1..Len(s) + 1, NEW x \in S
  PROVE  ToSet(InsertAt(s, n, x)) = ToSet(s) \cup {x}
<1> DEFINE t == InsertAt(s, n, x)
<1>1. /\ DOMAIN t = 1..Len(s) + 1 /\ DOMAIN s = 1..Len(s) /\ Len(s) \in Nat
      /\ \A i \in 1..n - 1 : t[i] = s[i]
      /\ t[n] = x
      /\ \A i \in n + 1..Len(s) + 1 : t[i] = s[i - 1]
  BY InsertAtFacts, LenProperties
<1> HIDE DEF t
<1>2. ASSUME NEW i \in DOMAIN t PROVE t[i] \in ToSet(s) \cup {x}
  <2>1. \/ i = n
        \/ i \in 1..n - 1 /\ i \in DOMAIN s
        \/ i \in n + 1..Len(s) + 1 /\ i - 1 \in DOMAIN s
    BY <1>1, SMT
  <2> QED BY <1>1, <2>1 DEF ToSet
<1>3. ASSUME NEW i \in DOMAIN s PROVE s[i] \in ToSet(t)
  <2>1. \/ i \in 1..n - 1 /\ i \in DOMAIN t
        \/ /\ i + 1 \in n + 1..Len(s) + 1 /\ i + 1 \in DOMAIN t /\ (i + 1) - 1 = i
    BY <1>1, SMT
  <2> QED BY <1>1, <2>1 DEF ToSet
<1>4. x \in ToSet(t)
  BY <1>1, SMT DEF ToSet
<1>5. t = InsertAt(s, n, x)
  BY DEF t
<1> QED BY <1>2, <1>3, <1>4, <1>5 DEF ToSet
=============================================================================
