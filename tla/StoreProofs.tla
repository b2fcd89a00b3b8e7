---------------------------- MODULE StoreProofs ----------------------------
(***************************************************************************)
(* Proofs about project1's blocks and store, for every sorted sequence,    *)
(* every number of ids and every block size.                               *)
(*                                                                         *)
(* First the binary searches (std::lower_bound, std::binary_search).  They *)
(* are recursive functions: that the recursion defines one, then what it   *)
(* computes.  Both go by the least length for which the claim would fail.  *)
(*                                                                         *)
(* Then DiskStore under its most general client: what Overlay, Encode,     *)
(* Decode and Register do to sequences of ids, one lemma per action that   *)
(* the invariant IInv survives it, and the theorems.                       *)
(***************************************************************************)
EXTENDS StoreClient, Basics

-----------------------------------------------------------------------------
(* Searches.                                                               *)

\* One step of the halving among len elements, by means of a function g that
\* knows the answers for fewer.
Halving(s, x, g, len) ==
  [first \in 1..Len(s) + 1 - len |->
     IF len = 0 THEN first
     ELSE LET half == len \div 2
          IN  IF s[first + half] < x
              THEN g[len - half - 1][first + half + 1]
              ELSE g[half][first]]

IsSearch(g, s, x, most) == g = [len \in 0..most |-> Halving(s, x, g, len)]

\* Half of a length, and what is left behind the middle, are shorter.
LEMMA HalfLemma ==
  ASSUME NEW len \in Nat, len # 0
  PROVE  /\ len \div 2 \in 0..len - 1
         /\ len - len \div 2 - 1 \in 0..len - 1
  BY SMT

\* The halving of a length asks for shorter lengths only.
LEMMA HalvingLocal ==
  ASSUME NEW s, NEW x, NEW g, NEW h, NEW len \in Nat,
         \A k \in 0..len - 1 : g[k] = h[k]
  PROVE  Halving(s, x, g, len) = Halving(s, x, h, len)
<1> DEFINE half == len \div 2
           rest == len - half - 1
<1>1. len # 0 => g[half] = h[half] /\ g[rest] = h[rest]
  BY HalfLemma
<1> HIDE DEF half, rest
<1>2. \A first \in 1..Len(s) + 1 - len :
        (IF len = 0 THEN first
         ELSE IF s[first + half] < x THEN g[rest][first + half + 1] ELSE g[half][first])
      = (IF len = 0 THEN first
         ELSE IF s[first + half] < x THEN h[rest][first + half + 1] ELSE h[half][first])
  BY <1>1, Zenon
<1> QED BY <1>2, Zenon DEF Halving, half, rest

\* The recursion of LowerBound defines a function.
LEMMA SearchExists ==
  ASSUME NEW s, NEW x, NEW most \in Nat
  PROVE  \E g : IsSearch(g, s, x, most)
<1> DEFINE Bad == {n \in Nat : ~\E g : IsSearch(g, s, x, n)}
<1> SUFFICES ASSUME Bad # {} PROVE FALSE
  BY Zenon
<1>1. PICK n \in Bad : \A m \in Bad : n <= m
  BY LeastNat, Zenon
<1>2. n \in Nat /\ ~\E g : IsSearch(g, s, x, n)
  BY Zenon
<1>3. CASE n = 0
  <2> DEFINE none == [len \in 0..0 |-> 0]
             g == [len \in 0..0 |-> Halving(s, x, none, len)]
  <2>1. \A len \in 0..0 : Halving(s, x, none, len) = Halving(s, x, g, len)
    <3> SUFFICES ASSUME NEW len \in 0..0
                 PROVE  Halving(s, x, none, len) = Halving(s, x, g, len)
      BY Zenon
    <3>1. len \in Nat /\ \A k \in 0..len - 1 : none[k] = g[k]
      BY SMT
    <3> HIDE DEF none, g
    <3> QED BY <3>1, HalvingLocal
  <2>2. IsSearch(g, s, x, 0)
    BY <2>1, Zenon DEF IsSearch
  <2> QED BY <1>2, <1>3, <2>2, Zenon
<1>4. CASE n # 0
  <2>1. n - 1 \in Nat /\ ~(n <= n - 1)
    BY <1>2, <1>4, SMT
  <2>2. PICK g : IsSearch(g, s, x, n - 1)
    BY <1>1, <2>1, Zenon
  <2> DEFINE h == [len \in 0..n |-> IF len = n THEN Halving(s, x, g, n) ELSE g[len]]
  <2>3. \A k \in 0..n - 1 : h[k] = g[k] /\ g[k] = Halving(s, x, g, k)
    BY <1>2, <2>2, SMT DEF IsSearch
  <2>4. ASSUME NEW len \in 0..n PROVE h[len] = Halving(s, x, h, len)
    <3>1. len \in Nat /\ \A k \in 0..len - 1 : k \in 0..n - 1
      BY <1>2, SMT
    <3>2. Halving(s, x, h, len) = Halving(s, x, g, len)
      <4> HIDE DEF h
      <4>1. \A k \in 0..len - 1 : h[k] = g[k]
        BY <2>3, <3>1, Zenon
      <4> QED BY <3>1, <4>1, HalvingLocal
    <3>3. CASE len = n
      BY <3>2, <3>3, Zenon
    <3>4. CASE len # n
      <4>1. len \in 0..n - 1
        BY <1>2, <3>4, SMT
      <4> QED BY <2>3, <3>2, <4>1, Zenon
    <3> QED BY <3>3, <3>4
  <2>5. IsSearch(h, s, x, n)
    BY <2>4, Zenon DEF IsSearch
  <2> QED BY <1>2, <2>5, Zenon
<1> QED BY <1>3, <1>4

\* LowerBound is the answer of such a function.
LEMMA LowerBoundUnfolds ==
  ASSUME NEW s \in Seq(Int), NEW x
  PROVE  \E g : IsSearch(g, s, x, Len(s)) /\ LowerBound(s, x) = g[Len(s)][1]
<1> DEFINE g == CHOOSE f : IsSearch(f, s, x, Len(s))
<1>1. IsSearch(g, s, x, Len(s))
  <2>1. Len(s) \in Nat
    OBVIOUS
  <2> QED BY <2>1, SearchExists, Zenon
<1>2. LowerBound(s, x) = g[Len(s)][1]
  BY Zenon DEF LowerBound, IsSearch, Halving
<1> QED BY <1>1, <1>2, Zenon
-----------------------------------------------------------------------------
(* What the searches find.                                                 *)

Ascending(s) == \A i, j \in 1..Len(s) : i <= j => s[i] <= s[j]

\* What a search for x needs of the order: the elements from x up ascend, and
\* behind the first of them there is no smaller one.
AscendsFrom(s, x) == \A i, j \in 1..Len(s) : i <= j /\ x <= s[i] => s[i] <= s[j]

\* A place among len elements from first on; in a sequence that ascends from x
\* up the one before which all of them are less than x, and behind which none is.
Parts(s, x, first, len, place) ==
  /\ place \in first..first + len
  /\ x \in Int /\ AscendsFrom(s, x) =>
       /\ \A i \in first..place - 1 : s[i] < x
       /\ \A i \in place..first + len - 1 : s[i] >= x

\* Below x comes before x and more.
LEMMA AscendsBy ==
  ASSUME NEW s \in Seq(Int), NEW x \in Int, AscendsFrom(s, x),
         NEW i \in 1..Len(s), NEW j \in 1..Len(s), i <= j
  PROVE  /\ s[j] < x => s[i] < x
         /\ x <= s[i] => x <= s[j] /\ s[i] <= s[j]
<1> DEFINE a == s[i]
           b == s[j]
<1>1. a \in Int /\ b \in Int
  BY SMT
<1>2. x <= a => a <= b
  BY Zenon DEF AscendsFrom
<1> HIDE DEF a, b
<1>3. (b < x => a < x) /\ (x <= a => x <= b /\ a <= b)
  BY <1>1, <1>2, SMT
<1> QED BY <1>3 DEF a, b

\* One step: the answer of either half is one of the whole.
LEMMA HalvingParts ==
  ASSUME NEW s \in Seq(Int), NEW x, NEW len \in 1..Len(s),
         NEW first \in 1..Len(s) + 1 - len, NEW half \in 0..len - 1, NEW place,
         \/ s[first + half] < x /\ Parts(s, x, first + half + 1, len - half - 1, place)
         \/ ~(s[first + half] < x) /\ Parts(s, x, first, half, place)
  PROVE  Parts(s, x, first, len, place)
<1>1. /\ Len(s) \in Nat /\ first + half \in 1..Len(s) /\ \A i \in 1..Len(s) : s[i] \in Int
      /\ first \in Nat /\ half \in Nat /\ len \in Nat
  BY SMT
<1>2. CASE s[first + half] < x /\ Parts(s, x, first + half + 1, len - half - 1, place)
  <2>1. place \in first + half + 1..first + len /\ place \in first..first + len
    BY <1>1, <1>2, SMT DEF Parts
  <2>2. ASSUME x \in Int, AscendsFrom(s, x), NEW i \in first..place - 1 PROVE s[i] < x
    <3>1. CASE i <= first + half
      <4>1. i \in 1..Len(s)
        BY <1>1, <3>1, SMT
      <4> QED BY <1>1, <1>2, <2>2, <3>1, <4>1, AscendsBy, Zenon
    <3>2. CASE ~(i <= first + half)
      <4>1. i \in first + half + 1..place - 1
        BY <1>1, <2>1, <3>2, SMT
      <4> QED BY <1>2, <2>2, <4>1 DEF Parts
    <3> QED BY <3>1, <3>2
  <2>3. ASSUME x \in Int, AscendsFrom(s, x), NEW i \in place..first + len - 1 PROVE s[i] >= x
    <3>1. i \in place..(first + half + 1) + (len - half - 1) - 1
      BY <1>1, <2>1, SMT
    <3> QED BY <1>2, <2>3, <3>1 DEF Parts
  <2> QED BY <2>1, <2>2, <2>3 DEF Parts
<1>3. CASE ~(s[first + half] < x) /\ Parts(s, x, first, half, place)
  <2>1. place \in first..first + half /\ place \in first..first + len
    BY <1>1, <1>3, SMT DEF Parts
  <2>2. ASSUME x \in Int, AscendsFrom(s, x), NEW i \in first..place - 1 PROVE s[i] < x
    BY <1>3, <2>2 DEF Parts
  <2>3. ASSUME x \in Int, AscendsFrom(s, x), NEW i \in place..first + len - 1 PROVE s[i] >= x
    <3>1. CASE i < first + half
      <4>1. i \in place..first + half - 1
        BY <1>1, <2>1, <3>1, SMT
      <4> QED BY <1>3, <2>3, <4>1 DEF Parts
    <3>2. CASE ~(i < first + half)
      <4>1. i \in 1..Len(s) /\ first + half <= i
        BY <1>1, <2>1, <3>2, SMT
      <4> DEFINE mid == first + half
                 a == s[mid]
                 b == s[i]
      <4>2. a \in Int /\ b \in Int /\ ~(a < x) /\ (x <= a => x <= b)
        BY <1>1, <1>3, <2>3, <4>1, AscendsBy, Zenon
      <4> HIDE DEF a, b
      <4>3. b >= x
        BY <2>3, <4>2, SMT
      <4> QED BY <4>3 DEF b
    <3> QED BY <3>1, <3>2
  <2> QED BY <2>1, <2>2, <2>3 DEF Parts
<1> QED BY <1>2, <1>3

\* The recursion finds such a place for every length.
LEMMA SearchFinds ==
  ASSUME NEW s \in Seq(Int), NEW x, NEW g, IsSearch(g, s, x, Len(s))
  PROVE  \A len \in 0..Len(s) : \A first \in 1..Len(s) + 1 - len :
           Parts(s, x, first, len, g[len][first])
<1> DEFINE Good(len) == \A first \in 1..Len(s) + 1 - len : Parts(s, x, first, len, g[len][first])
           Bad == {len \in 0..Len(s) : ~Good(len)}
<1> SUFFICES ASSUME Bad # {} PROVE FALSE
  BY Zenon
<1>0. Len(s) \in Nat /\ 0..Len(s) \subseteq Nat
  BY SMT
<1>1. PICK len \in Bad : \A m \in Bad : len <= m
  <2>1. Bad \subseteq Nat
    BY <1>0, Zenon
  <2> HIDE DEF Bad
  <2> QED BY <2>1, LeastNat, Zenon
<1>2. len \in 0..Len(s) /\ ~Good(len)
  BY Zenon
<1>3. \A k \in 0..len - 1 : Good(k)
  <2> SUFFICES ASSUME NEW k \in 0..len - 1 PROVE Good(k)
    BY Zenon
  <2>1. k \in 0..Len(s) /\ ~(len <= k)
    BY <1>0, <1>2, SMT
  <2> QED BY <1>1, <2>1, Zenon
<1>4. PICK first \in 1..Len(s) + 1 - len : ~Parts(s, x, first, len, g[len][first])
  BY <1>2, Zenon
<1>5. g[len][first] = IF len = 0 THEN first
                      ELSE LET half == len \div 2
                           IN  IF s[first + half] < x
                               THEN g[len - half - 1][first + half + 1]
                               ELSE g[half][first]
  BY <1>2, <1>4, Zenon DEF IsSearch, Halving
<1>6. CASE len = 0
  <2>1. g[len][first] = first
    BY <1>5, <1>6
  <2>2. Parts(s, x, first, len, first)
    BY <1>0, <1>6, SMT DEF Parts
  <2> QED BY <1>4, <2>1, <2>2
<1>7. CASE len # 0
  <2> DEFINE half == len \div 2
             rest == len - half - 1
  <2>1. half \in 0..len - 1 /\ rest \in 0..len - 1 /\ len \in 1..Len(s)
    <3>1. len \in Nat /\ len \in 1..Len(s)
      BY <1>0, <1>2, <1>7, SMT
    <3> QED BY <1>7, <3>1, HalfLemma, Zenon
  <2>2. g[len][first] = IF s[first + half] < x THEN g[rest][first + half + 1] ELSE g[half][first]
    BY <1>5, <1>7
  <2>3. Good(half) /\ Good(rest)
    BY <1>3, <2>1, Zenon
  <2> HIDE DEF half
  <2>4. first + half + 1 \in 1..Len(s) + 1 - rest /\ first \in 1..Len(s) + 1 - half
    <3> DEFINE n == Len(s)
    <3>1. rest = len - half - 1 /\ n \in Nat /\ len \in 1..n /\ first \in 1..n + 1 - len
      BY <1>0, <2>1
    <3> HIDE DEF rest, n
    <3>2. first + half + 1 \in 1..n + 1 - rest /\ first \in 1..n + 1 - half
      BY <2>1, <3>1, SMT
    <3> QED BY <3>2 DEF n
  <2>5. /\ Parts(s, x, first + half + 1, rest, g[rest][first + half + 1])
        /\ Parts(s, x, first, half, g[half][first])
    BY <2>3, <2>4, Zenon
  <2>6. Parts(s, x, first, len, g[len][first])
    BY <2>1, <2>2, <2>5, HalvingParts, Zenon
  <2> QED BY <1>4, <2>6
<1> QED BY <1>6, <1>7

\* std::lower_bound: the place lies in the sequence or right behind it; if the
\* sequence ascends from x up, as a sorted one does, the elements before it are
\* less than x, and no other.
THEOREM LowerBoundIsRight ==
  ASSUME NEW s \in Seq(Int), NEW x
  PROVE  /\ LowerBound(s, x) \in 1..Len(s) + 1
         /\ x \in Int /\ AscendsFrom(s, x) =>
              /\ \A i \in 1..LowerBound(s, x) - 1 : s[i] < x
              /\ \A i \in LowerBound(s, x)..Len(s) : s[i] >= x
<1>1. PICK g : IsSearch(g, s, x, Len(s)) /\ LowerBound(s, x) = g[Len(s)][1]
  BY LowerBoundUnfolds
<1>2. Len(s) \in Nat /\ Len(s) \in 0..Len(s) /\ 1 \in 1..Len(s) + 1 - Len(s)
  BY SMT
<1>3. Parts(s, x, 1, Len(s), LowerBound(s, x))
  BY <1>1, <1>2, SearchFinds
<1>4. 1 + Len(s) = Len(s) + 1 /\ 1 + Len(s) - 1 = Len(s)
  BY <1>2, SMT
<1> QED BY <1>3, <1>4, Zenon DEF Parts

\* std::binary_search: in a sequence that ascends from x up it finds x
\* exactly if x is in it; in any other it finds nothing that is not there.
THEOREM BinarySearchIsRight ==
  ASSUME NEW s \in Seq(Int), NEW x
  PROVE  /\ BinarySearch(s, x) => x \in ToSet(s)
         /\ x \in Int /\ AscendsFrom(s, x) => (BinarySearch(s, x) <=> x \in ToSet(s))
<1> DEFINE at == LowerBound(s, x)
<1>1. /\ at \in 1..Len(s) + 1 /\ Len(s) \in Nat /\ DOMAIN s = 1..Len(s)
      /\ x \in Int /\ AscendsFrom(s, x) =>
           /\ \A i \in 1..at - 1 : s[i] < x
           /\ \A i \in at..Len(s) : s[i] >= x
  BY LowerBoundIsRight, LenProperties
<1>2. BinarySearch(s, x) <=> at <= Len(s) /\ s[at] = x
  BY Zenon DEF BinarySearch
<1> HIDE DEF at
<1>3. ASSUME BinarySearch(s, x) PROVE x \in ToSet(s)
  <2>1. at \in DOMAIN s
    BY <1>1, <1>2, <1>3, SMT
  <2> QED BY <1>2, <1>3, <2>1 DEF ToSet
<1>4. ASSUME x \in Int, AscendsFrom(s, x), x \in ToSet(s) PROVE at <= Len(s) /\ s[at] = x
  <2>1. PICK i \in 1..Len(s) : s[i] = x
    BY <1>1, <1>4 DEF ToSet
  <2>2. ~(i \in 1..at - 1) /\ i \in Nat
    BY <1>1, <1>4, <2>1, SMT
  <2>3. at <= i /\ at \in 1..Len(s)
    BY <1>1, <2>1, <2>2, SMT
  <2> DEFINE a == s[at]
  <2>4. a \in Int /\ a >= x
    BY <1>1, <1>4, <2>3, SMT
  <2>5. x <= a => a <= x
    BY <1>4, <2>1, <2>3, AscendsBy, Zenon
  <2> HIDE DEF a
  <2>6. a = x
    BY <1>4, <2>4, <2>5, SMT
  <2> QED BY <2>3, <2>6, SMT DEF a
<1> QED BY <1>2, <1>3, <1>4

-----------------------------------------------------------------------------
(* The metadata block.                                                     *)

\* A count that fits in 16 bits is not cut.
LEMMA ModSmall == ASSUME NEW a \in Nat, NEW n \in Nat, a < n PROVE a % n = a
  BY SMT

\* What the metadata area holds after a write over an older image: the new
\* words, and behind them the old ones.
LEMMA OverlayLemma ==
  ASSUME NEW S, NEW new \in Seq(S), NEW old \in Seq(S)
  PROVE  /\ Overlay(new, old) \in Seq(S)
         /\ Len(Overlay(new, old)) = IF Len(old) > Len(new) THEN Len(old) ELSE Len(new)
         /\ \A i \in 1..Len(Overlay(new, old)) :
              Overlay(new, old)[i] = IF i <= Len(new) THEN new[i] ELSE old[i]
<1> DEFINE tail == SubSeq(old, Len(new) + 1, Len(old))
<1>1. tail \in Seq(S) /\ Len(tail) = IF Len(old) > Len(new) THEN Len(old) - Len(new) ELSE 0
  BY SMT
<1>2. \A i \in 1..Len(tail) : tail[i] = old[Len(new) + i]
  BY SMT
<1> QED BY <1>1, <1>2, SMT DEF Overlay

-----------------------------------------------------------------------------
(* The image of the metadata.                                              *)

MetaType == [root : BlockIds, data : Seq(BlockIds), btree : Seq(BlockIds)]

\* The words after the first three of an image are below a number, or zero.
BodyBelow(image, n) == \A i \in 4..Len(image) : image[i] = 0 \/ image[i] < n

\* What a concatenation holds, element by element.
LEMMA ConcatLemma ==
  ASSUME NEW S, NEW s \in Seq(S), NEW t \in Seq(S)
  PROVE  /\ s \o t \in Seq(S)
         /\ Len(s \o t) = Len(s) + Len(t)
         /\ \A i \in 1..Len(s) + Len(t) :
              (s \o t)[i] = IF i <= Len(s) THEN s[i] ELSE t[i - Len(s)]
  BY SMT

\* A sequence over S of three first words and two lists, element by element.
IsImage(image, S, top, s, t) ==
  /\ image \in Seq(S)
  /\ Len(image) = 3 + (Len(s) + Len(t))
  /\ image[1] = top[1] /\ image[2] = top[2] /\ image[3] = top[3]
  /\ \A i \in 4..Len(image) :
       (\E j \in DOMAIN s : image[i] = s[j]) \/ (\E j \in DOMAIN t : image[i] = t[j])

\* The image of a metadata record is such a sequence.
LEMMA ImageLemma ==
  ASSUME NEW S, NEW top \in Seq(S), Len(top) = 3, NEW s \in Seq(S), NEW t \in Seq(S)
  PROVE  IsImage((top \o s) \o t, S, top, s, t)
<1> DEFINE front == top \o s
           image == front \o t
<1>1. top \in Seq(S) /\ Len(top) = 3
  OBVIOUS
<1>2. /\ Len(s) \in Nat /\ Len(t) \in Nat
      /\ DOMAIN s = 1..Len(s) /\ DOMAIN t = 1..Len(t)
  BY SMT
<1>3. /\ front \in Seq(S) /\ Len(front) = Len(top) + Len(s)
      /\ \A i \in 1..Len(top) + Len(s) :
           front[i] = IF i <= Len(top) THEN top[i] ELSE s[i - Len(top)]
  BY <1>1, ConcatLemma, Zenon
<1> HIDE DEF front
<1>4. /\ image \in Seq(S) /\ Len(image) = Len(front) + Len(t)
      /\ \A i \in 1..Len(front) + Len(t) :
           image[i] = IF i <= Len(front) THEN front[i] ELSE t[i - Len(front)]
  <2>1. front \in Seq(S)
    BY <1>3
  <2> QED BY <2>1, ConcatLemma, Zenon
<1> HIDE DEF image
<1>5. image[1] = top[1] /\ image[2] = top[2] /\ image[3] = top[3]
  BY <1>1, <1>2, <1>3, <1>4, SMT
<1>6. Len(image) = 3 + (Len(s) + Len(t))
  BY <1>1, <1>2, <1>3, <1>4, SMT
<1>7. ASSUME NEW i \in 4..Len(image)
      PROVE  (\E j \in DOMAIN s : image[i] = s[j]) \/ (\E j \in DOMAIN t : image[i] = t[j])
  <2>0. Len(front) = 3 + Len(s)
    BY <1>1, <1>3
  <2>1. CASE i <= 3 + Len(s)
    <3>1. i - 3 \in DOMAIN s /\ image[i] = s[i - 3]
      BY <1>1, <1>2, <1>3, <1>4, <2>0, <2>1, SMT
    <3> QED BY <3>1
  <2>2. CASE ~(i <= 3 + Len(s))
    <3>1. i - Len(front) \in DOMAIN t /\ image[i] = t[i - Len(front)]
      BY <1>2, <1>4, <1>6, <2>0, <2>2, SMT
    <3> QED BY <3>1
  <2> QED BY <2>1, <2>2
<1> QED BY <1>4, <1>5, <1>6, <1>7 DEF image, front, IsImage

\* The parts of a metadata record.
LEMMA MetaFacts ==
  ASSUME NEW m \in MetaType
  PROVE  /\ m.root \in BlockIds /\ m.data \in Seq(BlockIds) /\ m.btree \in Seq(BlockIds)
         /\ Len(m.data) \in Nat /\ Len(m.btree) \in Nat
         /\ Count(m) = Len(m.data) + Len(m.btree) /\ Count(m) \in Nat
         /\ DOMAIN m.data = 1..Len(m.data) /\ DOMAIN m.btree = 1..Len(m.btree)
  BY SMT DEF MetaType, Count

\* Two lengths whose sum is a block id keep their value in 16 bits.
LEMMA SumBelow ==
  ASSUME NEW a \in Nat, NEW b \in Nat, a + b <= BlockNull
  PROVE  /\ a % (BlockNull + 1) = a /\ b % (BlockNull + 1) = b
         /\ a \in BlockIds /\ b \in BlockIds
<1>1. /\ BlockNull + 1 \in Nat /\ a < BlockNull + 1 /\ b < BlockNull + 1
      /\ a \in BlockIds /\ b \in BlockIds
  BY BlocksAssumption, SMT DEF BlockIds
<1> QED BY <1>1, ModSmall, Zenon

\* The image of a metadata record, as long as its count of ids fits in 16
\* bits: its sizes are the lengths of the lists, and after them it lists ids
\* of the record and nothing else.
LEMMA EncodeLemma ==
  ASSUME NEW m \in MetaType, Count(m) <= BlockNull,
         \A id \in IdsOf(m) : id < Count(m)
  PROVE  /\ Encode(m) \in Seq(BlockIds)
         /\ Len(Encode(m)) = 3 + Count(m)
         /\ Encode(m)[2] = Len(m.data) /\ Encode(m)[3] = Len(m.btree)
         /\ BodyBelow(Encode(m), Count(m))
<1>1. /\ m.root \in BlockIds /\ m.data \in Seq(BlockIds) /\ m.btree \in Seq(BlockIds)
      /\ Len(m.data) \in Nat /\ Len(m.btree) \in Nat
      /\ Count(m) = Len(m.data) + Len(m.btree)
  BY MetaFacts, Zenon
<1>2. /\ Len(m.data) % (BlockNull + 1) = Len(m.data)
      /\ Len(m.btree) % (BlockNull + 1) = Len(m.btree)
      /\ Len(m.data) \in BlockIds /\ Len(m.btree) \in BlockIds
  BY <1>1, SumBelow, Zenon
<1>3. Encode(m) = <<m.root, Len(m.data), Len(m.btree)>> \o m.data \o m.btree
  BY <1>2, Zenon DEF Encode
<1>4. /\ Encode(m) \in Seq(BlockIds)
      /\ Len(Encode(m)) = 3 + (Len(m.data) + Len(m.btree))
      /\ Encode(m)[2] = Len(m.data) /\ Encode(m)[3] = Len(m.btree)
      /\ \A i \in 4..Len(Encode(m)) :
           \/ \E j \in DOMAIN m.data  : Encode(m)[i] = m.data[j]
           \/ \E j \in DOMAIN m.btree : Encode(m)[i] = m.btree[j]
  <2> DEFINE top == <<m.root, Len(m.data), Len(m.btree)>>
  <2>1. /\ top \in Seq(BlockIds) /\ Len(top) = 3
        /\ top[2] = Len(m.data) /\ top[3] = Len(m.btree)
    BY <1>1, <1>2, SMT
  <2>2. Encode(m) = (top \o m.data) \o m.btree
    BY <1>3
  <2> HIDE DEF top
  <2>3. IsImage((top \o m.data) \o m.btree, BlockIds, top, m.data, m.btree)
    BY <1>1, <2>1, ImageLemma, Zenon
  <2>4. IsImage(Encode(m), BlockIds, top, m.data, m.btree)
    BY <2>2, <2>3, Zenon
  <2> QED BY <2>1, <2>4, Zenon DEF IsImage
<1>5. BodyBelow(Encode(m), Count(m))
  BY <1>4, Zenon DEF BodyBelow, IdsOf, ToSet
<1> QED BY <1>1, <1>4, <1>5, Zenon

\* A metadata area whose sizes add up to n and whose ids are below n.
HeaderOK(h, n) ==
  h \in Seq(BlockIds) /\ Word(h, 2) + Word(h, 3) = n /\ BodyBelow(h, n)

\* Writing a prefix of an image that holds at least the sizes, over an older
\* image whose ids are smaller: the new sizes, and still no id above them.
LEMMA PrefixOverlay ==
  ASSUME NEW m \in MetaType, Count(m) <= BlockNull,
         \A id \in IdsOf(m) : id < Count(m),
         NEW old, NEW c \in Nat, HeaderOK(old, c), c <= Count(m),
         NEW n \in 3..Len(Encode(m))
  PROVE  HeaderOK(Overlay(SubSeq(Encode(m), 1, n), old), Count(m))
<1> DEFINE new == SubSeq(Encode(m), 1, n)
           h == Overlay(new, old)
<1>0. old \in Seq(BlockIds) /\ BodyBelow(old, c)
  BY DEF HeaderOK
<1>1. /\ Encode(m) \in Seq(BlockIds)
      /\ Encode(m)[2] = Len(m.data) /\ Encode(m)[3] = Len(m.btree)
      /\ BodyBelow(Encode(m), Count(m))
  BY EncodeLemma
<1>2. /\ new \in Seq(BlockIds) /\ Len(new) = n
      /\ \A i \in 1..n : new[i] = Encode(m)[i]
  BY <1>1, SMT
<1>3. /\ h \in Seq(BlockIds)
      /\ Len(h) = IF Len(old) > n THEN Len(old) ELSE n
      /\ \A i \in 1..Len(h) : h[i] = IF i <= n THEN Encode(m)[i] ELSE old[i]
  <2> HIDE DEF new
  <2> QED BY <1>0, <1>2, OverlayLemma, SMT
<1>4. Word(h, 2) = Len(m.data) /\ Word(h, 3) = Len(m.btree)
  <2> HIDE DEF h
  <2> QED BY <1>0, <1>1, <1>3, SMT DEF Word
<1>5. BodyBelow(h, Count(m))
  <2> SUFFICES ASSUME NEW i \in 4..Len(h) PROVE h[i] = 0 \/ h[i] < Count(m)
    BY DEF BodyBelow
  <2> HIDE DEF h
  <2>1. Count(m) \in Nat /\ Len(Encode(m)) \in Nat /\ Len(old) \in Nat
    BY <1>0, <1>1, SMT DEF Count, MetaType
  <2>2. CASE i <= n
    BY <1>1, <1>3, <2>1, <2>2, SMT DEF BodyBelow
  <2>3. CASE i > n
    <3>1. i \in 4..Len(old) /\ h[i] = old[i] /\ old[i] \in BlockIds
      BY <1>0, <1>3, <2>1, <2>3, SMT
    <3> QED BY <1>0, <2>1, <3>1, BlocksAssumption, SMT DEF BodyBelow, BlockIds
  <2> QED BY <2>1, <2>2, <2>3, SMT
<1> QED BY <1>3, <1>4, <1>5, MetaFacts, Zenon DEF HeaderOK

\* Reading such an area back: metadata whose ids are below its count.
LEMMA DecodeLemma ==
  ASSUME NEW h, NEW n \in Nat, HeaderOK(h, n)
  PROVE  /\ Decode(h) \in MetaType
         /\ Count(Decode(h)) = n
         /\ \A id \in IdsOf(Decode(h)) : id < n
<1>1. \A i \in Nat \ {0} : Word(h, i) \in BlockIds
  BY BlocksAssumption, SMT DEF HeaderOK, Word, BlockIds
<1>2. \A i \in Nat : i > 3 /\ n > 0 => Word(h, i) < n
  BY BlocksAssumption, SMT DEF HeaderOK, Word, BodyBelow, BlockIds
<1> DEFINE d == Word(h, 2)
           b == Word(h, 3)
           data  == [i \in 1..d |-> Word(h, 3 + i)]
           btree == [i \in 1..b |-> Word(h, 3 + d + i)]
<1>3. d \in Nat /\ b \in Nat /\ d + b = n
  BY <1>1, BlocksAssumption, SMT DEF HeaderOK, BlockIds
<1>4. Decode(h) = [root |-> Word(h, 1), data |-> data, btree |-> btree]
  BY DEF Decode
<1>5. \A i \in 1..d : Word(h, 3 + i) \in BlockIds /\ Word(h, 3 + i) < n
  <2> HIDE DEF d, b
  <2> QED BY <1>1, <1>2, <1>3, SMT
<1>6. \A i \in 1..b : Word(h, 3 + d + i) \in BlockIds /\ Word(h, 3 + d + i) < n
  <2> HIDE DEF d, b
  <2> QED BY <1>1, <1>2, <1>3, SMT
<1> HIDE DEF d, b
<1>7. data \in Seq(BlockIds) /\ Len(data) = d /\ DOMAIN data = 1..d
  BY <1>3, <1>5, SMT
<1>8. btree \in Seq(BlockIds) /\ Len(btree) = b /\ DOMAIN btree = 1..b
  BY <1>3, <1>6, SMT
<1>9. /\ \A i \in DOMAIN data  : data[i] < n
      /\ \A i \in DOMAIN btree : btree[i] < n
  BY <1>5, <1>6
<1> HIDE DEF data, btree
<1>10. Word(h, 1) \in BlockIds
  BY <1>1
<1> QED BY <1>3, <1>4, <1>7, <1>8, <1>9, <1>10 DEF MetaType, Count, IdsOf, ToSet

\* Appending to a list adds one element, the new one.
LEMMA AppendLemma ==
  ASSUME NEW S, NEW s \in Seq(S), NEW x \in S
  PROVE  /\ Append(s, x) \in Seq(S)
         /\ Len(Append(s, x)) = Len(s) + 1
         /\ ToSet(Append(s, x)) = ToSet(s) \cup {x}
<1>1. /\ Append(s, x) \in Seq(S) /\ Len(s) \in Nat
      /\ Len(Append(s, x)) = Len(s) + 1
      /\ DOMAIN s = 1..Len(s) /\ DOMAIN Append(s, x) = 1..Len(s) + 1
      /\ \A i \in 1..Len(s) : Append(s, x)[i] = s[i]
      /\ Append(s, x)[Len(s) + 1] = x
  BY SMT
<1>2. \A i \in 1..Len(s) : i \in 1..Len(s) + 1
  BY <1>1, SMT
<1>3. Len(s) + 1 \in 1..Len(s) + 1 /\ \A i \in 1..Len(s) + 1 : i \in 1..Len(s) \/ i = Len(s) + 1
  BY <1>1, SMT
<1>4. ToSet(Append(s, x)) = ToSet(s) \cup {x}
  <2> DEFINE n == Len(s)
             a == Append(s, x)
             last == n + 1
  <2>1. /\ DOMAIN s = 1..n /\ DOMAIN a = 1..last
        /\ \A i \in 1..n : a[i] = s[i] /\ i \in 1..last
        /\ a[last] = x /\ last \in 1..last
        /\ \A i \in 1..last : i \in 1..n \/ i = last
    BY <1>1, <1>2, <1>3
  <2> HIDE DEF n, a, last
  <2>2. {a[i] : i \in 1..last} = {s[i] : i \in 1..n} \cup {x}
    BY <2>1
  <2> QED BY <2>1, <2>2 DEF ToSet, a
<1> QED BY <1>1, <1>4

\* The ids of a metadata record are block ids, and so natural numbers.
LEMMA IdsAreBlockIds ==
  ASSUME NEW m \in MetaType
  PROVE  IdsOf(m) \subseteq BlockIds
<1>1. /\ \A i \in DOMAIN m.data  : m.data[i] \in BlockIds
      /\ \A i \in DOMAIN m.btree : m.btree[i] \in BlockIds
  BY SMT DEF MetaType
<1> QED BY <1>1 DEF IdsOf, ToSet

\* A registered id joins the ids of the metadata, and the count stays above
\* all of them.
LEMMA RegisterLemma ==
  ASSUME NEW m \in MetaType, Count(m) < BlockNull, NEW kind,
         \A id \in IdsOf(m) : id < Count(m)
  PROVE  /\ NewId(m) = Count(m)
         /\ Register(m, kind) \in MetaType
         /\ Count(Register(m, kind)) = Count(m) + 1
         /\ \A id \in IdsOf(Register(m, kind)) : id < Count(m) + 1
<1>1. /\ m.data \in Seq(BlockIds) /\ m.btree \in Seq(BlockIds) /\ m.root \in BlockIds
      /\ Count(m) \in Nat /\ Len(m.data) \in Nat /\ Len(m.btree) \in Nat
      /\ Count(m) = Len(m.data) + Len(m.btree)
  BY MetaFacts, Zenon
<1>2. Count(m) \in BlockIds /\ Count(m) < BlockNull + 1 /\ BlockNull + 1 \in Nat
  <2> DEFINE c == Count(m)
  <2>1. c \in Nat /\ c < BlockNull
    BY <1>1
  <2> HIDE DEF c
  <2>2. c \in BlockIds /\ c < BlockNull + 1 /\ BlockNull + 1 \in Nat
    BY <2>1, BlocksAssumption, SMT DEF BlockIds
  <2> QED BY <2>2 DEF c
<1>3. NewId(m) = Count(m)
  BY <1>1, <1>2, ModSmall, Zenon DEF NewId
<1> DEFINE c == Count(m)
           r == Register(m, kind)
<1>4. /\ r \in MetaType
      /\ \/ Len(r.data) = Len(m.data) + 1 /\ r.btree = m.btree
         \/ r.data = m.data /\ Len(r.btree) = Len(m.btree) + 1
      /\ IdsOf(r) = IdsOf(m) \cup {c}
  <2>1. CASE kind = "data"
    <3> DEFINE list == Append(m.data, c)
    <3>1. /\ list \in Seq(BlockIds) /\ Len(list) = Len(m.data) + 1
          /\ ToSet(list) = ToSet(m.data) \cup {c}
      <4>1. m.data \in Seq(BlockIds) /\ c \in BlockIds
        BY <1>1, <1>2
      <4> HIDE DEF c
      <4> QED BY <4>1, AppendLemma
    <3>2. r = [m EXCEPT !.data = list]
      BY <1>3, <2>1 DEF Register
    <3> HIDE DEF list, r, c
    <3>3. r \in MetaType /\ r.data = list /\ r.btree = m.btree
      BY <3>1, <3>2, SMT DEF MetaType
    <3> QED BY <3>1, <3>3 DEF IdsOf
  <2>2. CASE kind # "data"
    <3> DEFINE list == Append(m.btree, c)
    <3>1. /\ list \in Seq(BlockIds) /\ Len(list) = Len(m.btree) + 1
          /\ ToSet(list) = ToSet(m.btree) \cup {c}
      <4>1. m.btree \in Seq(BlockIds) /\ c \in BlockIds
        BY <1>1, <1>2
      <4> HIDE DEF c
      <4> QED BY <4>1, AppendLemma
    <3>2. r = [m EXCEPT !.btree = list]
      BY <1>3, <2>2 DEF Register
    <3> HIDE DEF list, r, c
    <3>3. r \in MetaType /\ r.btree = list /\ r.data = m.data
      BY <3>1, <3>2, SMT DEF MetaType
    <3> QED BY <3>1, <3>3 DEF IdsOf
  <2> QED BY <2>1, <2>2
<1> HIDE DEF r
<1>5. Count(r) = Len(r.data) + Len(r.btree) /\ Len(r.data) \in Nat /\ Len(r.btree) \in Nat
  BY <1>4, MetaFacts, Zenon
<1>6. Count(r) = c + 1
  <2> DEFINE d == Len(m.data)
             b == Len(m.btree)
  <2>1. d \in Nat /\ b \in Nat /\ c = d + b
    BY <1>1
  <2>2. Count(r) = (d + 1) + b \/ Count(r) = d + (b + 1)
    BY <1>4, <1>5, Zenon
  <2> HIDE DEF c, d, b
  <2>3. (d + 1) + b = c + 1 /\ d + (b + 1) = c + 1
    BY <2>1, SMT
  <2> QED BY <2>2, <2>3, Zenon
<1>7. \A id \in IdsOf(r) : id < c + 1
  <2>1. \A id \in IdsOf(m) : id \in Nat /\ id < c
    BY IdsAreBlockIds, BlocksAssumption, SMT DEF BlockIds
  <2>2. c \in Nat
    BY <1>1
  <2> HIDE DEF c
  <2> QED BY <1>4, <2>1, <2>2, SMT
<1> QED BY <1>3, <1>4, <1>6, <1>7 DEF r

-----------------------------------------------------------------------------
(* Metadata is read back as it was written.                                *)

\* Three first words and two lists, one after another, element by element.
IsLists(image, S, top, s, t) ==
  /\ image \in Seq(S)
  /\ Len(image) = 3 + Len(s) + Len(t)
  /\ \A i \in 1..3 : image[i] = top[i]
  /\ \A i \in 1..Len(s) : image[3 + i] = s[i]
  /\ \A i \in 1..Len(t) : image[3 + Len(s) + i] = t[i]

LEMMA ListsLemma ==
  ASSUME NEW S, NEW top \in Seq(S), Len(top) = 3, NEW s \in Seq(S), NEW t \in Seq(S)
  PROVE  IsLists((top \o s) \o t, S, top, s, t)
<1> DEFINE front == top \o s
           image == front \o t
<1>1. Len(top) = 3 /\ Len(s) \in Nat /\ Len(t) \in Nat
  OBVIOUS
<1>2. /\ front \in Seq(S) /\ Len(front) = Len(top) + Len(s)
      /\ \A i \in 1..Len(top) + Len(s) :
           front[i] = IF i <= Len(top) THEN top[i] ELSE s[i - Len(top)]
  BY ConcatLemma, Zenon
<1> HIDE DEF front
<1>4. /\ image \in Seq(S) /\ Len(image) = Len(front) + Len(t)
      /\ \A i \in 1..Len(front) + Len(t) :
           image[i] = IF i <= Len(front) THEN front[i] ELSE t[i - Len(front)]
  <2>1. front \in Seq(S)
    BY <1>2
  <2> QED BY <2>1, ConcatLemma, Zenon
<1> HIDE DEF image
<1>5. Len(image) = 3 + Len(s) + Len(t)
  BY <1>1, <1>2, <1>4, SMT
<1>6. \A i \in 1..3 : image[i] = top[i]
  BY <1>1, <1>2, <1>4, SMT
<1>7. \A i \in 1..Len(s) : image[3 + i] = s[i]
  BY <1>1, <1>2, <1>4, SMT
<1>8. \A i \in 1..Len(t) : image[3 + Len(s) + i] = t[i]
  BY <1>1, <1>2, <1>4, SMT
<1> QED BY <1>4, <1>5, <1>6, <1>7, <1>8 DEF image, front, IsLists

\* The words of an image, each at its place (Metadata::write).
LEMMA ImageWords ==
  ASSUME NEW m \in MetaType, Count(m) <= BlockNull
  PROVE  /\ Encode(m) \in Seq(BlockIds)
         /\ Len(Encode(m)) = 3 + Len(m.data) + Len(m.btree)
         /\ Encode(m)[1] = m.root /\ Encode(m)[2] = Len(m.data) /\ Encode(m)[3] = Len(m.btree)
         /\ \A i \in 1..Len(m.data)  : Encode(m)[3 + i] = m.data[i]
         /\ \A i \in 1..Len(m.btree) : Encode(m)[3 + Len(m.data) + i] = m.btree[i]
<1>1. /\ m.root \in BlockIds /\ m.data \in Seq(BlockIds) /\ m.btree \in Seq(BlockIds)
      /\ Len(m.data) \in Nat /\ Len(m.btree) \in Nat
      /\ Count(m) = Len(m.data) + Len(m.btree)
  BY MetaFacts, Zenon
<1>2. /\ Len(m.data) % (BlockNull + 1) = Len(m.data)
      /\ Len(m.btree) % (BlockNull + 1) = Len(m.btree)
      /\ Len(m.data) \in BlockIds /\ Len(m.btree) \in BlockIds
  BY <1>1, SumBelow, Zenon
<1> DEFINE top == <<m.root, Len(m.data), Len(m.btree)>>
<1>3. Encode(m) = (top \o m.data) \o m.btree
  BY <1>2, Zenon DEF Encode
<1>4. /\ top \in Seq(BlockIds) /\ Len(top) = 3
      /\ top[1] = m.root /\ top[2] = Len(m.data) /\ top[3] = Len(m.btree)
  BY <1>1, <1>2, SMT
<1> HIDE DEF top
<1>5. /\ Encode(m) \in Seq(BlockIds)
      /\ Len(Encode(m)) = 3 + Len(m.data) + Len(m.btree)
      /\ \A i \in 1..3 : Encode(m)[i] = top[i]
      /\ \A i \in 1..Len(m.data) : Encode(m)[3 + i] = m.data[i]
      /\ \A i \in 1..Len(m.btree) : Encode(m)[3 + Len(m.data) + i] = m.btree[i]
  <2>1. IsLists((top \o m.data) \o m.btree, BlockIds, top, m.data, m.btree)
    BY <1>1, <1>4, ListsLemma, Zenon
  <2> QED BY <1>3, <2>1, Zenon DEF IsLists
<1>6. 1 \in 1..3 /\ 2 \in 1..3 /\ 3 \in 1..3
  OBVIOUS
<1> QED BY <1>4, <1>5, <1>6, Zenon

\* Metadata::read of what Metadata::write has written over any older image.
LEMMA RoundTrip ==
  ASSUME NEW m \in MetaType, Count(m) <= BlockNull, NEW old \in Seq(BlockIds)
  PROVE  Decode(Overlay(Encode(m), old)) = m
<1> DEFINE e == Encode(m)
           h == Overlay(e, old)
           d == Len(m.data)
           b == Len(m.btree)
<1>1. /\ m.data \in Seq(BlockIds) /\ m.btree \in Seq(BlockIds) /\ d \in Nat /\ b \in Nat
  BY MetaFacts
<1>2. /\ e \in Seq(BlockIds) /\ Len(e) = 3 + d + b
      /\ e[1] = m.root /\ e[2] = d /\ e[3] = b
      /\ \A i \in 1..d : e[3 + i] = m.data[i]
      /\ \A i \in 1..b : e[3 + d + i] = m.btree[i]
  BY ImageWords
<1> HIDE DEF e, d, b
<1>3. /\ h \in Seq(BlockIds)
      /\ Len(h) = IF Len(old) > Len(e) THEN Len(old) ELSE Len(e)
      /\ \A i \in 1..Len(h) : h[i] = IF i <= Len(e) THEN e[i] ELSE old[i]
  BY <1>2, OverlayLemma
<1> HIDE DEF h
<1>4. \A i \in 1..3 + d + b : Word(h, i) = e[i]
  <2>1. Len(old) \in Nat
    OBVIOUS
  <2>2. Len(h) >= 3 + d + b
    BY <1>1, <1>2, <1>3, <2>1, SMT
  <2>3. \A i \in 1..3 + d + b : i <= Len(h) /\ h[i] = e[i]
    BY <1>1, <1>2, <1>3, <2>1, <2>2, SMT
  <2> QED BY <2>3 DEF Word
<1>5. Word(h, 1) = m.root /\ Word(h, 2) = d /\ Word(h, 3) = b
  BY <1>1, <1>2, <1>4, SMT
<1>6. [i \in 1..d |-> Word(h, 3 + i)] = m.data
  <2>1. \A i \in 1..d : Word(h, 3 + i) = m.data[i]
    BY <1>1, <1>2, <1>4, SMT
  <2>2. m.data = [i \in 1..d |-> m.data[i]]
    BY <1>1 DEF d
  <2> QED BY <2>1, <2>2
<1>7. [i \in 1..b |-> Word(h, 3 + d + i)] = m.btree
  <2>1. \A i \in 1..b : Word(h, 3 + d + i) = m.btree[i]
    BY <1>1, <1>2, <1>4, SMT
  <2>2. m.btree = [i \in 1..b |-> m.btree[i]]
    BY <1>1 DEF b
  <2> QED BY <2>1, <2>2
<1>8. Decode(h) = [root |-> m.root, data |-> m.data, btree |-> m.btree]
  BY <1>5, <1>6, <1>7 DEF Decode
<1>9. m = [root |-> m.root, data |-> m.data, btree |-> m.btree]
  BY SMT DEF MetaType
<1> QED BY <1>8, <1>9 DEF h, e

-----------------------------------------------------------------------------
(* Writes that reach the file.                                             *)

\* The inductive invariant.
IInv == StoreTypeOK /\ StoreInv

\* The same with the facts the steps of the proof use.
LEMMA InvFacts ==
  ASSUME IInv
  PROVE  /\ meta \in MetaType /\ Count(meta) \in Nat
         /\ MaxBlocks \in Nat /\ Count(meta) <= MaxBlocks /\ Count(meta) <= BlockNull
         /\ \A id \in IdsOf(meta) : id < Count(meta)
         /\ FileCount \in Nat /\ FileCount <= MaxBlocks /\ HeaderOK(header, FileCount)
         /\ base \in Nat
         /\ ~open => pending = NoWrite
<1>1. meta \in MetaType
  BY DEF IInv, StoreTypeOK, MetaType
<1>2. Count(meta) \in Nat
  BY <1>1, MetaFacts, Zenon
<1>3. Count(meta) <= MaxBlocks /\ \A id \in IdsOf(meta) : id < Count(meta)
  BY DEF IInv, StoreInv, IdsBelowCount
<1>4. MaxBlocks \in Nat /\ Count(meta) <= BlockNull
  <2> DEFINE c == Count(meta)
  <2>1. c \in Nat /\ c <= MaxBlocks
    BY <1>2, <1>3
  <2> HIDE DEF c
  <2>2. c <= BlockNull /\ MaxBlocks \in Nat
    BY <2>1, BlocksAssumption, DiskStoreAssumption, SMT
  <2> QED BY <2>2 DEF c
<1>5. Word(header, 2) \in Nat /\ Word(header, 3) \in Nat
  BY BlocksAssumption, SMT DEF IInv, StoreTypeOK, Word, BlockIds
<1>6. FileCount \in Nat /\ FileCount <= MaxBlocks
  BY <1>5, SMT DEF FileCount, IInv, StoreInv, FileIdsBelowCount
<1>7. HeaderOK(header, FileCount)
  BY DEF HeaderOK, BodyBelow, FileCount, IInv, StoreInv, StoreTypeOK, FileIdsBelowCount
<1>8. base \in Nat
  BY BlocksAssumption, SMT DEF IInv, StoreTypeOK
<1>9. ~open => pending = NoWrite
  BY DEF IInv, StoreTypeOK, StoreInv, PendingIsRecent
<1> QED BY <1>1, <1>2, <1>3, <1>4, <1>6, <1>7, <1>8, <1>9

\* A write that can reach the file: nothing, a block from base on, or an image
\* of the metadata that is whole, or cut somewhere after its sizes.
WriteOK(write) ==
  \/ write.to = "none"
  \/ write.to = "block" /\ base <= write.id /\ write.id \in BlockIds
  \/ /\ write.to = "meta"
     /\ \E n \in 3..Len(Encode(meta)) : write.words = SubSeq(Encode(meta), 1, n)

\* Such a write leaves the file's ids below its count, and the count between
\* what it was and what the process has registered.
LEMMA ApplyLemma ==
  ASSUME IInv, open, NEW write, WriteOK(write), Apply(write)
  PROVE  /\ status' \in {"absent", "empty", "written"}
         /\ header' \in Seq(BlockIds) /\ DOMAIN disk' = BlockIds
         /\ FileIdsBelowCount'
         /\ FileCount' \in Nat /\ FileCount' <= Count(meta)
         /\ write.to # "meta" => FileCount' = FileCount
         /\ write.to = "meta" => FileCount' = Count(meta)
<1>1. /\ FileCount \in Nat /\ FileCount <= Count(meta)
      /\ Count(meta) \in Nat /\ Count(meta) <= MaxBlocks /\ Count(meta) <= BlockNull
  <2>1. /\ FileCount \in Nat /\ Count(meta) \in Nat /\ base \in Nat
        /\ Count(meta) <= MaxBlocks /\ Count(meta) <= BlockNull
    BY InvFacts
  <2>2. FileCount <= base /\ base <= Count(meta)
    BY DEF IInv, StoreInv, BaseBetweenCounts
  <2> DEFINE f == FileCount
             c == Count(meta)
  <2>3. f \in Nat /\ c \in Nat /\ f <= base /\ base <= c
    BY <2>1, <2>2
  <2> HIDE DEF f, c
  <2>4. f <= c
    BY <2>1, <2>3, SMT
  <2> QED BY <2>1, <2>4 DEF f, c
<1>2. DOMAIN disk' = BlockIds
  BY DEF Apply, DiskAfter, IInv, StoreTypeOK
<1>3. status' \in {"absent", "empty", "written"}
  BY DEF Apply, IInv, StoreTypeOK
<1>4. CASE write.to # "meta"
  <2>1. header' = header
    BY <1>4 DEF Apply, HeaderAfter
  <2>2. FileCount' = FileCount
    BY <2>1 DEF FileCount
  <2>3. FileIdsBelowCount'
    BY <2>1, <2>2 DEF FileIdsBelowCount, Apply, IInv, StoreInv
  <2> QED BY <1>1, <1>2, <1>3, <1>4, <2>1, <2>2, <2>3 DEF IInv, StoreTypeOK
<1>5. CASE write.to = "meta"
  <2>1. PICK n \in 3..Len(Encode(meta)) : write.words = SubSeq(Encode(meta), 1, n)
    BY <1>5 DEF WriteOK
  <2>2. header' = Overlay(SubSeq(Encode(meta), 1, n), header)
    BY <1>5, <2>1 DEF Apply, HeaderAfter
  <2>3. HeaderOK(header', Count(meta))
    BY <1>1, <2>2, InvFacts, PrefixOverlay
  <2>4. FileCount' = Count(meta)
    BY <2>3 DEF HeaderOK, FileCount
  <2>5. status' = "written"
    BY <1>5 DEF Apply
  <2>6. FileIdsBelowCount'
    BY <1>1, <2>3, <2>4, <2>5 DEF FileIdsBelowCount, HeaderOK, BodyBelow
  <2> QED BY <1>1, <1>2, <1>3, <1>5, <2>3, <2>4, <2>6 DEF HeaderOK
<1> QED BY <1>4, <1>5

\* The buffered write can reach the file.
LEMMA PendingOK ==
  ASSUME IInv
  PROVE  WriteOK(pending)
<1>1. CASE pending = NoWrite
  BY <1>1 DEF WriteOK, NoWrite
<1>2. CASE pending.to = "block" /\ pending.id \in BlockIds
  BY <1>2 DEF WriteOK, IInv, StoreInv, PendingIsRecent
<1>3. CASE pending.to = "meta"
  <2>1. pending.words = Encode(meta)
    BY <1>3 DEF IInv, StoreInv, PendingIsRecent
  <2> DEFINE e == Encode(meta)
  <2>2. e \in Seq(BlockIds) /\ Len(e) = 3 + Count(meta) /\ Count(meta) \in Nat
    BY InvFacts, EncodeLemma
  <2> HIDE DEF e
  <2>3. Len(e) \in 3..Len(e) /\ e = SubSeq(e, 1, Len(e))
    BY <2>2, SMT
  <2> QED BY <1>3, <2>1, <2>3 DEF WriteOK, e
<1> QED BY <1>1, <1>2, <1>3 DEF IInv, StoreTypeOK

\* So can what a crash leaves of it.
LEMMA TornOK ==
  ASSUME IInv, NEW write \in {NoWrite, pending} \cup TornWrites
  PROVE  WriteOK(write)
<1>1. CASE write = NoWrite
  BY <1>1 DEF WriteOK, NoWrite
<1>2. CASE write = pending
  BY <1>2, PendingOK
<1>3. CASE write \in TornWrites
  <2>1. CASE pending.to = "block"
    BY <1>3, <2>1, PendingOK DEF TornWrites, WriteOK, BlockWrite
  <2>2. CASE pending.to = "meta" /\ TornMeta
    <3> DEFINE e == Encode(meta)
               d == Len(meta.data)
    <3>1. pending.words = e
      BY <2>2 DEF IInv, StoreInv, PendingIsRecent
    <3>2. write = MetaWrite(SubSeq(pending.words, 1, 3 + pending.words[2]))
      BY <1>3, <2>2 DEF TornWrites, EarlyPart
    <3>3. /\ e[2] = d /\ Len(e) = 3 + Count(meta) /\ Count(meta) = d + Len(meta.btree)
          /\ d \in Nat /\ Len(meta.btree) \in Nat
      BY InvFacts, EncodeLemma, MetaFacts
    <3> HIDE DEF e, d
    <3>4. 3 + d \in 3..Len(e)
      BY <3>3, SMT
    <3>5. write.to = "meta" /\ write.words = SubSeq(e, 1, 3 + d)
      BY <3>1, <3>2, <3>3 DEF MetaWrite
    <3> QED BY <3>4, <3>5 DEF WriteOK, e
  <2> QED BY <1>3, <2>1, <2>2 DEF TornWrites
<1> QED BY <1>1, <1>2, <1>3

-----------------------------------------------------------------------------
(* The invariant is inductive.                                             *)

\* The metadata of no process: no id at all.
LEMMA FreshFacts ==
  /\ FreshMeta \in MetaType /\ Count(FreshMeta) = 0 /\ IdsOf(FreshMeta) = {}
  /\ \A n, m \in 0..StaleMax :
       /\ ZeroMeta(n, m) \in MetaType /\ Count(ZeroMeta(n, m)) = n + m
       /\ \A id \in IdsOf(ZeroMeta(n, m)) : id < n + m
<1>1. /\ FreshMeta \in MetaType /\ FreshMeta.data = <<>> /\ FreshMeta.btree = <<>>
  BY BlocksAssumption, SMT DEF FreshMeta, MetaType, BlockIds
<1>2. Count(FreshMeta) = 0 /\ IdsOf(FreshMeta) = {}
  BY <1>1, SMT DEF Count, IdsOf, ToSet
<1>3. ASSUME NEW n \in 0..StaleMax, NEW m \in 0..StaleMax
      PROVE  /\ ZeroMeta(n, m) \in MetaType /\ Count(ZeroMeta(n, m)) = n + m
             /\ \A id \in IdsOf(ZeroMeta(n, m)) : id < n + m
  <2> DEFINE d == [i \in 1..n |-> 0]
             b == [i \in 1..m |-> 0]
             found == ZeroMeta(n, m)
  <2>1. n \in Nat /\ m \in Nat
    BY DiskStoreAssumption, SMT
  <2>2. /\ d \in Seq(BlockIds) /\ Len(d) = n /\ b \in Seq(BlockIds) /\ Len(b) = m
        /\ \A i \in DOMAIN d : d[i] = 0 /\ 0 < n + m
        /\ \A i \in DOMAIN b : b[i] = 0 /\ 0 < n + m
    BY <2>1, BlocksAssumption, SMT DEF BlockIds
  <2>0. found = [root |-> BlockNull, data |-> d, btree |-> b]
    BY DEF ZeroMeta
  <2> HIDE DEF d, b
  <2>3. found \in MetaType /\ found.data = d /\ found.btree = b
    <3>2. BlockNull \in BlockIds
      BY BlocksAssumption, SMT DEF BlockIds
    <3> QED BY <2>0, <2>2, <3>2 DEF MetaType
  <2> HIDE DEF found
  <2>4. Count(found) = n + m
    BY <2>2, <2>3, Zenon DEF Count
  <2>5. \A id \in IdsOf(found) : id < n + m
    BY <2>2, <2>3, Zenon DEF IdsOf, ToSet
  <2> QED BY <2>3, <2>4, <2>5 DEF found
<1> QED BY <1>1, <1>2, <1>3

\* A file that does not exist yet.
LEMMA InitInv == StoreInit => IInv
<1> SUFFICES ASSUME StoreInit PROVE IInv
  OBVIOUS
<1>1. StoreTypeOK
  <2>1. header \in Seq(BlockIds) /\ base \in 0..BlockNull /\ DOMAIN disk = BlockIds
    BY BlocksAssumption, SMT DEF StoreInit
  <2>2. meta \in MetaType
    BY FreshFacts DEF StoreInit
  <2> QED BY <2>1, <2>2 DEF StoreInit, StoreTypeOK, MetaType
<1>2. IdsBelowCount
  <2>1. Count(meta) = 0 /\ IdsOf(meta) = {}
    BY FreshFacts DEF StoreInit
  <2>2. 0 <= MaxBlocks
    BY DiskStoreAssumption, SMT
  <2> QED BY <2>1, <2>2 DEF IdsBelowCount
<1>3. header = <<>> /\ FileCount = 0
  BY SMT DEF StoreInit, FileCount, Word
<1>4. FileIdsBelowCount
  BY <1>3, DiskStoreAssumption, SMT DEF FileIdsBelowCount
<1>5. BaseBetweenCounts /\ PendingIsRecent
  BY DEF StoreInit, BaseBetweenCounts, PendingIsRecent, NoWrite
<1> QED BY <1>1, <1>2, <1>4, <1>5 DEF IInv, StoreInv

\* Opening: whatever the file holds, the metadata read has its ids below its
\* count, and the file lists no id that the process does not know.
LEMMA OpenInv == ASSUME IInv, Open PROVE IInv'
<1>1. /\ status' \in {"absent", "empty", "written"} /\ (status' # "written" => header' = <<>>)
      /\ header' = header /\ disk' = disk /\ pending' = NoWrite
      /\ FileCount' = FileCount
  BY InvFacts DEF Open, IInv, StoreTypeOK, StoreInv, FileIdsBelowCount, FileCount
<1>2. /\ meta' \in MetaType /\ Count(meta') \in Nat /\ Count(meta') <= MaxBlocks
      /\ \A id \in IdsOf(meta') : id < Count(meta')
      /\ FileCount <= Count(meta')
  <2>1. CASE status = "absent"
    <3>1. meta' = FreshMeta
      BY <2>1 DEF Open, MetaOnOpen
    <3>2. FileCount = 0
      BY <2>1, SMT DEF IInv, StoreInv, FileIdsBelowCount, FileCount, Word
    <3>3. meta' \in MetaType /\ Count(meta') = 0 /\ IdsOf(meta') = {}
      BY <3>1, FreshFacts
    <3>4. 0 \in Nat /\ 0 <= MaxBlocks /\ 0 <= 0
      BY DiskStoreAssumption, SMT
    <3> QED BY <3>2, <3>3, <3>4
  <2>2. CASE status = "empty"
    <3>1. PICK n \in 0..StaleMax, m \in 0..StaleMax : meta' = ZeroMeta(n, m)
      BY <2>2 DEF Open, MetaOnOpen
    <3>2. FileCount = 0
      BY <2>2, SMT DEF IInv, StoreInv, FileIdsBelowCount, FileCount, Word
    <3>3. /\ meta' \in MetaType /\ Count(meta') = n + m
          /\ \A id \in IdsOf(meta') : id < n + m
      BY <3>1, FreshFacts
    <3>4. n + m \in Nat /\ n + m <= MaxBlocks
      BY DiskStoreAssumption, SMT
    <3> QED BY <3>2, <3>3, <3>4, SMT
  <2>3. CASE status = "written"
    <3>1. meta' = Decode(header)
      BY <2>3 DEF Open, MetaOnOpen
    <3>2. FileCount \in Nat /\ FileCount <= MaxBlocks /\ HeaderOK(header, FileCount)
      BY InvFacts
    <3>3. /\ meta' \in MetaType /\ Count(meta') = FileCount
          /\ \A id \in IdsOf(meta') : id < FileCount
      BY <3>1, <3>2, DecodeLemma
    <3> QED BY <3>2, <3>3, SMT
  <2> QED BY <2>1, <2>2, <2>3 DEF IInv, StoreTypeOK
<1>3. base' = Count(meta') /\ base' \in 0..BlockNull /\ open' = TRUE
  <2> DEFINE c == Count(meta')
  <2>1. base' = c /\ c \in Nat /\ c <= MaxBlocks
    BY <1>2 DEF Open
  <2> HIDE DEF c
  <2>2. c \in 0..BlockNull
    BY <2>1, BlocksAssumption, DiskStoreAssumption, SMT
  <2> QED BY <2>1, <2>2 DEF Open, c
<1>4. StoreTypeOK'
  BY <1>1, <1>2, <1>3 DEF StoreTypeOK, IInv, MetaType
<1>5. IdsBelowCount' /\ FileIdsBelowCount'
  BY <1>1, <1>2 DEF IdsBelowCount, FileIdsBelowCount, IInv, StoreInv
<1>6. BaseBetweenCounts'
  <2> DEFINE c == Count(meta')
  <2>1. base' = c /\ c \in Nat /\ FileCount' <= c
    BY <1>1, <1>2, <1>3
  <2> HIDE DEF c
  <2>2. FileCount' <= base' /\ base' <= c
    BY <2>1, SMT
  <2> QED BY <2>2 DEF BaseBetweenCounts, c
<1>7. PendingIsRecent'
  BY <1>1 DEF PendingIsRecent, NoWrite
<1> QED BY <1>4, <1>5, <1>6, <1>7 DEF IInv, StoreInv

\* A step in which the pending block write, if there is one, reaches the file,
\* the metadata keeps or gains ids, and the next write is none or a block.
LEMMA WriteStep ==
  ASSUME IInv, Ready, Apply(pending), open' = open, base' = base,
         meta' \in MetaType, Count(meta') \in Nat, Count(meta') <= MaxBlocks,
         Count(meta) <= Count(meta'),
         \A id \in IdsOf(meta') : id < Count(meta'),
         \/ pending' = NoWrite
         \/ /\ pending'.to = "block" /\ pending'.id \in BlockIds
            /\ base <= pending'.id /\ pending'.id < Count(meta')
         \/ pending'.to = "meta" /\ pending'.words = Encode(meta')
  PROVE  IInv'
<1>1. /\ status' \in {"absent", "empty", "written"}
      /\ header' \in Seq(BlockIds) /\ DOMAIN disk' = BlockIds
      /\ FileIdsBelowCount' /\ FileCount' = FileCount
  BY PendingOK, ApplyLemma DEF Ready
<1>2. Count(meta') <= BlockNull
  <2> DEFINE c == Count(meta')
  <2> HIDE DEF c
  <2>1. c \in Nat /\ c <= MaxBlocks
    BY DEF c
  <2>2. c <= BlockNull
    BY <2>1, BlocksAssumption, DiskStoreAssumption, SMT
  <2> QED BY <2>2 DEF c
<1>3. Encode(meta') \in Seq(BlockIds)
  BY <1>2, EncodeLemma
<1>4. StoreTypeOK'
  BY <1>1, <1>3 DEF StoreTypeOK, IInv, MetaType
<1>5. IdsBelowCount' /\ FileIdsBelowCount'
  BY <1>1 DEF IdsBelowCount
<1>6. BaseBetweenCounts'
  <2> DEFINE c == Count(meta)
             d == Count(meta')
  <2>1. c \in Nat /\ d \in Nat /\ c <= d /\ base \in Nat
    BY InvFacts
  <2>2. FileCount <= base /\ base <= c
    BY DEF Ready, IInv, StoreInv, BaseBetweenCounts
  <2> HIDE DEF c, d
  <2>3. FileCount' <= base' /\ base' <= d
    BY <1>1, <2>1, <2>2, SMT
  <2> QED BY <2>3 DEF BaseBetweenCounts, d
<1>7. PendingIsRecent'
  BY DEF PendingIsRecent, NoWrite, Ready
<1> QED BY <1>4, <1>5, <1>6, <1>7 DEF IInv, StoreInv

\* Inserting: the block goes to the id the metadata gains.
LEMMA InsertInv == ASSUME IInv, NEW block, Insert(block) PROVE IInv'
<1> DEFINE c == Count(meta)
<1>1. /\ meta \in MetaType /\ c \in Nat /\ c < MaxBlocks /\ base <= c
      /\ \A id \in IdsOf(meta) : id < c
  BY InvFacts DEF Insert, Ready, IInv, StoreInv, BaseBetweenCounts
<1>2. c < BlockNull /\ c + 1 \in Nat /\ c + 1 <= MaxBlocks /\ c <= c + 1 /\ c < c + 1
      /\ c \in BlockIds
  <2>1. c \in Nat /\ c < MaxBlocks
    BY <1>1
  <2> HIDE DEF c
  <2> QED BY <2>1, BlocksAssumption, DiskStoreAssumption, SMT DEF BlockIds
<1>3. /\ NewId(meta) = c
      /\ meta' \in MetaType /\ Count(meta') = c + 1
      /\ \A id \in IdsOf(meta') : id < c + 1
  BY <1>1, <1>2, RegisterLemma DEF Insert
<1>4. pending'.to = "block" /\ pending'.id = c
  BY <1>3 DEF Insert, BlockWrite
<1> QED BY <1>1, <1>2, <1>3, <1>4, WriteStep DEF Insert

\* Updating one of the process's own blocks.
LEMMA UpdateInv ==
  ASSUME IInv, NEW id \in base..Count(meta) - 1, NEW block, Update(id, block)
  PROVE  IInv'
<1> DEFINE c == Count(meta)
<1>1. Update(id, block)
  OBVIOUS
<1>2. meta \in MetaType /\ c \in Nat /\ c <= BlockNull /\ base \in Nat
  BY InvFacts
<1>3. id \in BlockIds /\ base <= id /\ id < c /\ c <= c
  <2>1. id \in base..c - 1
    OBVIOUS
  <2> HIDE DEF c
  <2> QED BY <1>2, <2>1, BlocksAssumption, SMT DEF BlockIds
<1>4. pending'.to = "block" /\ pending'.id = id
  BY <1>1 DEF Update, BlockWrite
<1> QED BY <1>1, <1>2, <1>3, <1>4, InvFacts, WriteStep DEF Update

\* A read settles the pending write; persist() replaces it by the image.
LEMMA FetchInv == ASSUME IInv, Fetch \/ PersistWrite PROVE IInv'
<1>1. Count(meta) <= Count(meta)
  <2>1. Count(meta) \in Nat
    BY InvFacts
  <2> QED BY <2>1
<1>2. \/ pending' = NoWrite
      \/ pending'.to = "meta" /\ pending'.words = Encode(meta)
  BY DEF Fetch, PersistWrite, MetaWrite
<1> QED BY <1>1, <1>2, InvFacts, WriteStep DEF Fetch, PersistWrite

\* The root is not one of the ids the invariant is about.
LEMMA SetRootInv == ASSUME IInv, NEW id \in BlockIds, SetRoot(id) PROVE IInv'
<1>1. /\ meta' \in MetaType /\ meta'.data = meta.data /\ meta'.btree = meta.btree
  BY InvFacts DEF SetRoot, MetaType
<1>2. Count(meta') = Count(meta) /\ IdsOf(meta') = IdsOf(meta) /\ FileCount' = FileCount
  BY <1>1 DEF Count, IdsOf, FileCount, SetRoot
<1>3. StoreTypeOK'
  BY <1>1 DEF IInv, StoreTypeOK, SetRoot, MetaType
<1>4. IdsBelowCount' /\ FileIdsBelowCount' /\ BaseBetweenCounts'
  BY <1>2 DEF IInv, StoreInv, SetRoot, IdsBelowCount, FileIdsBelowCount, BaseBetweenCounts
<1>5. PendingIsRecent'
  BY <1>2 DEF IInv, StoreInv, SetRoot, Ready, PendingIsRecent
<1> QED BY <1>3, <1>4, <1>5 DEF IInv, StoreInv

\* Flushing: the file lists every id the process has registered.
LEMMA FlushInv == ASSUME IInv, PersistFlush PROVE IInv'
<1>1. /\ status' \in {"absent", "empty", "written"}
      /\ header' \in Seq(BlockIds) /\ DOMAIN disk' = BlockIds
      /\ FileIdsBelowCount' /\ FileCount' = Count(meta)
  BY PendingOK, ApplyLemma DEF PersistFlush
<1>2. base' = Count(meta) /\ meta' = meta /\ open' = open /\ pending' = NoWrite
  BY DEF PersistFlush
<1>3. Count(meta) \in 0..BlockNull /\ Count(meta) <= Count(meta)
  <2> DEFINE c == Count(meta)
  <2>1. c \in Nat /\ c <= BlockNull
    BY InvFacts
  <2> HIDE DEF c
  <2>2. c \in 0..BlockNull /\ c <= c
    BY <2>1, BlocksAssumption, SMT
  <2> QED BY <2>2 DEF c
<1>4. StoreTypeOK'
  BY <1>1, <1>2, <1>3 DEF StoreTypeOK, IInv
<1>5. IdsBelowCount' /\ FileIdsBelowCount'
  BY <1>1, <1>2 DEF IdsBelowCount, IInv, StoreInv
<1>6. BaseBetweenCounts' /\ PendingIsRecent'
  BY <1>1, <1>2, <1>3 DEF BaseBetweenCounts, PendingIsRecent, NoWrite
<1> QED BY <1>4, <1>5, <1>6 DEF IInv, StoreInv

\* The early part of an image lists the ids of data blocks, and the rest of an
\* older image: all below the count it gives.
LEMMA PartInv == ASSUME IInv, PersistPart PROVE IInv'
<1>0. EarlyPart \in {NoWrite, pending} \cup TornWrites
  BY DEF PersistPart, TornWrites
<1>1. /\ status' \in {"absent", "empty", "written"}
      /\ header' \in Seq(BlockIds) /\ DOMAIN disk' = BlockIds
      /\ FileIdsBelowCount' /\ FileCount' = Count(meta)
  <2>1. WriteOK(EarlyPart)
    BY <1>0, TornOK
  <2>2. open /\ Apply(EarlyPart) /\ EarlyPart.to = "meta"
    BY DEF PersistPart, EarlyPart, MetaWrite
  <2> QED BY <2>1, <2>2, ApplyLemma
<1>2. base' = Count(meta) /\ meta' = meta /\ open' = open /\ pending' = pending
  BY DEF PersistPart
<1>3. Count(meta) \in 0..BlockNull /\ Count(meta) <= Count(meta)
  <2> DEFINE c == Count(meta)
  <2>1. c \in Nat /\ c <= BlockNull
    BY InvFacts
  <2> HIDE DEF c
  <2>2. c \in 0..BlockNull /\ c <= c
    BY <2>1, BlocksAssumption, SMT
  <2> QED BY <2>2 DEF c
<1>4. StoreTypeOK'
  BY <1>1, <1>2, <1>3 DEF StoreTypeOK, IInv
<1>5. IdsBelowCount' /\ FileIdsBelowCount'
  BY <1>1, <1>2 DEF IdsBelowCount, IInv, StoreInv
<1>6. BaseBetweenCounts' /\ PendingIsRecent'
  BY <1>1, <1>2, <1>3 DEF BaseBetweenCounts, PendingIsRecent, PersistPart, IInv, StoreInv
<1> QED BY <1>4, <1>5, <1>6 DEF IInv, StoreInv

\* The end of a process, orderly or not: what it registered without persisting
\* is forgotten, and the file's own ids are below the file's count.
LEMMA EndInv == ASSUME IInv, Close \/ Crash PROVE IInv'
<1>1. /\ status' \in {"absent", "empty", "written"}
      /\ header' \in Seq(BlockIds) /\ DOMAIN disk' = BlockIds
      /\ FileIdsBelowCount'
  BY PendingOK, TornOK, ApplyLemma DEF Close, Crash, Ready
<1>2. meta' = FreshMeta /\ base' = 0 /\ open' = FALSE /\ pending' = NoWrite
  BY DEF Close, Crash, Forget
<1>3. 0 \in 0..BlockNull /\ 0 <= MaxBlocks
  BY BlocksAssumption, DiskStoreAssumption, SMT
<1>4. StoreTypeOK'
  BY <1>1, <1>2, <1>3, FreshFacts DEF StoreTypeOK, MetaType
<1>5. IdsBelowCount' /\ FileIdsBelowCount'
  BY <1>1, <1>2, <1>3, FreshFacts DEF IdsBelowCount
<1>6. BaseBetweenCounts' /\ PendingIsRecent'
  BY <1>2 DEF BaseBetweenCounts, PendingIsRecent, NoWrite
<1> QED BY <1>4, <1>5, <1>6 DEF IInv, StoreInv

\* A step that changes nothing.
LEMMA StutterInv == ASSUME IInv, UNCHANGED storeVars PROVE IInv'
<1>1. /\ UNCHANGED <<status, header, disk, pending, open, meta, base>>
      /\ FileCount' = FileCount
  BY DEF storeVars, FileCount
<1>2. StoreTypeOK'
  BY <1>1 DEF IInv, StoreTypeOK
<1>3. IdsBelowCount' /\ FileIdsBelowCount' /\ BaseBetweenCounts' /\ PendingIsRecent'
  BY <1>1 DEF IInv, StoreInv, IdsBelowCount, FileIdsBelowCount, BaseBetweenCounts,
              PendingIsRecent
<1> QED BY <1>2, <1>3 DEF IInv, StoreInv

\* Every step keeps the invariant.
LEMMA NextInv == ASSUME IInv, [StoreNext]_storeVars PROVE IInv'
<1>1. CASE Open
  BY <1>1, OpenInv
<1>2. CASE \E block \in Contents : Insert(block)
  BY <1>2, InsertInv
<1>3. CASE UpdateOwn
  BY <1>3, UpdateInv DEF UpdateOwn
<1>4. CASE \E id \in IdsOf(meta) : SetRoot(id)
  BY <1>4, SetRootInv, InvFacts, IdsAreBlockIds
<1>5. CASE Fetch \/ PersistWrite
  BY <1>5, FetchInv
<1>6. CASE PersistFlush
  BY <1>6, FlushInv
<1>7. CASE Close \/ Crash
  BY <1>7, EndInv
<1>8. CASE UNCHANGED storeVars
  BY <1>8, StutterInv
<1>9. CASE PersistPart
  BY <1>9, PartInv
<1> QED BY <1>1, <1>2, <1>3, <1>4, <1>5, <1>6, <1>7, <1>8, <1>9 DEF StoreNext

\* Every state of the store, under any client that updates only its own
\* blocks, satisfies the invariant.
LEMMA InductiveInvariant == StoreSpec => []IInv
<1>1. IInv /\ [StoreNext]_storeVars => IInv'
  BY NextInv
<1> QED BY InitInv, <1>1, PTL DEF StoreSpec

-----------------------------------------------------------------------------
(* What follows from it.                                                   *)

\* Every variable of the store (disk_store.cpp, metadata.cpp) keeps its type.
THEOREM TypesAreKept == StoreSpec => []StoreTypeOK
<1>1. IInv => StoreTypeOK
  BY DEF IInv
<1> QED BY InductiveInvariant, <1>1, PTL

\* Ids are counted and never reused: whatever the interleaving of inserts,
\* persists, reopenings and crashes, the ids of the metadata and of the file
\* are below their counts (store.cpp register_id, metadata.cpp new_id).
THEOREM IdsAreCounted == StoreSpec => []StoreInv
<1>1. IInv => StoreInv
  BY DEF IInv
<1> QED BY InductiveInvariant, <1>1, PTL

\* The ids that the file lists are below its count of ids.
LEMMA FileIdsBelow == ASSUME IInv PROVE \A id \in FileIds : id \in Nat /\ id < FileCount
<1> DEFINE f == FileCount
<1>1. f \in Nat /\ HeaderOK(header, f)
  BY InvFacts
<1>2. FileIds = {Word(header, 3 + i) : i \in 1..f}
  BY DEF FileIds
<1> HIDE DEF f
<1>3. \A i \in 1..f : Word(header, 3 + i) \in Nat /\ Word(header, 3 + i) < f
  BY <1>1, BlocksAssumption, SMT DEF HeaderOK, BodyBelow, Word, BlockIds
<1> QED BY <1>2, <1>3 DEF f

\* metadata.h:28, "a fresh unallocated block id": the next id is listed neither
\* in the metadata of the process nor in the file.
THEOREM IdsAreFresh == StoreSpec => []NewIdIsFresh
<1>1. ASSUME IInv, open, Count(meta) < MaxBlocks
      PROVE  NewId(meta) \notin IdsOf(meta) \cup FileIds
  <2> DEFINE c == Count(meta)
             f == FileCount
  <2>1. /\ c \in Nat /\ c < MaxBlocks /\ f \in Nat /\ base \in Nat
        /\ f <= base /\ base <= c
        /\ \A id \in IdsOf(meta) : id < c
        /\ \A id \in FileIds : id \in Nat /\ id < f
    BY <1>1, InvFacts, FileIdsBelow DEF IInv, StoreInv, BaseBetweenCounts
  <2>2. \A id \in IdsOf(meta) : id \in Nat
    BY <1>1, InvFacts, IdsAreBlockIds, BlocksAssumption, SMT DEF BlockIds
  <2>3. NewId(meta) = c % (BlockNull + 1)
    BY DEF NewId
  <2> HIDE DEF c, f
  <2>4. c < BlockNull + 1 /\ BlockNull + 1 \in Nat
    BY <2>1, BlocksAssumption, DiskStoreAssumption, SMT
  <2>5. NewId(meta) = c
    BY <2>1, <2>3, <2>4, ModSmall
  <2>6. c \notin IdsOf(meta) \cup FileIds
    BY <2>1, <2>2, SMT
  <2> QED BY <2>5, <2>6
<1>2. IInv => NewIdIsFresh
  BY <1>1 DEF NewIdIsFresh
<1> QED BY InductiveInvariant, <1>2, PTL

\* An image of the metadata, whole or cut, ends before the first data block.
LEMMA ImageIsClear ==
  ASSUME IInv, MetaFits, NEW n \in 3..Len(Encode(meta)), NEW id \in BlockIds
  PROVE  ClearOf(id, n)
<1> DEFINE c == Count(meta)
           e == Len(Encode(meta))
<1>1. e = 3 + c /\ c \in Nat /\ c <= MaxBlocks /\ MaxBlocks \in Nat
  BY InvFacts, EncodeLemma
<1>2. n \in 3..e
  OBVIOUS
<1> HIDE DEF c, e
<1>3. n <= BlockWords /\ n \in Nat /\ BlockWords \in Nat /\ id \in Nat
  BY <1>1, <1>2, BlocksAssumption, DiskStoreAssumption, SMT DEF MetaFits, BlockIds
<1>4. BlockWords * (id + 1) = BlockWords * id + BlockWords /\ BlockWords * id \in Nat
  BY <1>3, SMT
<1>5. n <= BlockWords * (id + 1)
  <2> DEFINE p == BlockWords * id
             q == BlockWords * (id + 1)
  <2>1. q = p + BlockWords /\ p \in Nat
    BY <1>4
  <2> HIDE DEF p, q
  <2>2. n <= q
    BY <1>3, <2>1, SMT
  <2> QED BY <2>2 DEF q
<1> QED BY <1>5 DEF ClearOf

LEMMA WholeImageIsClear ==
  ASSUME IInv, MetaFits, NEW id \in BlockIds
  PROVE  ClearOf(id, Len(Encode(meta)))
<1> DEFINE c == Count(meta)
           e == Len(Encode(meta))
<1>1. e = 3 + c /\ c \in Nat
  BY InvFacts, EncodeLemma
<1> HIDE DEF c, e
<1>2. e \in 3..e
  BY <1>1, SMT
<1> QED BY <1>2, ImageIsClear DEF e

\* A write that can reach the file changes no block below base.
LEMMA ApplyKeeps ==
  ASSUME IInv, MetaFits, NEW write, WriteOK(write), Apply(write), NEW id \in BlockIds
  PROVE  \/ disk'[id] = disk[id]
         \/ write.to = "block" /\ write.id = id /\ base <= id
<1>0. DOMAIN disk = BlockIds
  BY DEF IInv, StoreTypeOK
<1>1. CASE write.to = "none"
  BY <1>1 DEF Apply, DiskAfter
<1>2. CASE write.to = "block"
  BY <1>0, <1>2 DEF Apply, DiskAfter, WriteOK
<1>3. CASE write.to = "meta"
  <2>1. PICK n \in 3..Len(Encode(meta)) : write.words = SubSeq(Encode(meta), 1, n)
    BY <1>3 DEF WriteOK
  <2>2. Len(write.words) = n
    <3> DEFINE e == Encode(meta)
    <3>1. e \in Seq(BlockIds)
      BY InvFacts, EncodeLemma
    <3>2. n \in 3..Len(e) /\ write.words = SubSeq(e, 1, n)
      BY <2>1
    <3> HIDE DEF e
    <3> QED BY <3>1, <3>2, SMT
  <2>3. disk'[id] = IF ClearOf(id, n) THEN disk[id] ELSE Garbage
    BY <1>3, <2>2 DEF Apply, DiskAfter
  <2> QED BY <2>3, ImageIsClear
<1> QED BY <1>1, <1>2, <1>3 DEF WriteOK

\* Which write a step lets reach the file: the pending one, in full or as a
\* crash leaves it, or none.
LEMMA StepWrites ==
  ASSUME IInv, [StoreNext]_storeVars
  PROVE  \/ disk' = disk
         \/ open /\ \E write \in {NoWrite, pending} \cup TornWrites : Apply(write)
<1>1. PersistPart => open /\ EarlyPart \in TornWrites /\ Apply(EarlyPart)
  BY DEF PersistPart, TornWrites
<1> QED BY <1>1 DEF StoreNext, Open, Insert, UpdateOwn, Update, SetRoot, Fetch, PersistWrite,
                    PersistFlush, Close, Crash, Ready, storeVars

\* No such write goes to a block that the file lists: each goes to a block
\* inserted since the last persist.
LEMMA LiveBlockStays ==
  ASSUME IInv, MetaFits, NEW id \in FileIds,
         \/ disk' = disk
         \/ open /\ \E write \in {NoWrite, pending} \cup TornWrites : Apply(write)
  PROVE  disk'[id] = disk[id]
<1>1. CASE disk' = disk
  BY <1>1
<1>2. CASE open /\ \E write \in {NoWrite, pending} \cup TornWrites : Apply(write)
  <2>1. PICK write : WriteOK(write) /\ Apply(write)
    BY <1>2, TornOK
  <2> DEFINE f == FileCount
  <2>2. id \in Nat /\ id < f /\ f \in Nat /\ f <= MaxBlocks /\ f <= base /\ base \in Nat
    BY <1>2, FileIdsBelow, InvFacts DEF IInv, StoreInv, BaseBetweenCounts
  <2> HIDE DEF f
  <2>3. id \in BlockIds /\ ~(base <= id)
    BY <2>2, BlocksAssumption, DiskStoreAssumption, SMT DEF BlockIds
  <2> QED BY <2>1, <2>3, ApplyKeeps
<1> QED BY <1>1, <1>2

\* While the metadata fits in its block, no step of any process, its death in
\* the middle of a write included, changes a block that the file lists before
\* and after the step (disk_store.cpp insert, update, persist).
THEOREM LiveBlocksKept == ASSUME MetaFits PROVE StoreSpec => LiveBlocksUntouched
<1>1. IInv /\ [StoreNext]_storeVars
        => [\A id \in FileIds \cap FileIds' : disk'[id] = disk[id]]_storeVars
  BY StepWrites, LiveBlockStays
<1> QED BY InductiveInvariant, <1>1, PTL DEF StoreSpec, LiveBlocksUntouched
=============================================================================
