---------------------------- MODULE KeySetProofs ----------------------------
(***************************************************************************)
(* proj1's page file is numbered without gaps and is a set of keys, and no *)
(* copy of a leaf is outdated: proofs for every degree, every table and    *)
(* every death of a process, as long as nothing is inserted into a         *)
(* reopened file.  First come lemmas about the internal nodes in memory:   *)
(* what an insertion relies on when it descends, and that splitting a node *)
(* and giving a node a child preserve it.  The second half is about order: *)
(* every node and every leaf has a span of keys, a split divides a span,   *)
(* and the spans of the leaves that the links lead to follow one another,  *)
(* so that the links meet every key once and in order.  The last part is   *)
(* about the tree of a process that has inserted all pages of its file:    *)
(* its nodes are on levels, by which the recursions over the tree have a   *)
(* value, a search answers by what was inserted, and the tree has the      *)
(* shape of a B+tree.                                                      *)
(***************************************************************************)
EXTENDS BPlusTreeClient, Basics, FiniteSetTheorems
-----------------------------------------------------------------------------
(* Nodes.                                                                  *)

\* A node whose last key bounds its last child, and separates nothing.
Short(n) == Len(n.children) = Len(n.keys)

NodeType(K) == [type : {1, 2}, keys : Seq(K), children : Seq(Nat)]

\* The nodes over nodes, and the child of one at a position.
Inner(heap) == {a \in DOMAIN heap : heap[a].type = 1}
ChildAt(heap, a, i) == heap[a].children[i]

\* A short child has a key to its right, which is not greater than its last.
Bounded(heap, a, i) ==
  Short(heap[ChildAt(heap, a, i)]) =>
    /\ i <= Len(heap[a].keys)
    /\ ~Greater(heap[a].keys[i], Last(heap[ChildAt(heap, a, i)].keys))

\* A node has as many children as keys, or one more.
SoundNode(n, P) ==
  /\ Len(n.children) \in {Len(n.keys), Len(n.keys) + 1} /\ Len(n.children) > 0
  /\ n.type = 2 => \A i \in DOMAIN n.children : n.children[i] \in P

\* A heap over a set of keys and a set of pages: no node hangs in two places.
SoundHeap(heap, K, P) ==
  /\ heap \in Seq(NodeType(K))
  /\ \A a \in DOMAIN heap : SoundNode(heap[a], P)
  /\ \A a \in Inner(heap) : \A i \in DOMAIN heap[a].children :
       ChildAt(heap, a, i) \in DOMAIN heap \ {a} /\ Bounded(heap, a, i)
  /\ \A a, b \in Inner(heap) :
       \A i \in DOMAIN heap[a].children, j \in DOMAIN heap[b].children :
         ChildAt(heap, a, i) = ChildAt(heap, b, j) => a = b /\ i = j

\* A node that hangs nowhere.
Top(heap, a) ==
  /\ a \in DOMAIN heap /\ ~Short(heap[a])
  /\ \A b \in Inner(heap) : \A i \in DOMAIN heap[b].children : ChildAt(heap, b, i) # a

-----------------------------------------------------------------------------
(* Sequences                                                               *)

\* The last n elements of a sequence, and the first.
LEMMA UptoFacts ==
  ASSUME NEW S, NEW s \in Seq(S), NEW n \in 0..Len(s)
  PROVE  /\ Upto(s, n) \in Seq(S) /\ Len(Upto(s, n)) = n /\ DOMAIN Upto(s, n) = 1..n
         /\ \A i \in 1..n : Upto(s, n)[i] = s[i]
  BY SMT DEF Upto

LEMMA FromFacts ==
  ASSUME NEW S, NEW s \in Seq(S), NEW n \in 0..Len(s)
  PROVE  /\ From(s, n + 1) \in Seq(S) /\ Len(From(s, n + 1)) = Len(s) - n
         /\ DOMAIN From(s, n + 1) = 1..Len(s) - n
         /\ \A i \in 1..Len(s) - n : From(s, n + 1)[i] = s[n + i]
  BY SMT DEF From

LEMMA HalvesSet ==
  ASSUME NEW S, NEW s \in Seq(S), NEW n \in 0..Len(s)
  PROVE  ToSet(Upto(s, n)) \cup ToSet(From(s, n + 1)) = ToSet(s)
<1>1. /\ DOMAIN s = 1..Len(s) /\ Len(s) \in Nat
      /\ DOMAIN Upto(s, n) = 1..n /\ \A i \in 1..n : Upto(s, n)[i] = s[i]
      /\ DOMAIN From(s, n + 1) = 1..Len(s) - n
      /\ \A i \in 1..Len(s) - n : From(s, n + 1)[i] = s[n + i]
  <2>1. DOMAIN s = 1..Len(s) /\ Len(s) \in Nat
    BY LenProperties, Zenon
  <2>2. DOMAIN Upto(s, n) = 1..n /\ \A i \in 1..n : Upto(s, n)[i] = s[i]
    BY UptoFacts, Zenon
  <2>3. /\ DOMAIN From(s, n + 1) = 1..Len(s) - n
        /\ \A i \in 1..Len(s) - n : From(s, n + 1)[i] = s[n + i]
    BY FromFacts, Zenon
  <2> QED BY <2>1, <2>2, <2>3, Zenon
<1>2. /\ \A i \in 1..n : i \in 1..Len(s)
      /\ \A i \in 1..Len(s) - n : n + i \in 1..Len(s)
      /\ \A i \in 1..Len(s) : i \in 1..n \/ (i - n \in 1..Len(s) - n /\ n + (i - n) = i)
  BY <1>1, SMT
<1>3. ASSUME NEW i \in 1..Len(s) PROVE s[i] \in ToSet(Upto(s, n)) \cup ToSet(From(s, n + 1))
  BY <1>1, <1>2 DEF ToSet
<1>4. ASSUME NEW i \in 1..n PROVE Upto(s, n)[i] \in ToSet(s)
  BY <1>1, <1>2 DEF ToSet
<1>5. ASSUME NEW i \in 1..Len(s) - n PROVE From(s, n + 1)[i] \in ToSet(s)
  BY <1>1, <1>2 DEF ToSet
<1> QED BY <1>1, <1>3, <1>4, <1>5, ZenonT(60) DEF ToSet

-----------------------------------------------------------------------------
(* Keys                                                                    *)

KeyType == [fg : Nat, id : Nat]

\* Of two keys with different numbers one is greater.
LEMMA OneIsGreater ==
  ASSUME NEW a \in KeyType, NEW b \in KeyType, a.id # b.id
  PROVE  Greater(a, b) \/ Greater(b, a)
  BY SMT DEF KeyType, Greater, Less

LEMMA GreaterIsStrict ==
  ASSUME NEW a \in KeyType PROVE ~Greater(a, a)
  BY SMT DEF KeyType, Greater, Less

LEMMA GreaterChains ==
  ASSUME NEW a \in KeyType, NEW b \in KeyType, NEW c \in KeyType, Greater(a, b), ~Greater(a, c)
  PROVE  Greater(c, b)
  BY SMT DEF KeyType, Greater, Less

LEMMA GreaterOneWay ==
  ASSUME NEW a \in KeyType, NEW b \in KeyType, Greater(a, b) PROVE ~Greater(b, a)
  BY SMT DEF KeyType, Greater, Less

\* insertNonFullInternal, the place of a key among keys: the key at the place,
\* if there is one, is greater, and the key before it is not.
LEMMA PlaceFacts ==
  ASSUME NEW S, NEW keys \in Seq(S), NEW k
  PROVE  /\ PlaceOf(keys, k) \in 1..Len(keys) + 1
         /\ PlaceOf(keys, k) <= Len(keys) => Greater(keys[PlaceOf(keys, k)], k)
         /\ PlaceOf(keys, k) > 1 => ~Greater(keys[PlaceOf(keys, k) - 1], k)
<1> DEFINE below == {0} \cup {i \in DOMAIN keys : ~Greater(keys[i], k)}
<1>1. DOMAIN keys = 1..Len(keys) /\ Len(keys) \in Nat
  BY SMT
<1>2. below \subseteq 0..Len(keys) /\ below # {}
  BY <1>1, SMT
<1>3. \A i \in DOMAIN keys : i \notin below => Greater(keys[i], k)
  OBVIOUS
<1> DEFINE m == Max(below)
<1>4. PlaceOf(keys, k) = m + 1
  BY DEF PlaceOf
<1> HIDE DEF below
<1>5. m \in below /\ \A i \in below : m >= i
  BY <1>1, <1>2, MaxLemma
<1> HIDE DEF m
<1>6. m \in 0..Len(keys) /\ m + 1 \notin below
  BY <1>2, <1>5, SMT
<1>7. m + 1 \in 1..Len(keys) + 1 /\ (m + 1 <= Len(keys) => m + 1 \in DOMAIN keys)
  BY <1>1, <1>6, SMT
<1>8. m + 1 > 1 => (m + 1) - 1 = m /\ m # 0
  BY <1>6, SMT
<1>9. m # 0 => ~Greater(keys[m], k)
  BY <1>5 DEF below
<1> QED BY <1>3, <1>4, <1>6, <1>7, <1>8, <1>9

-----------------------------------------------------------------------------
(* Nodes                                                                   *)

NodeLengths(n) ==
  Len(n.children) \in {Len(n.keys), Len(n.keys) + 1} /\ Len(n.children) > 0

\* A node m that is n with one more key k at i and the child c to its right.
Adopted(K, n, i, k, c, m) ==
  /\ m \in NodeType(K) /\ m.type = n.type /\ NodeLengths(m) /\ (Short(m) <=> Short(n))
  /\ DOMAIN m.children = 1..Len(n.children) + 1 /\ DOMAIN n.children = 1..Len(n.children)
  /\ Len(m.children) = Len(n.children) + 1 /\ Len(m.keys) = Len(n.keys) + 1
  /\ Len(n.keys) \in Nat /\ Len(n.children) \in Nat /\ i \in 1..Len(n.keys) + 1
  /\ \A j \in 1..i : m.children[j] = n.children[j]
  /\ m.children[i + 1] = c
  /\ \A j \in i + 2..Len(n.children) + 1 : m.children[j] = n.children[j - 1]
  /\ \A j \in 1..i - 1 : m.keys[j] = n.keys[j]
  /\ m.keys[i] = k
  /\ \A j \in i + 1..Len(n.keys) + 1 : m.keys[j] = n.keys[j - 1]
  /\ Short(n) => Last(m.keys) = Last(n.keys)

LEMMA AdoptFacts ==
  ASSUME NEW K, NEW n \in NodeType(K), NodeLengths(n),
         NEW i \in DOMAIN n.children, NEW k \in K, NEW c \in Nat, NEW m, m = Adopt(n, i, k, c)
  PROVE  Adopted(K, n, i, k, c, m)
<1>1. /\ n.keys \in Seq(K) /\ n.children \in Seq(Nat) /\ n.type \in {1, 2}
      /\ DOMAIN n.children = 1..Len(n.children)
      /\ Len(n.keys) \in Nat /\ Len(n.children) \in Nat
  BY LenProperties DEF NodeType
<1>2. i \in 1..Len(n.keys) + 1 /\ i + 1 \in 1..Len(n.children) + 1
  BY <1>1, SMT DEF NodeLengths
<1>3. /\ m.keys = InsertAt(n.keys, i, k) /\ m.children = InsertAt(n.children, i + 1, c)
      /\ m.type = n.type
      /\ m \in [type : {1, 2}, keys : {m.keys}, children : {m.children}]
  BY <1>1 DEF Adopt, NodeType
<1> DEFINE ks == InsertAt(n.keys, i, k)
           cs == InsertAt(n.children, i + 1, c)
<1>4. /\ ks \in Seq(K) /\ Len(ks) = Len(n.keys) + 1
      /\ \A j \in 1..i - 1 : ks[j] = n.keys[j]
      /\ ks[i] = k
      /\ \A j \in i + 1..Len(n.keys) + 1 : ks[j] = n.keys[j - 1]
  <2> DEFINE s == n.keys
  <2>1. s \in Seq(K) /\ i \in 1..Len(s) + 1 /\ ks = InsertAt(s, i, k)
    BY <1>1, <1>2
  <2> HIDE DEF s, ks
  <2>2. /\ InsertAt(s, i, k) \in Seq(K) /\ Len(InsertAt(s, i, k)) = Len(s) + 1
        /\ \A j \in 1..i - 1 : InsertAt(s, i, k)[j] = s[j]
        /\ InsertAt(s, i, k)[i] = k
        /\ \A j \in i + 1..Len(s) + 1 : InsertAt(s, i, k)[j] = s[j - 1]
    BY <2>1, InsertAtFacts, SMTT(30)
  <2> QED BY <2>1, <2>2 DEF s
<1>5. /\ cs \in Seq(Nat) /\ Len(cs) = Len(n.children) + 1
      /\ DOMAIN cs = 1..Len(n.children) + 1
      /\ \A j \in 1..(i + 1) - 1 : cs[j] = n.children[j]
      /\ cs[i + 1] = c
      /\ \A j \in (i + 1) + 1..Len(n.children) + 1 : cs[j] = n.children[j - 1]
  <2> DEFINE s == n.children
             e == i + 1
             N == Nat
  <2>1. s \in Seq(N) /\ e \in 1..Len(s) + 1 /\ cs = InsertAt(s, e, c) /\ c \in N
    BY <1>1, <1>2
  <2> HIDE DEF s, cs, e, N
  <2>2. /\ InsertAt(s, e, c) \in Seq(N) /\ Len(InsertAt(s, e, c)) = Len(s) + 1
        /\ DOMAIN InsertAt(s, e, c) = 1..Len(s) + 1
        /\ \A j \in 1..e - 1 : InsertAt(s, e, c)[j] = s[j]
        /\ InsertAt(s, e, c)[e] = c
        /\ \A j \in e + 1..Len(s) + 1 : InsertAt(s, e, c)[j] = s[j - 1]
    BY <2>1, InsertAtFacts, SMTT(30)
  <2> QED BY <2>1, <2>2 DEF s, e, N
<1> HIDE DEF ks, cs
<1>6. (i + 1) - 1 = i /\ (i + 1) + 1 = i + 2
  BY <1>2, SMT
<1>7. m.keys = ks /\ m.children = cs /\ m \in NodeType(K)
  BY <1>3, <1>4, <1>5 DEF NodeType, ks, cs
<1>8. NodeLengths(m) /\ (Short(m) <=> Short(n))
  <2> DEFINE x == Len(n.keys)
             y == Len(n.children)
             u == Len(m.keys)
             v == Len(m.children)
  <2>1. x \in Nat /\ y \in Nat /\ u = x + 1 /\ v = y + 1 /\ y \in {x, x + 1} /\ y > 0
    BY <1>1, <1>4, <1>5, <1>7 DEF NodeLengths
  <2> HIDE DEF x, y, u, v
  <2>2. v \in {u, u + 1} /\ v > 0 /\ (v = u <=> y = x)
    BY <2>1, SMT
  <2> QED BY <2>2 DEF NodeLengths, Short, x, y, u, v
<1>9. ASSUME Short(n) PROVE Last(m.keys) = Last(n.keys)
  <2>1. Len(n.keys) + 1 \in i + 1..Len(n.keys) + 1 /\ (Len(n.keys) + 1) - 1 = Len(n.keys)
    BY <1>1, <1>2, <1>9, SMT DEF Short
  <2>2. m.keys[Len(n.keys) + 1] = n.keys[(Len(n.keys) + 1) - 1]
    BY <1>4, <1>7, <2>1
  <2> QED BY <1>4, <1>7, <2>1, <2>2 DEF Last
<1> QED BY <1>1, <1>2, <1>3, <1>4, <1>5, <1>6, <1>7, <1>8, <1>9 DEF Adopted

\* splitInternalNode: the halves l and r of a full node n.
Parted(K, n, l, r) ==
  /\ l \in NodeType(K) /\ l.type = n.type /\ NodeLengths(l) /\ Short(l)
  /\ Len(l.keys) = MinDegree /\ n.keys[MinDegree] \in K /\ Last(l.keys) = n.keys[MinDegree]
  /\ DOMAIN l.children = 1..MinDegree
  /\ \A j \in 1..MinDegree : j \in DOMAIN n.children /\ l.children[j] = n.children[j]
  /\ \A j \in 1..MinDegree : l.keys[j] = n.keys[j]
  /\ r \in NodeType(K) /\ r.type = n.type /\ NodeLengths(r) /\ (Short(r) <=> Short(n))
  /\ Len(r.keys) = MinDegree - 1
  /\ DOMAIN r.children = 1..Len(n.children) - MinDegree
  /\ \A j \in DOMAIN r.children :
       MinDegree + j \in DOMAIN n.children /\ r.children[j] = n.children[MinDegree + j]
  /\ \A j \in 1..MinDegree - 1 : r.keys[j] = n.keys[MinDegree + j]
  /\ Last(r.keys) = Last(n.keys)

LEMMA PartFacts ==
  ASSUME NEW K, NEW n \in NodeType(K), NodeLengths(n), Full(n),
         NEW l, l = LeftPart(n), NEW r, r = RightPart(n)
  PROVE  Parted(K, n, l, r)
<1>1. /\ n.keys \in Seq(K) /\ n.children \in Seq(Nat) /\ n.type \in {1, 2}
      /\ DOMAIN n.children = 1..Len(n.children) /\ DOMAIN n.keys = 1..Len(n.keys)
      /\ Len(n.keys) \in Nat /\ Len(n.children) \in Nat
  BY LenProperties DEF NodeType
<1>2. MinDegree \in Nat /\ MinDegree >= 2 /\ Len(n.keys) = 2 * MinDegree - 1
  BY BPlusTreeAssumption DEF Full
<1>3. MinDegree \in 0..Len(n.keys) /\ MinDegree \in 0..Len(n.children) /\ MinDegree \in 1..Len(n.keys)
  BY <1>1, <1>2, SMT DEF NodeLengths
<1>4. /\ l.keys = Upto(n.keys, MinDegree) /\ l.children = Upto(n.children, MinDegree)
      /\ l.type = n.type
      /\ l \in [type : {1, 2}, keys : {l.keys}, children : {l.children}]
  BY <1>1 DEF LeftPart, NodeType
<1>5. /\ r.keys = From(n.keys, MinDegree + 1) /\ r.children = From(n.children, MinDegree + 1)
      /\ r.type = n.type
      /\ r \in [type : {1, 2}, keys : {r.keys}, children : {r.children}]
  BY <1>1 DEF RightPart, NodeType
<1>6. /\ l.keys \in Seq(K) /\ Len(l.keys) = MinDegree
      /\ \A j \in 1..MinDegree : l.keys[j] = n.keys[j]
  BY <1>1, <1>3, <1>4, UptoFacts
<1>7. /\ l.children \in Seq(Nat) /\ Len(l.children) = MinDegree
      /\ DOMAIN l.children = 1..MinDegree
      /\ \A j \in 1..MinDegree : l.children[j] = n.children[j]
  BY <1>1, <1>3, <1>4, UptoFacts
<1>8. /\ r.keys \in Seq(K) /\ Len(r.keys) = Len(n.keys) - MinDegree
      /\ \A j \in 1..Len(n.keys) - MinDegree : r.keys[j] = n.keys[MinDegree + j]
  <2> DEFINE ks == From(n.keys, MinDegree + 1)
  <2>1. /\ ks \in Seq(K) /\ Len(ks) = Len(n.keys) - MinDegree
        /\ \A j \in 1..Len(n.keys) - MinDegree : ks[j] = n.keys[MinDegree + j]
    <3> HIDE DEF ks
    <3> QED BY <1>1, <1>3, FromFacts, ZenonT(60) DEF ks
  <2> HIDE DEF ks
  <2>2. r.keys = ks
    BY <1>5 DEF ks
  <2> QED BY <2>1, <2>2
<1>9. /\ r.children \in Seq(Nat) /\ Len(r.children) = Len(n.children) - MinDegree
      /\ DOMAIN r.children = 1..Len(n.children) - MinDegree
      /\ \A j \in 1..Len(n.children) - MinDegree : r.children[j] = n.children[MinDegree + j]
  <2> DEFINE cs == From(n.children, MinDegree + 1)
  <2>1. /\ cs \in Seq(Nat) /\ Len(cs) = Len(n.children) - MinDegree
        /\ DOMAIN cs = 1..Len(n.children) - MinDegree
        /\ \A j \in 1..Len(n.children) - MinDegree : cs[j] = n.children[MinDegree + j]
    <3> HIDE DEF cs
    <3> QED BY <1>1, <1>3, FromFacts, Zenon DEF cs
  <2> HIDE DEF cs
  <2>2. r.children = cs
    BY <1>5 DEF cs
  <2> QED BY <2>1, <2>2
<1>10. l \in NodeType(K) /\ r \in NodeType(K)
  BY <1>4, <1>5, <1>6, <1>7, <1>8, <1>9 DEF NodeType
<1>11. NodeLengths(l) /\ Short(l) /\ NodeLengths(r) /\ (Short(r) <=> Short(n))
  <2> DEFINE x == Len(n.keys)
             y == Len(n.children)
             u == Len(r.keys)
             v == Len(r.children)
  <2>1. /\ x \in Nat /\ y \in Nat /\ u = x - MinDegree /\ v = y - MinDegree
        /\ y \in {x, x + 1} /\ x = 2 * MinDegree - 1
    BY <1>1, <1>2, <1>8, <1>9 DEF NodeLengths
  <2>2. Len(l.keys) = MinDegree /\ Len(l.children) = MinDegree
    BY <1>6, <1>7
  <2> HIDE DEF x, y, u, v
  <2>3. v \in {u, u + 1} /\ v > 0 /\ (v = u <=> y = x)
    BY <1>2, <2>1, SMT
  <2>4. MinDegree > 0
    BY <1>2, SMT
  <2>5. NodeLengths(r) /\ (Short(r) <=> Short(n))
    BY <2>3 DEF NodeLengths, Short, x, y, u, v
  <2>6. NodeLengths(l) /\ Short(l)
    BY <2>2, <2>4 DEF NodeLengths, Short
  <2> QED BY <2>5, <2>6
<1>12. /\ \A j \in 1..MinDegree : j \in 1..Len(n.children)
       /\ \A j \in 1..Len(n.children) - MinDegree : MinDegree + j \in 1..Len(n.children)
       /\ Len(n.keys) - MinDegree = MinDegree - 1
  BY <1>1, <1>2, <1>3, SMT
<1>13. Last(l.keys) = n.keys[MinDegree] /\ n.keys[MinDegree] \in K
  <2>1. MinDegree \in 1..MinDegree /\ MinDegree \in DOMAIN n.keys
    BY <1>1, <1>2, <1>3, SMT
  <2> QED BY <1>1, <1>6, <2>1, ElementOfSeq DEF Last
<1>14. Last(r.keys) = Last(n.keys)
  <2>1. MinDegree - 1 \in 1..MinDegree - 1 /\ MinDegree + (MinDegree - 1) = Len(n.keys)
    BY <1>2, SMT
  <2> QED BY <1>8, <1>12, <2>1 DEF Last
<1> QED BY <1>1, <1>4, <1>5, <1>6, <1>7, <1>8, <1>9, <1>10, <1>11, <1>12, <1>13, <1>14 DEF Parted

-----------------------------------------------------------------------------
(* Heaps                                                                   *)

LEMMA HeapFacts ==
  ASSUME NEW K, NEW P, NEW heap, SoundHeap(heap, K, P)
  PROVE  /\ heap \in Seq(NodeType(K)) /\ DOMAIN heap = 1..Len(heap) /\ Len(heap) \in Nat
         /\ Len(heap) + 1 \notin DOMAIN heap
         /\ DOMAIN heap \cup {Len(heap) + 1} = 1..Len(heap) + 1
         /\ \A a \in DOMAIN heap : heap[a] \in NodeType(K) /\ NodeLengths(heap[a])
<1>1. heap \in Seq(NodeType(K)) /\ \A a \in DOMAIN heap : NodeLengths(heap[a])
  BY DEF SoundHeap, SoundNode, NodeLengths
<1>2. DOMAIN heap = 1..Len(heap) /\ Len(heap) \in Nat
  BY <1>1, LenProperties
<1>3. \A a \in DOMAIN heap : heap[a] \in NodeType(K)
  BY <1>1, <1>2, ElementOfSeq
<1>4. Len(heap) + 1 \notin 1..Len(heap) /\ 1..Len(heap) \cup {Len(heap) + 1} = 1..Len(heap) + 1
  BY <1>2, SMT
<1> QED BY <1>1, <1>2, <1>3, <1>4

LEMMA HangsOnce ==
  ASSUME NEW K, NEW P, NEW heap, SoundHeap(heap, K, P), NEW a \in Inner(heap), NEW b \in Inner(heap),
         NEW i \in DOMAIN heap[a].children, NEW j \in DOMAIN heap[b].children,
         ChildAt(heap, a, i) = ChildAt(heap, b, j)
  PROVE  a = b /\ i = j
<1>1. \A x, y \in Inner(heap) :
        \A u \in DOMAIN heap[x].children, v \in DOMAIN heap[y].children :
          ChildAt(heap, x, u) = ChildAt(heap, y, v) => x = y /\ u = v
  BY DEF SoundHeap
<1> QED BY <1>1, SMT

\* More keys and more pages.
LEMMA SoundWidens ==
  ASSUME NEW K, NEW P, NEW heap, SoundHeap(heap, K, P),
         NEW K2, K \subseteq K2, NEW P2, P \subseteq P2
  PROVE  SoundHeap(heap, K2, P2)
<1>1. heap \in Seq(NodeType(K)) /\ DOMAIN heap = 1..Len(heap) /\ Len(heap) \in Nat
  BY HeapFacts
<1>2. Seq(K) \subseteq Seq(K2)
  BY SMT
<1>3. NodeType(K) \subseteq NodeType(K2)
  BY <1>2 DEF NodeType
<1>4. heap \in Seq(NodeType(K2))
  BY <1>1, <1>3, SMT
<1>5. \A a \in DOMAIN heap : SoundNode(heap[a], P2)
  BY DEF SoundHeap, SoundNode
<1> QED BY <1>4, <1>5 DEF SoundHeap

\* insertLeaf and insertInternal: the heap h has a new parent a of a page, or
\* of a node that hangs nowhere.
AppendsSound(K, P, heap, type, child, h, a) ==
  /\ SoundHeap(h, K, P) /\ Top(h, a) /\ a \notin DOMAIN heap
  /\ \A b \in DOMAIN heap : b \in DOMAIN h /\ h[b] = heap[b]
  /\ h[a].type = type /\ 1 \in DOMAIN h[a].children /\ h[a].children[1] = child

LEMMA SoundAppends ==
  ASSUME NEW K, NEW P, NEW heap, SoundHeap(heap, K, P), NEW type, NEW child \in Nat,
         \/ type = 1 /\ Top(heap, child)
         \/ type = 2 /\ child \in P,
         NEW h, h = Append(heap, InternalNode(type, <<child>>)), NEW a, a = Len(heap) + 1
  PROVE  AppendsSound(K, P, heap, type, child, h, a)
<1> DEFINE n == InternalNode(type, <<child>>)
<1>1. /\ n.type = type /\ n.keys = <<>> /\ n.children = <<child>> /\ n \in NodeType(K)
      /\ Len(n.keys) = 0 /\ Len(n.children) = 1 /\ DOMAIN n.children = {1} /\ n.children[1] = child
  <2>1. /\ <<>> \in Seq(K) /\ <<child>> \in Seq(Nat) /\ Len(<<>>) = 0 /\ Len(<<child>>) = 1
        /\ DOMAIN <<child>> = {1} /\ <<child>>[1] = child
    BY SMT
  <2> QED BY <2>1 DEF InternalNode, NodeType
<1>2. /\ heap \in Seq(NodeType(K)) /\ DOMAIN heap = 1..Len(heap) /\ Len(heap) \in Nat
      /\ a \notin DOMAIN heap /\ DOMAIN heap \cup {a} = 1..Len(heap) + 1
  BY HeapFacts
<1>3. h = Append(heap, n) /\ n \in NodeType(K)
  BY <1>1
<1> HIDE DEF n
<1>4. /\ h \in Seq(NodeType(K)) /\ DOMAIN h = DOMAIN heap \cup {a}
      /\ h[a] = n /\ \A b \in DOMAIN heap : h[b] = heap[b]
  <2>1. /\ Append(heap, n) \in Seq(NodeType(K)) /\ Len(Append(heap, n)) = Len(heap) + 1
        /\ \A b \in 1..Len(heap) : Append(heap, n)[b] = heap[b]
        /\ Append(heap, n)[Len(heap) + 1] = n
    BY <1>2, <1>3, AppendProperties
  <2>2. DOMAIN h = 1..Len(heap) + 1
    BY <1>3, <2>1, LenProperties
  <2> QED BY <1>2, <1>3, <2>1, <2>2
<1>5. SoundNode(n, P) /\ ~Short(n)
  BY <1>1 DEF SoundNode, Short
<1>6. \A b \in DOMAIN h : SoundNode(h[b], P)
  BY <1>4, <1>5 DEF SoundHeap
\* The places of the longer heap: those of the heap, and perhaps one more.
<1>7. ASSUME NEW b \in Inner(h), NEW j \in DOMAIN h[b].children
      PROVE  \/ b \in Inner(heap) /\ j \in DOMAIN heap[b].children /\ ChildAt(h, b, j) = ChildAt(heap, b, j)
             \/ b = a /\ j = 1 /\ ChildAt(h, b, j) = child /\ type = 1 /\ Top(heap, child)
  BY <1>1, <1>4 DEF Inner, ChildAt
<1>8. ASSUME NEW b \in Inner(heap), NEW j \in DOMAIN heap[b].children
      PROVE  /\ ChildAt(heap, b, j) \in DOMAIN heap \ {b} /\ Bounded(heap, b, j)
             /\ ~Top(heap, ChildAt(heap, b, j))
  BY DEF SoundHeap, Top
<1>9. ASSUME NEW b \in Inner(h), NEW j \in DOMAIN h[b].children
      PROVE  ChildAt(h, b, j) \in DOMAIN h \ {a, b} /\ Bounded(h, b, j)
  <2>1. CASE /\ b \in Inner(heap) /\ j \in DOMAIN heap[b].children
             /\ ChildAt(h, b, j) = ChildAt(heap, b, j)
    <3>1. ChildAt(heap, b, j) \in DOMAIN heap \ {b} /\ Bounded(heap, b, j) /\ b \in DOMAIN heap
      BY <1>8, <2>1 DEF Inner
    <3>2. h[b] = heap[b] /\ h[ChildAt(h, b, j)] = heap[ChildAt(heap, b, j)]
      BY <1>4, <2>1, <3>1
    <3>3. Bounded(h, b, j)
      BY <2>1, <3>1, <3>2 DEF Bounded
    <3> QED BY <1>2, <1>4, <2>1, <3>1, <3>3
  <2>2. CASE b = a /\ ChildAt(h, b, j) = child /\ Top(heap, child)
    <3>1. child \in DOMAIN heap /\ h[child] = heap[child] /\ ~Short(heap[child])
      BY <1>4, <2>2 DEF Top
    <3> QED BY <1>2, <1>4, <2>2, <3>1 DEF Bounded
  <2> QED BY <1>7, <2>1, <2>2
<1>10. ASSUME NEW b \in Inner(h), NEW c \in Inner(h), NEW j \in DOMAIN h[b].children,
              NEW k \in DOMAIN h[c].children, ChildAt(h, b, j) = ChildAt(h, c, k)
       PROVE  b = c /\ j = k
  <2>1. CASE /\ b \in Inner(heap) /\ j \in DOMAIN heap[b].children
             /\ ChildAt(h, b, j) = ChildAt(heap, b, j)
    <3>1. ~Top(heap, ChildAt(h, b, j))
      BY <1>8, <2>1
    <3>2. /\ c \in Inner(heap) /\ k \in DOMAIN heap[c].children
          /\ ChildAt(h, c, k) = ChildAt(heap, c, k)
      BY <1>7, <1>10, <3>1
    <3>3. ChildAt(heap, b, j) = ChildAt(heap, c, k)
      BY <1>10, <2>1, <3>2
    <3> QED BY <2>1, <3>2, <3>3, HangsOnce
  <2>2. CASE b = a /\ j = 1 /\ ChildAt(h, b, j) = child /\ Top(heap, child)
    <3>1. c = a /\ k = 1
      <4>1. ChildAt(h, c, k) = child
        BY <1>10, <2>2
      <4>2. CASE /\ c \in Inner(heap) /\ k \in DOMAIN heap[c].children
                 /\ ChildAt(h, c, k) = ChildAt(heap, c, k)
        BY <1>8, <2>2, <4>1, <4>2
      <4> QED BY <1>7, <4>2
    <3> QED BY <2>2, <3>1
  <2> QED BY <1>7, <2>1, <2>2
<1>11. SoundHeap(h, K, P)
  BY <1>4, <1>6, <1>9, <1>10 DEF SoundHeap
<1>12. Top(h, a)
  BY <1>4, <1>5, <1>9, ZenonT(60) DEF Top
<1> QED BY <1>1, <1>2, <1>4, <1>11, <1>12 DEF AppendsSound

\* splitLeafNode: a node above leaves takes one more leaf.
AdoptsSound(K, P, heap, a, i, k, page, h) ==
  /\ SoundHeap(h, K, P \cup {page})
  /\ \A b : Top(heap, b) => Top(h, b)
  /\ a \in DOMAIN h /\ h[a].type = 2 /\ h[a].keys[i] = k
  /\ i \in DOMAIN h[a].children /\ i + 1 \in DOMAIN h[a].children
  /\ h[a].children[i + 1] = page

LEMMA SoundAdopts ==
  ASSUME NEW K, NEW P, NEW heap, SoundHeap(heap, K, P),
         NEW a \in DOMAIN heap, heap[a].type = 2, NEW i \in DOMAIN heap[a].children,
         NEW k \in K, NEW page \in Nat,
         NEW h, h = [heap EXCEPT ![a] = Adopt(@, i, k, page)]
  PROVE  AdoptsSound(K, P, heap, a, i, k, page, h)
<1> DEFINE n == heap[a]
           m == Adopt(n, i, k, page)
<1>1. /\ heap \in Seq(NodeType(K)) /\ DOMAIN heap = 1..Len(heap) /\ Len(heap) \in Nat
      /\ n \in NodeType(K) /\ NodeLengths(n) /\ n.type = 2
  BY HeapFacts
<1>2. /\ m \in NodeType(K) /\ m.type = 2 /\ NodeLengths(m) /\ (Short(m) <=> Short(n))
      /\ DOMAIN m.children = 1..Len(n.children) + 1 /\ DOMAIN n.children = 1..Len(n.children)
      /\ Len(n.children) \in Nat
      /\ \A j \in 1..i : m.children[j] = n.children[j]
      /\ m.children[i + 1] = page
      /\ \A j \in i + 2..Len(n.children) + 1 : m.children[j] = n.children[j - 1]
      /\ m.keys[i] = k
      /\ Short(n) => Last(m.keys) = Last(n.keys)
  <2>1. i \in DOMAIN n.children /\ m = Adopt(n, i, k, page)
    OBVIOUS
  <2> HIDE DEF n, m
  <2>2. Adopted(K, n, i, k, page, m)
    BY <1>1, <2>1, AdoptFacts
  <2> QED BY <1>1, <2>2 DEF Adopted
<1>3. /\ DOMAIN h = DOMAIN heap /\ h[a] = m /\ \A b \in DOMAIN heap \ {a} : h[b] = heap[b]
      /\ h \in Seq(NodeType(K))
  <2>1. h = [heap EXCEPT ![a] = m]
    OBVIOUS
  <2> HIDE DEF m
  <2>2. DOMAIN h = DOMAIN heap /\ h[a] = m /\ \A b \in DOMAIN heap \ {a} : h[b] = heap[b]
    BY <2>1
  <2>3. h \in Seq(NodeType(K))
    BY <1>1, <1>2, <2>1, SMT
  <2> QED BY <2>2, <2>3
<1> HIDE DEF m
<1>4. i \in DOMAIN m.children /\ i + 1 \in DOMAIN m.children
  BY <1>2, SMT
<1>5. SoundNode(m, P \cup {page})
  <2>1. ASSUME NEW j \in DOMAIN m.children PROVE m.children[j] \in P \cup {page}
    <3>1. \/ j \in 1..i /\ j \in DOMAIN n.children
          \/ j = i + 1
          \/ j \in i + 2..Len(n.children) + 1 /\ j - 1 \in DOMAIN n.children
      BY <1>2, SMT
    <3>2. \A l \in DOMAIN n.children : n.children[l] \in P
      BY <1>1 DEF SoundHeap, SoundNode
    <3> QED BY <1>2, <3>1, <3>2
  <2> QED BY <1>2, <2>1 DEF SoundNode, NodeLengths
<1>6. \A b \in DOMAIN h : SoundNode(h[b], P \cup {page})
  BY <1>3, <1>5 DEF SoundHeap, SoundNode
<1>7. Inner(h) = Inner(heap) /\ \A b \in Inner(heap) : b # a /\ h[b] = heap[b]
  BY <1>1, <1>2, <1>3 DEF Inner
<1>8. \A b \in DOMAIN heap : /\ Short(h[b]) <=> Short(heap[b])
                             /\ Short(h[b]) => Last(h[b].keys) = Last(heap[b].keys)
  BY <1>2, <1>3
<1>9. ASSUME NEW b \in Inner(h), NEW j \in DOMAIN h[b].children
      PROVE  ChildAt(h, b, j) \in DOMAIN h \ {b} /\ Bounded(h, b, j)
  <2>1. ChildAt(heap, b, j) \in DOMAIN heap \ {b} /\ Bounded(heap, b, j) /\ h[b] = heap[b]
    BY <1>7 DEF SoundHeap
  <2>2. ChildAt(h, b, j) = ChildAt(heap, b, j)
    BY <2>1 DEF ChildAt
  <2> QED BY <1>3, <1>8, <2>1, <2>2 DEF Bounded
<1>10. ASSUME NEW b \in Inner(h), NEW c \in Inner(h), NEW j \in DOMAIN h[b].children,
              NEW l \in DOMAIN h[c].children, ChildAt(h, b, j) = ChildAt(h, c, l)
       PROVE  b = c /\ j = l
  <2>1. b \in Inner(heap) /\ c \in Inner(heap) /\ h[b] = heap[b] /\ h[c] = heap[c]
    BY <1>7
  <2>2. ChildAt(heap, b, j) = ChildAt(heap, c, l)
    <3>1. ChildAt(h, b, j) = ChildAt(heap, b, j)
      BY <1>7 DEF ChildAt
    <3>2. ChildAt(h, c, l) = ChildAt(heap, c, l)
      BY <1>7 DEF ChildAt
    <3> QED BY <1>10, <3>1, <3>2
  <2> QED BY <2>1, <2>2, HangsOnce
<1>11. SoundHeap(h, K, P \cup {page})
  BY <1>3, <1>6, <1>9, <1>10 DEF SoundHeap
<1>12. ASSUME NEW b, Top(heap, b) PROVE Top(h, b)
  <2>1. b \in DOMAIN h /\ ~Short(h[b])
    BY <1>3, <1>8, <1>12 DEF Top
  <2>2. ASSUME NEW c \in Inner(h), NEW j \in DOMAIN h[c].children PROVE ChildAt(h, c, j) # b
    <3>1. c \in Inner(heap) /\ j \in DOMAIN heap[c].children
      BY <1>7
    <3>2. ChildAt(heap, c, j) # b
      BY <1>12, <3>1 DEF Top
    <3>3. ChildAt(h, c, j) = ChildAt(heap, c, j)
      BY <1>7 DEF ChildAt
    <3> QED BY <3>2, <3>3
  <2> QED BY <2>1, <2>2 DEF Top
<1> QED BY <1>2, <1>3, <1>4, <1>11, <1>12 DEF AdoptsSound

\* splitInternalNode, a full child of a node: the heap stays sound, the node
\* gets the last key of the left half, which stays where the child was, and
\* the right half next to it.
SplitsSound(K, P, heap, p, i, h, fresh, c) ==
  /\ SoundHeap(h, K, P)
  /\ \A b : Top(heap, b) => Top(h, b)
  /\ p \in Inner(h) /\ i \in DOMAIN h[p].children /\ i + 1 \in DOMAIN h[p].children
  /\ h[p].children[i] = c /\ h[p].children[i + 1] = fresh
  /\ c \in DOMAIN h /\ fresh \in DOMAIN h
  /\ h[p].keys[i] \in K /\ h[p].keys[i] = Last(h[c].keys)
  /\ Short(h[fresh]) => Short(heap[c]) /\ Last(h[fresh].keys) = Last(heap[c].keys)

LEMMA SoundSplits ==
  ASSUME NEW K, K \subseteq KeyType, NEW P, NEW heap, SoundHeap(heap, K, P),
         NEW p \in Inner(heap), NEW i \in DOMAIN heap[p].children,
         Full(heap[heap[p].children[i]]),
         NEW h, h = SplitInternalNode(heap, p, i), NEW fresh, fresh = Len(heap) + 1,
         NEW c, c = heap[p].children[i]
  PROVE  SplitsSound(K, P, heap, p, i, h, fresh, c)
<1> DEFINE n == heap[c]
           q == heap[p]
           k == n.keys[MinDegree]
           l == LeftPart(n)
           r == RightPart(n)
           m == Adopt(q, i, k, fresh)
<1>1. /\ heap \in Seq(NodeType(K)) /\ DOMAIN heap = 1..Len(heap) /\ Len(heap) \in Nat
      /\ fresh \notin DOMAIN heap /\ fresh \in Nat /\ DOMAIN heap \cup {fresh} = 1..Len(heap) + 1
  BY HeapFacts, SMT
<1>2. p \in DOMAIN heap /\ q.type = 1 /\ c \in DOMAIN heap /\ c # p /\ Bounded(heap, p, i)
  <2>1. p \in DOMAIN heap /\ heap[p].type = 1
    BY DEF Inner
  <2>2. ChildAt(heap, p, i) \in DOMAIN heap \ {p} /\ Bounded(heap, p, i)
    BY DEF SoundHeap
  <2> QED BY <2>1, <2>2 DEF ChildAt
<1>3. /\ n \in NodeType(K) /\ NodeLengths(n) /\ Full(n)
      /\ q \in NodeType(K) /\ NodeLengths(q) /\ i \in DOMAIN q.children
  BY <1>2, HeapFacts
<1>4. /\ l \in NodeType(K) /\ l.type = n.type /\ NodeLengths(l) /\ Short(l)
      /\ Len(l.keys) = MinDegree /\ k \in K /\ Last(l.keys) = k
      /\ DOMAIN l.children = 1..MinDegree
      /\ \A j \in 1..MinDegree : j \in DOMAIN n.children /\ l.children[j] = n.children[j]
      /\ \A j \in 1..MinDegree : l.keys[j] = n.keys[j]
      /\ r \in NodeType(K) /\ r.type = n.type /\ NodeLengths(r) /\ (Short(r) <=> Short(n))
      /\ Len(r.keys) = MinDegree - 1
      /\ DOMAIN r.children = 1..Len(n.children) - MinDegree
      /\ \A j \in DOMAIN r.children :
           MinDegree + j \in DOMAIN n.children /\ r.children[j] = n.children[MinDegree + j]
      /\ \A j \in 1..MinDegree - 1 : r.keys[j] = n.keys[MinDegree + j]
      /\ Last(r.keys) = Last(n.keys)
  <2>1. l = LeftPart(n) /\ r = RightPart(n) /\ k = n.keys[MinDegree]
    OBVIOUS
  <2> HIDE DEF n, l, r, k
  <2>2. Parted(K, n, l, r)
    BY <1>3, <2>1, PartFacts
  <2> QED BY <2>1, <2>2 DEF Parted
<1>5. /\ m \in NodeType(K) /\ m.type = q.type /\ NodeLengths(m) /\ (Short(m) <=> Short(q))
      /\ DOMAIN m.children = 1..Len(q.children) + 1 /\ DOMAIN q.children = 1..Len(q.children)
      /\ Len(m.children) = Len(q.children) + 1 /\ Len(m.keys) = Len(q.keys) + 1
      /\ Len(q.keys) \in Nat /\ Len(q.children) \in Nat /\ i \in 1..Len(q.keys) + 1
      /\ \A j \in 1..i : m.children[j] = q.children[j]
      /\ m.children[i + 1] = fresh
      /\ \A j \in i + 2..Len(q.children) + 1 : m.children[j] = q.children[j - 1]
      /\ \A j \in 1..i - 1 : m.keys[j] = q.keys[j]
      /\ m.keys[i] = k
      /\ \A j \in i + 1..Len(q.keys) + 1 : m.keys[j] = q.keys[j - 1]
      /\ Short(q) => Last(m.keys) = Last(q.keys)
  <2>1. m = Adopt(q, i, k, fresh) /\ k \in K /\ fresh \in Nat
    BY <1>1, <1>4
  <2> HIDE DEF q, k, m
  <2>2. Adopted(K, q, i, k, fresh, m)
    BY <1>3, <2>1, AdoptFacts
  <2> QED BY <2>2 DEF Adopted
<1>6. MinDegree \in Nat /\ MinDegree >= 2 /\ Len(n.keys) = 2 * MinDegree - 1
  BY <1>3, BPlusTreeAssumption DEF Full
<1>7. /\ h \in Seq(NodeType(K)) /\ DOMAIN h = DOMAIN heap \cup {fresh}
      /\ h[p] = m /\ h[c] = l /\ h[fresh] = r
      /\ \A b \in DOMAIN heap \ {p, c} : h[b] = heap[b]
  <2> DEFINE g == [heap EXCEPT ![p] = m, ![c] = l]
  <2>1. h = Append(g, r)
    BY <1>2 DEF SplitInternalNode
  <2> HIDE DEF m, l, r
  <2>2. DOMAIN g = DOMAIN heap /\ g[p] = m /\ g[c] = l /\ \A b \in DOMAIN heap \ {p, c} : g[b] = heap[b]
    BY <1>2
  <2>3. g \in Seq(NodeType(K)) /\ Len(g) = Len(heap) /\ r \in NodeType(K)
    <3> DEFINE T == NodeType(K)
    <3>1. /\ heap \in Seq(T) /\ DOMAIN heap = 1..Len(heap) /\ p \in DOMAIN heap /\ c \in DOMAIN heap
          /\ m \in T /\ l \in T /\ r \in T
      BY <1>1, <1>2, <1>4, <1>5
    <3> HIDE DEF T
    <3>2. g \in Seq(T) /\ Len(g) = Len(heap)
      BY <3>1, SMT
    <3> QED BY <3>1, <3>2 DEF T
  <2> HIDE DEF g
  <2>4. /\ Append(g, r) \in Seq(NodeType(K)) /\ Len(Append(g, r)) = Len(g) + 1
        /\ \A b \in 1..Len(g) : Append(g, r)[b] = g[b]
        /\ Append(g, r)[Len(g) + 1] = r
    BY <2>3, AppendProperties
  <2>5. h \in Seq(NodeType(K)) /\ Len(h) = Len(heap) + 1 /\ h[fresh] = r
        /\ \A b \in DOMAIN heap : h[b] = g[b]
    BY <1>1, <2>1, <2>3, <2>4
  <2>6. DOMAIN h = 1..Len(heap) + 1
    BY <2>5, LenProperties
  <2> QED BY <1>1, <1>2, <2>2, <2>5, <2>6
<1> HIDE DEF n, q, k, l, r, m
<1>8. n = heap[c] /\ q = heap[p]
  BY DEF n, q
<1>9. fresh # p /\ fresh # c /\ c # p
  BY <1>1, <1>2
\* Where a place of the new heap was before.
<1> DEFINE Was(a, j, b, s) ==
      \/ a \notin {p, c, fresh} /\ b = a /\ s = j
      \/ a = c /\ b = c /\ s = j /\ j \in 1..MinDegree
      \/ a = fresh /\ b = c /\ s = MinDegree + j /\ j \in DOMAIN r.children
      \/ a = p /\ b = p /\ s = j /\ j \in 1..i
      \/ a = p /\ b = p /\ s = j - 1 /\ j \in i + 2..Len(q.children) + 1
<1>10. ASSUME NEW a \in DOMAIN h, NEW j \in DOMAIN h[a].children, ~(a = p /\ j = i + 1)
       PROVE  \E b \in DOMAIN heap : \E s \in DOMAIN heap[b].children :
                Was(a, j, b, s) /\ h[a].children[j] = heap[b].children[s] /\ h[a].type = heap[b].type
  <2>1. CASE a \notin {p, c, fresh}
    BY <1>7, <2>1
  <2>2. CASE a = c
    <3>1. j \in 1..MinDegree /\ j \in DOMAIN heap[c].children /\ h[a].children[j] = heap[c].children[j]
      BY <1>4, <1>7, <1>8, <2>2
    <3>2. Was(a, j, c, j) /\ h[a].type = heap[c].type
      BY <1>4, <1>7, <1>8, <2>2, <3>1
    <3> HIDE DEF Was
    <3> QED BY <1>2, <3>1, <3>2
  <2>3. CASE a = fresh
    <3>1. /\ j \in DOMAIN r.children /\ MinDegree + j \in DOMAIN heap[c].children
          /\ h[a].children[j] = heap[c].children[MinDegree + j]
      BY <1>4, <1>7, <1>8, <2>3
    <3>2. Was(a, j, c, MinDegree + j) /\ h[a].type = heap[c].type
      BY <1>4, <1>7, <1>8, <2>3, <3>1
    <3> HIDE DEF Was
    <3> QED BY <1>2, <3>1, <3>2
  <2>4. CASE a = p
    <3>1. j \in DOMAIN m.children
      BY <1>7, <2>4
    <3>2. \/ j \in 1..i /\ j \in DOMAIN q.children
          \/ j \in i + 2..Len(q.children) + 1 /\ j - 1 \in DOMAIN q.children
      BY <1>3, <1>5, <1>10, <2>4, <3>1, SMTT(60)
    <3>3. CASE j \in 1..i /\ j \in DOMAIN q.children
      BY <1>2, <1>5, <1>7, <1>8, <2>4, <3>3
    <3>4. CASE j \in i + 2..Len(q.children) + 1 /\ j - 1 \in DOMAIN q.children
      BY <1>2, <1>5, <1>7, <1>8, <2>4, <3>4
    <3> QED BY <3>2, <3>3, <3>4
  <2> QED BY <2>1, <2>2, <2>3, <2>4
<1>11. ASSUME NEW a, NEW j, NEW b, NEW s, NEW d, NEW t, Was(a, j, b, s), Was(d, t, b, s),
              j \in Int, t \in Int
       PROVE  a = d /\ j = t
  <2>1. /\ MinDegree \in Int /\ i \in Int
        /\ \A x \in DOMAIN r.children : x \in Int /\ x >= 1
        /\ \A x \in i + 2..Len(q.children) + 1 : x \in Int /\ x >= i + 2
    BY <1>3, <1>4, <1>5, <1>6, SMT
  <2> QED BY <1>9, <1>11, <2>1, SMT
\* A key right of a place is where it was, except for the child that is split.
<1>12. ASSUME NEW a \in DOMAIN h, NEW j \in DOMAIN h[a].children,
              NEW b \in DOMAIN heap, NEW s \in DOMAIN heap[b].children, Was(a, j, b, s),
              ~(b = p /\ s = i), s <= Len(heap[b].keys)
       PROVE  j <= Len(h[a].keys) /\ h[a].keys[j] = heap[b].keys[s]
  <2>1. CASE a \notin {p, c, fresh}
    BY <1>7, <1>12, <2>1
  <2>2. CASE a = c
    <3>1. s = j /\ j \in 1..MinDegree /\ b = c
      BY <1>9, <1>12, <2>2
    <3>2. j <= MinDegree
      BY <1>6, <3>1, SMT
    <3> QED BY <1>4, <1>7, <1>8, <2>2, <3>1, <3>2
  <2>3. CASE a = fresh
    <3>1. s = MinDegree + j /\ j \in DOMAIN r.children /\ b = c
      BY <1>9, <1>12, <2>3
    <3>2. MinDegree + j <= 2 * MinDegree - 1
      BY <1>6, <1>8, <1>12, <3>1
    <3>3. j \in 1..MinDegree - 1 /\ j <= MinDegree - 1
      BY <1>4, <1>6, <3>1, <3>2, SMT
    <3> QED BY <1>4, <1>7, <1>8, <2>3, <3>1, <3>3
  <2>4. CASE a = p
    <3>1. b = p /\ ((s = j /\ j \in 1..i) \/ (s = j - 1 /\ j \in i + 2..Len(q.children) + 1))
      BY <1>9, <1>12, <2>4
    <3>2. s <= Len(q.keys)
      BY <1>8, <1>12, <3>1
    <3>3. CASE s = j /\ j \in 1..i
      <4>1. j \in 1..i - 1 /\ j <= Len(q.keys) + 1
        BY <1>5, <1>12, <3>1, <3>2, <3>3, SMT
      <4> QED BY <1>5, <1>7, <1>8, <2>4, <3>1, <3>3, <4>1
    <3>4. CASE s = j - 1 /\ j \in i + 2..Len(q.children) + 1
      <4>1. j \in i + 1..Len(q.keys) + 1 /\ j <= Len(q.keys) + 1
        BY <1>5, <3>2, <3>4, SMTT(60)
      <4> QED BY <1>5, <1>7, <1>8, <2>4, <3>1, <3>4, <4>1
    <3> QED BY <3>1, <3>3, <3>4
  <2> QED BY <2>1, <2>2, <2>3, <2>4
<1>13. ASSUME NEW d \in DOMAIN heap, d # c
       PROVE  /\ Short(h[d]) <=> Short(heap[d])
              /\ Short(h[d]) => Last(h[d].keys) = Last(heap[d].keys)
  BY <1>5, <1>7, <1>8, <1>13
<1>14. \A a \in DOMAIN h : SoundNode(h[a], P)
  <2> SUFFICES ASSUME NEW a \in DOMAIN h PROVE SoundNode(h[a], P)
    OBVIOUS
  <2>1. NodeLengths(h[a])
    <3>1. \A b \in DOMAIN heap : NodeLengths(heap[b])
      BY HeapFacts
    <3> QED BY <1>4, <1>5, <1>7, <3>1, ZenonT(60)
  <2>2. ASSUME h[a].type = 2, NEW j \in DOMAIN h[a].children PROVE h[a].children[j] \in P
    <3>1. a # p
      BY <1>2, <1>5, <1>7, <2>2
    <3>2. PICK b \in DOMAIN heap : \E s \in DOMAIN heap[b].children :
            h[a].children[j] = heap[b].children[s] /\ h[a].type = heap[b].type
      BY <1>10, <3>1
    <3> QED BY <2>2, <3>2 DEF SoundHeap, SoundNode
  <2> QED BY <2>1, <2>2 DEF SoundNode, NodeLengths
\* A place of the new heap, unless it is that of the right half.
<1>15. ASSUME NEW a \in Inner(h), NEW j \in DOMAIN h[a].children, ~(a = p /\ j = i + 1)
       PROVE  \E b \in Inner(heap) : \E s \in DOMAIN heap[b].children :
                /\ Was(a, j, b, s) /\ h[a].children[j] = heap[b].children[s]
                /\ heap[b].children[s] \in DOMAIN heap \ {b} /\ Bounded(heap, b, s)
  <2>1. a \in DOMAIN h /\ h[a].type = 1
    BY DEF Inner
  <2>2. PICK b \in DOMAIN heap : \E s \in DOMAIN heap[b].children :
          Was(a, j, b, s) /\ h[a].children[j] = heap[b].children[s] /\ h[a].type = heap[b].type
    BY <1>10, <1>15, <2>1
  <2>5. PICK s \in DOMAIN heap[b].children :
          Was(a, j, b, s) /\ h[a].children[j] = heap[b].children[s] /\ h[a].type = heap[b].type
    BY <2>2
  <2> HIDE DEF Was
  <2>3. b \in Inner(heap)
    BY <2>1, <2>5 DEF Inner
  <2>4. ChildAt(heap, b, s) \in DOMAIN heap \ {b} /\ Bounded(heap, b, s)
    BY <2>3 DEF SoundHeap
  <2> QED BY <2>5, <2>3, <2>4 DEF ChildAt
\* The places of the right half and of the left half.
<1>16. p \in Inner(h) /\ i \in DOMAIN h[p].children /\ i + 1 \in DOMAIN h[p].children
  <2>1. p \in DOMAIN h /\ h[p].type = 1
    BY <1>2, <1>5, <1>7
  <2>2. i \in 1..Len(q.children) + 1 /\ i + 1 \in 1..Len(q.children) + 1
    BY <1>3, <1>5, SMT
  <2> QED BY <1>5, <1>7, <2>1, <2>2 DEF Inner
<1>17. h[p].children[i + 1] = fresh /\ h[p].children[i] = c
  <2>1. i \in 1..i
    BY <1>5, SMT
  <2> QED BY <1>5, <1>7, <1>8, <2>1
<1>18. /\ Bounded(h, p, i + 1)
       /\ Short(h[fresh]) => Short(heap[c]) /\ Last(h[fresh].keys) = Last(heap[c].keys)
  <2> SUFFICES ASSUME Short(r)
               PROVE  /\ i + 1 <= Len(m.keys) /\ ~Greater(m.keys[i + 1], Last(r.keys))
                      /\ Short(n) /\ Last(r.keys) = Last(n.keys)
    BY <1>7, <1>8, <1>17 DEF Bounded, ChildAt
  <2>1. Short(n) /\ i <= Len(q.keys) /\ ~Greater(q.keys[i], Last(n.keys))
    BY <1>2, <1>4, <1>8 DEF Bounded, ChildAt
  <2>2. i + 1 \in i + 1..Len(q.keys) + 1 /\ (i + 1) - 1 = i /\ i + 1 <= Len(m.keys)
    BY <1>5, <2>1, SMT
  <2>3. m.keys[i + 1] = q.keys[(i + 1) - 1]
    BY <1>5, <2>2
  <2> QED BY <1>4, <2>1, <2>2, <2>3
<1>19. Bounded(h, p, i) /\ h[p].keys[i] = k /\ Last(h[c].keys) = k
  <2>1. ~Greater(k, k)
    BY <1>4, GreaterIsStrict
  <2>2. i <= Len(m.keys)
    BY <1>5, SMT
  <2> QED BY <1>4, <1>5, <1>7, <1>17, <2>1, <2>2 DEF Bounded, ChildAt
<1>20. ASSUME NEW b \in Inner(heap), NEW s \in DOMAIN heap[b].children, heap[b].children[s] = c
       PROVE  b = p /\ s = i
  <2>1. ChildAt(heap, b, s) = ChildAt(heap, p, i)
    BY <1>20 DEF ChildAt
  <2> QED BY <2>1, HangsOnce
<1>21. ASSUME NEW a \in Inner(h), NEW j \in DOMAIN h[a].children
       PROVE  j \in Int
  <2>1. h[a] \in NodeType(K)
    <3>1. a \in 1..Len(h)
      BY <1>7, LenProperties DEF Inner
    <3> QED BY <1>7, <3>1, ElementOfSeq
  <2>2. h[a].children \in Seq(Nat)
    BY <2>1 DEF NodeType
  <2> QED BY <2>2, SMT
<1>22. ASSUME NEW a \in Inner(h), NEW j \in DOMAIN h[a].children
       PROVE  ChildAt(h, a, j) \in DOMAIN h \ {a} /\ Bounded(h, a, j)
  <2>1. CASE a = p /\ j = i + 1
    BY <1>7, <1>9, <1>17, <1>18, <2>1 DEF ChildAt
  <2>2. CASE a = p /\ j = i
    BY <1>2, <1>7, <1>9, <1>17, <1>19, <2>2 DEF ChildAt
  <2>3. CASE ~(a = p /\ j = i + 1) /\ ~(a = p /\ j = i)
    <3>1. PICK b \in Inner(heap) : \E s \in DOMAIN heap[b].children :
            /\ Was(a, j, b, s) /\ h[a].children[j] = heap[b].children[s]
            /\ heap[b].children[s] \in DOMAIN heap \ {b} /\ Bounded(heap, b, s)
      BY <1>15, <2>3
    <3>2. PICK s \in DOMAIN heap[b].children :
            /\ Was(a, j, b, s) /\ h[a].children[j] = heap[b].children[s]
            /\ heap[b].children[s] \in DOMAIN heap \ {b} /\ Bounded(heap, b, s)
      BY <3>1
    <3> DEFINE d == heap[b].children[s]
    <3>3. j \in Int /\ b \in DOMAIN heap /\ a \in DOMAIN h
      BY <1>21 DEF Inner
    <3>4. ~(b = p /\ s = i)
      BY <1>5, <1>9, <2>3, <3>2, <3>3, SMT
    <3>5. d # c
      BY <1>20, <3>4
    <3>6. d \in DOMAIN h \ {a}
      BY <1>1, <1>7, <3>2
    <3>7. Bounded(h, a, j)
      <4> SUFFICES ASSUME Short(h[d])
                   PROVE  j <= Len(h[a].keys) /\ ~Greater(h[a].keys[j], Last(h[d].keys))
        BY <3>2 DEF Bounded, ChildAt
      <4>1. Short(heap[d]) /\ Last(h[d].keys) = Last(heap[d].keys)
        BY <1>13, <3>2, <3>5
      <4>2. s <= Len(heap[b].keys) /\ ~Greater(heap[b].keys[s], Last(heap[d].keys))
        BY <3>2, <4>1 DEF Bounded, ChildAt
      <4>3. j <= Len(h[a].keys) /\ h[a].keys[j] = heap[b].keys[s]
        <5> HIDE DEF Was
        <5> QED BY <1>12, <3>2, <3>3, <3>4, <4>2
      <4> QED BY <4>1, <4>2, <4>3
    <3> QED BY <3>2, <3>6, <3>7 DEF ChildAt
  <2> QED BY <2>1, <2>2, <2>3
<1>23. ASSUME NEW a \in Inner(h), NEW j \in DOMAIN h[a].children, ~(a = p /\ j = i + 1)
       PROVE  h[a].children[j] # fresh
  <2> HIDE DEF Was
  <2> QED BY <1>1, <1>15, <1>23
<1>24. ASSUME NEW a \in Inner(h), NEW d \in Inner(h), NEW j \in DOMAIN h[a].children,
              NEW t \in DOMAIN h[d].children, h[a].children[j] = h[d].children[t]
       PROVE  a = d /\ j = t
  <2>1. CASE a = p /\ j = i + 1
    BY <1>17, <1>23, <1>24, <2>1
  <2>2. CASE d = p /\ t = i + 1
    BY <1>17, <1>23, <1>24, <2>2
  <2>3. CASE ~(a = p /\ j = i + 1) /\ ~(d = p /\ t = i + 1)
    <3> HIDE DEF Was
    <3>1. PICK b \in Inner(heap) : \E s \in DOMAIN heap[b].children :
            Was(a, j, b, s) /\ h[a].children[j] = heap[b].children[s]
      BY <1>15, <2>3
    <3>2. PICK s \in DOMAIN heap[b].children :
            Was(a, j, b, s) /\ h[a].children[j] = heap[b].children[s]
      BY <3>1
    <3>3. PICK e \in Inner(heap) : \E u \in DOMAIN heap[e].children :
            Was(d, t, e, u) /\ h[d].children[t] = heap[e].children[u]
      BY <1>15, <2>3
    <3>4. PICK u \in DOMAIN heap[e].children :
            Was(d, t, e, u) /\ h[d].children[t] = heap[e].children[u]
      BY <3>3
    <3>5. ChildAt(heap, b, s) = ChildAt(heap, e, u)
      BY <1>24, <3>2, <3>4 DEF ChildAt
    <3>6. b = e /\ s = u
      BY <3>5, HangsOnce
    <3>7. j \in Int /\ t \in Int
      BY <1>21
    <3> QED BY <1>11, <3>2, <3>4, <3>6, <3>7
  <2> QED BY <2>1, <2>2, <2>3
<1>25. SoundHeap(h, K, P)
  BY <1>7, <1>14, <1>22, <1>24 DEF SoundHeap, ChildAt
<1>26. ASSUME NEW b, Top(heap, b) PROVE Top(h, b)
  <2>1. /\ b \in DOMAIN heap /\ ~Short(heap[b])
        /\ \A a \in Inner(heap) : \A j \in DOMAIN heap[a].children : heap[a].children[j] # b
    BY <1>26 DEF Top, ChildAt
  <2>2. b # c
    BY <1>20, <2>1
  <2>3. b \in DOMAIN h /\ ~Short(h[b])
    BY <1>7, <1>13, <2>1, <2>2
  <2>4. ASSUME NEW a \in Inner(h), NEW j \in DOMAIN h[a].children PROVE h[a].children[j] # b
    <3>1. CASE a = p /\ j = i + 1
      BY <1>1, <1>17, <2>1, <3>1
    <3>2. CASE ~(a = p /\ j = i + 1)
      <4> HIDE DEF Was
      <4> QED BY <1>15, <2>1, <3>2
    <3> QED BY <3>1, <3>2
  <2> QED BY <2>3, <2>4 DEF Top, ChildAt
<1> QED BY <1>2, <1>4, <1>7, <1>16, <1>17, <1>18, <1>19, <1>25, <1>26 DEF SplitsSound

-----------------------------------------------------------------------------
(* Pages.                                                                  *)

\* Where a process stands that has begun to insert a key.
Inserting == {"newRoot", "writeRoot", "insert", "descend", "split", "writeRight", "writeLeft", "fill"}

\* The inductive invariant: n pages, of which this process allocated the last
\* pageCount: all of them once it has begun to insert, none before it has
\* opened the file.
Numbered(n) ==
  /\ DOMAIN pages = 0..n - 1
  /\ pageCount \in 0..n
  /\ pc \in Inserting => pageCount = n
  /\ pc = "openFile" => pageCount = 0
PagesAreNumbered == \E n \in Nat : Numbered(n)

LEMMA NumberedTotal ==
  ASSUME NEW n \in Nat, Numbered(n) PROVE TotalPages = n
<1>1. Cardinality(0..n - 1) = n
  BY FS_Interval, SMT
<1> QED BY <1>1 DEF Numbered, TotalPages

LEMMA NumberedInit == Init => PagesAreNumbered
<1> SUFFICES ASSUME Init PROVE Numbered(0)
  BY DEF PagesAreNumbered
<1>1. pages = <<>> /\ pageCount = 0 /\ pc = "closed"
  BY DEF Init, DiskInit, TreeInit
<1>2. DOMAIN pages = 0..0 - 1
  BY <1>1, SMT
<1> QED BY <1>1, <1>2, SMT DEF Numbered, Inserting

\* A step that writes a page, or none, and allocates none.
LEMMA NumberedKept ==
  ASSUME NEW n \in Nat, Numbered(n),
         DOMAIN pages' = DOMAIN pages, pageCount' = pageCount,
         pc' \in Inserting => pc \in Inserting, pc' # "openFile"
  PROVE  Numbered(n)'
  BY DEF Numbered

\* A step that allocates a page: it is a new one.
LEMMA NumberedAllocates ==
  ASSUME NEW n \in Nat, Numbered(n), pc \in Inserting, AllocatePage, pc' # "openFile"
  PROVE  /\ Numbered(n + 1)' /\ pageCount \notin DOMAIN pages
         /\ \A p \in DOMAIN pages : p \in DOMAIN pages' /\ pages'[p] = pages[p]
<1>1. DOMAIN pages = 0..n - 1 /\ pageCount = n
  BY DEF Numbered
<1>2. DOMAIN pages' = 0..n - 1 \cup {n} /\ pageCount' = n + 1
  BY <1>1 DEF AllocatePage
<1>3. 0..n - 1 \cup {n} = 0..(n + 1) - 1 /\ n + 1 \in 0..n + 1 /\ n \notin 0..n - 1
  BY SMT
<1>4. \A p \in DOMAIN pages : p \in DOMAIN pages' /\ pages'[p] = pages[p]
  BY <1>1, <1>3 DEF AllocatePage
<1> QED BY <1>1, <1>2, <1>3, <1>4 DEF Numbered

\* The steps that allocate a page.
Allocates == AllocateRoot \/ AllocateRight

\* Every other step leaves the numbers of the pages alone, or begins anew.
LEMMA OtherSteps ==
  ASSUME Next, ~Allocates
  PROVE  \/ /\ DOMAIN pages' = DOMAIN pages /\ pageCount' = pageCount
            /\ pc' \in Inserting => pc \in Inserting
            /\ pc' # "openFile"
         \/ InsertRow
         \/ pc' \notin Inserting /\ pageCount' = 0 /\ pages' = pages
         \/ pc = "openFile" /\ pc' \notin Inserting /\ pageCount' = pageCount /\ pages' = <<>>
<1>1. CASE Open
  BY <1>1 DEF Open, OpenTree, OpenContext, Inserting
<1>2. CASE OpenPagesStep
  BY <1>2 DEF OpenPagesStep, OpenPages, OpenFile, Inserting
<1>3. CASE InsertRow
  BY <1>3
<1>4. CASE LoadStep
  BY <1>4 DEF LoadStep, NoFile, LoadNothing, LoadLeaves, LoadLevel, LoadRoot, LoadDies, Ends,
              PutLevel, diskVars, Inserting
<1>5. CASE InsertStep
  BY <1>5 DEF InsertStep, Allocates, WriteRoot, InsertLeaf, InsertInternal, Descend, ReachLeaf,
              WriteRight, WriteLeft, WritePage, diskVars, Inserting
<1>6. CASE FillStep
  BY <1>6 DEF FillStep, FillLeaf, WritePage, Inserting
<1>7. CASE Ends
  BY <1>7 DEF Ends, diskVars, Inserting
<1> QED BY <1>1, <1>2, <1>3, <1>4, <1>5, <1>6, <1>7 DEF Next, Step

LEMMA NumberedNext ==
  ASSUME ~AppendAfterReload, PagesAreNumbered, [Next]_vars PROVE PagesAreNumbered'
<1>1. PICK n \in Nat : Numbered(n)
  BY DEF PagesAreNumbered
<1>2. CASE UNCHANGED vars
  BY <1>1, <1>2 DEF PagesAreNumbered, Numbered, vars, diskVars, treeVars
<1>3. CASE Allocates
  <2>1. pc \in Inserting /\ AllocatePage /\ pc' # "openFile"
    BY <1>3 DEF Allocates, AllocateRoot, AllocateRight, Inserting
  <2>2. n + 1 \in Nat
    OBVIOUS
  <2> QED BY <1>1, <2>1, <2>2, NumberedAllocates DEF PagesAreNumbered
<1>4. CASE Next /\ InsertRow
  <2>1. ~(pageCount < TotalPages)
    BY <1>4 DEF InsertRow, Reloaded
  <2>2. pageCount = n
    BY <1>1, <2>1, NumberedTotal, SMT DEF Numbered
  <2>3. pages' = pages /\ pageCount' = pageCount
    BY <1>4 DEF InsertRow, Insert, diskVars
  <2>4. pc' # "openFile"
    BY <1>4 DEF InsertRow, Insert
  <2> QED BY <1>1, <2>2, <2>3, <2>4 DEF PagesAreNumbered, Numbered
<1>5. CASE Next /\ ~Allocates /\ ~InsertRow
  <2>1. CASE /\ DOMAIN pages' = DOMAIN pages /\ pageCount' = pageCount
             /\ pc' \in Inserting => pc \in Inserting
             /\ pc' # "openFile"
    BY <1>1, <2>1, NumberedKept DEF PagesAreNumbered
  <2>2. CASE pc' \notin Inserting /\ pageCount' = 0 /\ pages' = pages
    <3>1. 0 \in 0..n
      OBVIOUS
    <3> QED BY <1>1, <2>2, <3>1 DEF PagesAreNumbered, Numbered
  <2>3. CASE pc = "openFile" /\ pc' \notin Inserting /\ pageCount' = pageCount /\ pages' = <<>>
    <3>1. pageCount' = 0 /\ 0 \in 0..0
      BY <1>1, <2>3 DEF Numbered
    <3>2. DOMAIN pages' = 0..0 - 1
      BY <2>3, SMT
    <3> QED BY <2>3, <3>1, <3>2 DEF PagesAreNumbered, Numbered
  <2> QED BY <1>5, <2>1, <2>2, <2>3, OtherSteps
<1> QED BY <1>2, <1>3, <1>4, <1>5

LEMMA NumberedInvariant == ASSUME ~AppendAfterReload PROVE Spec => []PagesAreNumbered
<1>1. PagesAreNumbered /\ [Next]_vars => PagesAreNumbered'
  BY NumberedNext
<1> QED BY NumberedInit, <1>1, PTL DEF Spec

\* DiskManager.cpp allocatePage, whose counter starts at 0 in every process: as
\* long as nothing is inserted into a reopened file, for every degree and table
\* no allocation zeroes a page, so that each key of the file stays in it,
\* however often a process died in the middle of a split before.
THEOREM AllocationsAreNew == ASSUME ~AppendAfterReload PROVE Spec => AllocatingLosesNoKey
<1>1. ASSUME PagesAreNumbered, [Next]_vars, pageCount' > pageCount
      PROVE  DiskKeys \subseteq DiskKeys'
  <2>1. PICK n \in Nat : Numbered(n)
    BY <1>1 DEF PagesAreNumbered
  <2>2. ~(pageCount > pageCount) /\ pageCount \in Nat /\ ~(0 > pageCount)
    BY <2>1, SMT DEF Numbered
  <2>3. CASE Allocates
    <3>1. pc \in Inserting /\ AllocatePage /\ pc' # "openFile"
      BY <2>3 DEF Allocates, AllocateRoot, AllocateRight, Inserting
    <3>2. \A p \in DOMAIN pages : p \in DOMAIN pages' /\ pages'[p] = pages[p]
      BY <2>1, <3>1, NumberedAllocates
    <3> QED BY <3>2 DEF DiskKeys
  <2>4. CASE UNCHANGED vars
    BY <1>1, <2>2, <2>4 DEF vars, diskVars
  <2>5. CASE InsertRow
    BY <1>1, <2>2, <2>5 DEF InsertRow, Insert, diskVars
  <2> QED BY <1>1, <2>2, <2>3, <2>4, <2>5, OtherSteps
<1>2. PagesAreNumbered /\ [Next]_vars
        => [pageCount' > pageCount => DiskKeys \subseteq DiskKeys']_vars
  BY <1>1
<1> QED BY NumberedInvariant, <1>2, PTL DEF Spec, AllocatingLosesNoKey

-----------------------------------------------------------------------------
(* Keys.                                                                   *)


\* The keys that were inserted before the one that is being inserted.
KeysUpto(n) == {RowKey(m) : m \in 1..n}
OldKeys == KeysUpto(IF pc \in Inserting THEN row - 1 ELSE row)

RowsInv ==
  /\ table \in Tables /\ row \in 0..Len(table)
  /\ pc \in Inserting => row > 0 /\ key = RowKey(row)

\* Pages hold such keys; a page that is not all zeros knows its number.
PageType(K) == [keys : Seq(K), pageId : Nat, next : Int]
PagesInv ==
  \A p \in DOMAIN pages :
    pages[p] \in PageType(OldKeys) /\ (pages[p] = ZeroPage \/ pages[p].pageId = p)

\* A process that may insert: it has allocated all the pages.
Owner == pc \in Inserting \/ (pc = "idle" /\ pageCount \notin DOMAIN pages)

\* What holds before there is a tree, and of one that was built by a load.
OtherInv ==
  /\ pc \in {"closed", "openFile", "load", "loadUp"} => root = NoRoot
  /\ pc \in {"closed", "openFile", "load"} => nodes = <<>>
  /\ pc \in {"load", "loadUp"} => pageCount = 0
  /\ pc = "loadUp" => pageCount \in DOMAIN pages
  /\ pc = "idle" /\ pageCount \in DOMAIN pages => root.kind = "node"

\* The page that is allocated and not written yet.
Pending == IF pc = "writeRoot" THEN {root.leaf.pageId}
           ELSE IF pc = "writeRight" THEN {right} ELSE {}
PendingInv ==
  \A p \in DOMAIN pages : IF p \in Pending THEN pages[p] = ZeroPage ELSE pages[p].pageId = p

Splitting == {"split", "writeRight", "writeLeft"}

\* The root: none before the first key, then a leaf, then a node that hangs
\* nowhere.  A leaf that is split has its parent before that is the root.
RootInv ==
  /\ root = NoRoot \/ root.kind \in {"leaf", "node"}
  /\ pc \in Inserting => (pc = "newRoot" <=> root = NoRoot)
  /\ root.kind = "node" => Top(nodes, root.at)
  /\ root.kind = "leaf" /\ pc \in Splitting => Top(nodes, at)
  /\ root.kind = "leaf" /\ pc \in {"idle", "insert"} =>
       root.leaf.pageId \in DOMAIN pages /\ root.leaf = pages[root.leaf.pageId]
  /\ pc = "writeRoot" =>
       /\ root.kind = "leaf"
       /\ root.leaf.pageId \in DOMAIN pages /\ root.leaf = NewPage(root.leaf.pageId)
  /\ pc = "descend" => root.kind = "node"

\* The node at hand: the key is not greater than the last key of a short one.
PlaceInv ==
  /\ pc = "descend" =>
       at \in DOMAIN nodes /\ (Short(nodes[at]) => ~Greater(key, Last(nodes[at].keys)))
  /\ pc \in Splitting =>
       at \in DOMAIN nodes /\ nodes[at].type = 2 /\ slot \in DOMAIN nodes[at].children
  /\ pc \in {"writeRight", "writeLeft"} =>
       slot + 1 \in DOMAIN nodes[at].children /\ nodes[at].children[slot + 1] = right

\* The copy of the leaf at hand, and the new page next to it.
LeafInv ==
  /\ pc \in Splitting \cup {"fill"} => leaf.pageId \in DOMAIN pages /\ leaf = pages[leaf.pageId]
  /\ pc \in Splitting => Full(leaf)
  /\ pc \in {"writeRight", "writeLeft"} => right \in DOMAIN pages /\ right # leaf.pageId
  /\ pc = "writeLeft" => pages[right] = RightHalf

OwnerInv ==
  SoundHeap(nodes, OldKeys, DOMAIN pages) /\ PendingInv /\ RootInv /\ PlaceInv /\ LeafInv

\* The inductive invariant.
IInv ==
  PagesAreNumbered /\ RowsInv /\ PagesInv /\ OtherInv /\ (Owner => OwnerInv)

-----------------------------------------------------------------------------
(* Rows and pages                                                          *)

LEMMA NumberFacts ==
  ASSUME PagesAreNumbered
  PROVE  /\ DOMAIN pages \subseteq Nat /\ pageCount \in Nat
         /\ pc \in Inserting => pageCount \notin DOMAIN pages
         /\ ~Reloaded <=> pageCount \notin DOMAIN pages
         /\ TotalPages \in Nat
         /\ TotalPages = 0 => DOMAIN pages = {}
         /\ TotalPages > 0 => 0 \in DOMAIN pages
<1>1. PICK n \in Nat : Numbered(n)
  BY DEF PagesAreNumbered
<1>2. TotalPages = n
  BY <1>1, NumberedTotal
<1>3. DOMAIN pages = 0..n - 1 /\ pageCount \in 0..n /\ (pc \in Inserting => pageCount = n)
  BY <1>1 DEF Numbered
<1>4. /\ 0..n - 1 \subseteq Nat /\ pageCount \in Nat /\ n \notin 0..n - 1
      /\ ~(pageCount < n) <=> pageCount \notin 0..n - 1
      /\ (n = 0 => 0..n - 1 = {}) /\ (n > 0 => 0 \in 0..n - 1)
  BY <1>3, SMT
<1> QED BY <1>2, <1>3, <1>4 DEF Reloaded

LEMMA RowFacts ==
  ASSUME RowsInv, NEW n \in 0..Len(table)
  PROVE  /\ KeysUpto(n) \subseteq KeyType /\ KeysUpto(n) \subseteq AllKeys
         /\ \A k \in KeysUpto(n) : k.id \in 1..n
         /\ n > 0 => /\ RowKey(n) \in KeyType /\ RowKey(n) \in AllKeys /\ RowKey(n).id = n
                     /\ KeysUpto(n) = KeysUpto(n - 1) \cup {RowKey(n)}
<1>1. table \in Tables /\ table \in Seq(Nat)
  BY TablesAssumption DEF RowsInv
<1>2. DOMAIN table = 1..Len(table) /\ Len(table) \in Nat
  BY <1>1, LenProperties
<1>3. \A m \in 1..Len(table) : table[m] \in Nat
  BY <1>1, ElementOfSeq
<1>4. ASSUME NEW m \in 1..Len(table)
      PROVE  RowKey(m) \in KeyType /\ RowKey(m) \in AllKeys /\ RowKey(m).id = m
  <2>1. table[m] \in Nat /\ m \in Nat /\ m \in DOMAIN table
    BY <1>2, <1>3, SMT
  <2>2. RowKey(m) \in {Key(table[j], j) : j \in DOMAIN table}
    BY <2>1 DEF RowKey
  <2> QED BY <1>1, <2>1, <2>2 DEF RowKey, Key, KeyType, AllKeys
<1>5. \A m \in 1..n : m \in 1..Len(table)
  BY <1>2, SMT
<1>6. n > 0 => n \in 1..Len(table) /\ 1..n = 1..n - 1 \cup {n}
  BY <1>2, SMT
<1>7. n > 0 => KeysUpto(n) = KeysUpto(n - 1) \cup {RowKey(n)}
  BY <1>6 DEF KeysUpto
<1> QED BY <1>4, <1>5, <1>6, <1>7 DEF KeysUpto

\* The key that is being inserted is none of the keys before it.
LEMMA KeyFacts ==
  ASSUME RowsInv, pc \in Inserting
  PROVE  /\ OldKeys \subseteq KeyType /\ key \in KeyType /\ key \in AllKeys
         /\ \A k \in OldKeys : k.id # key.id
         /\ KeysUpto(row) = OldKeys \cup {key}
<1>1. row \in 0..Len(table) /\ row > 0 /\ key = RowKey(row) /\ OldKeys = KeysUpto(row - 1)
  BY DEF RowsInv, OldKeys
<1>2. row - 1 \in 0..Len(table) /\ \A i \in 1..row - 1 : i # row
  <2>1. Len(table) \in Nat
    BY TablesAssumption, LenProperties DEF RowsInv
  <2> QED BY <1>1, <2>1, SMT
<1>3. /\ KeysUpto(row - 1) \subseteq KeyType /\ \A k \in KeysUpto(row - 1) : k.id \in 1..row - 1
  BY <1>2, RowFacts
<1>4. /\ key \in KeyType /\ key \in AllKeys /\ key.id = row
      /\ KeysUpto(row) = KeysUpto(row - 1) \cup {key}
  BY <1>1, RowFacts
<1> QED BY <1>1, <1>2, <1>3, <1>4

LEMMA PageWidens ==
  ASSUME NEW K, NEW K2, K \subseteq K2, NEW page \in PageType(K) PROVE page \in PageType(K2)
<1>1. Seq(K) \subseteq Seq(K2)
  BY SMT
<1> QED BY <1>1 DEF PageType

LEMMA BlankPages ==
  ASSUME NEW K, NEW id \in Nat
  PROVE  ZeroPage \in PageType(K) /\ NewPage(id) \in PageType(K) /\ NewPage(id).pageId = id
<1>1. <<>> \in Seq(K)
  BY SMT
<1> QED BY <1>1, SMT DEF PageType, ZeroPage, NewPage, NoPage

\* A page that is written under its own number.
LEMMA WriteFacts ==
  ASSUME NEW id, NEW page, WritePage(id, page)
  PROVE  /\ DOMAIN pages' = DOMAIN pages /\ pageCount' = pageCount
         /\ id \in DOMAIN pages => pages'[id] = page
         /\ \A p \in DOMAIN pages : p # id => pages'[p] = pages[p]
  BY DEF WritePage

\* Rows and pages under a step within a call: the keys before the one that is
\* being inserted stay the same.
LEMMA SameOldKeys ==
  ASSUME pc \in Inserting <=> pc' \in Inserting, UNCHANGED <<table, row>>
  PROVE  OldKeys' = OldKeys
  BY DEF OldKeys, KeysUpto, RowKey

LEMMA RowsKept ==
  ASSUME RowsInv, UNCHANGED <<table, row, key>>, pc' \in Inserting => pc \in Inserting
  PROVE  RowsInv'
  BY DEF RowsInv, RowKey

\* A page that is written under its own number leaves a file of such pages.
LEMMA PagesWritten ==
  ASSUME PagesInv, NEW id, NEW page, WritePage(id, page),
         OldKeys \subseteq OldKeys', page \in PageType(OldKeys'), page.pageId = id
  PROVE  PagesInv'
<1> SUFFICES ASSUME NEW p \in DOMAIN pages'
             PROVE  pages'[p] \in PageType(OldKeys') /\ (pages'[p] = ZeroPage \/ pages'[p].pageId = p)
  BY DEF PagesInv, PageType
<1>1. p \in DOMAIN pages /\ pages[p] \in PageType(OldKeys) /\ (pages[p] = ZeroPage \/ pages[p].pageId = p)
  BY WriteFacts DEF PagesInv
<1>2. CASE p = id
  BY <1>1, <1>2, WriteFacts
<1>3. CASE p # id
  BY <1>1, <1>3, WriteFacts, PageWidens
<1> QED BY <1>2, <1>3

LEMMA PagesAllocated ==
  ASSUME PagesInv, AllocatePage, OldKeys' = OldKeys
  PROVE  PagesInv'
<1> SUFFICES ASSUME NEW p \in DOMAIN pages'
             PROVE  pages'[p] \in PageType(OldKeys) /\ (pages'[p] = ZeroPage \/ pages'[p].pageId = p)
  BY DEF PagesInv, PageType
<1>1. CASE p = pageCount
  <2>1. pages'[p] = ZeroPage
    BY <1>1 DEF AllocatePage
  <2> QED BY <2>1, BlankPages
<1>2. CASE p # pageCount
  <2>1. p \in DOMAIN pages /\ pages'[p] = pages[p]
    BY <1>2 DEF AllocatePage
  <2> QED BY <2>1 DEF PagesInv
<1> QED BY <1>1, <1>2

-----------------------------------------------------------------------------
(* The steps of an insertion                                               *)

LEMMA InsertRowOwner ==
  ASSUME ~AppendAfterReload, IInv, InsertRow
  PROVE  RowsInv' /\ PagesInv' /\ OwnerInv' /\ pc' \in Inserting
<1>1. /\ pc = "idle" /\ key' = RowKey(row + 1) /\ row' = row + 1 /\ row < Len(table)
      /\ pc' = (IF root = NoRoot THEN "newRoot" ELSE "insert")
      /\ UNCHANGED <<root, nodes, at, slot, leaf, right, pages, table>> /\ ~Reloaded
  BY DEF InsertRow, Insert, diskVars
<1>2. OwnerInv
  BY <1>1, NumberFacts DEF IInv, Owner
<1>3. /\ row \in Nat /\ row + 1 \in 0..Len(table) /\ row + 1 > 0 /\ (row + 1) - 1 = row
  <2>1. Len(table) \in Nat /\ row \in 0..Len(table)
    BY TablesAssumption, LenProperties DEF IInv, RowsInv
  <2> QED BY <1>1, <2>1, SMT
<1>4. OldKeys' = OldKeys
  BY <1>1, <1>3 DEF OldKeys, KeysUpto, RowKey, Inserting
<1>5. RowsInv'
  BY <1>1, <1>3 DEF IInv, RowsInv, RowKey
<1>6. PagesInv'
  BY <1>1, <1>4 DEF IInv, PagesInv, PageType
<1>7. PendingInv'
  BY <1>1, <1>2 DEF OwnerInv, PendingInv, Pending
<1>8. RootInv'
  BY <1>1, <1>2 DEF OwnerInv, RootInv, Splitting, NoRoot, Inserting
<1>9. PlaceInv' /\ LeafInv'
  BY <1>1 DEF PlaceInv, LeafInv, Splitting
<1>10. pc' \in Inserting
  BY <1>1 DEF Inserting
<1> QED BY <1>1, <1>2, <1>4, <1>5, <1>6, <1>7, <1>8, <1>9, <1>10 DEF OwnerInv

LEMMA AllocateRootOwner ==
  ASSUME IInv, AllocateRoot, UNCHANGED clientVars
  PROVE  RowsInv' /\ PagesInv' /\ OwnerInv' /\ pc' \in Inserting
<1>1. /\ pc = "newRoot" /\ pc' = "writeRoot" /\ root' = LeafRoot(NewPage(pageCount))
      /\ UNCHANGED <<nodes, key, table, row>> /\ AllocatePage
  BY DEF AllocateRoot, callVars, clientVars
<1>2. OwnerInv /\ pageCount \in Nat
  BY <1>1, NumberFacts DEF IInv, Owner, Inserting
<1>3. OldKeys' = OldKeys /\ RowsInv'
  BY <1>1, SameOldKeys, RowsKept DEF IInv, Inserting
<1>4. PagesInv'
  BY <1>1, <1>3, PagesAllocated DEF IInv
<1>5. /\ DOMAIN pages' = DOMAIN pages \cup {pageCount} /\ pages'[pageCount] = ZeroPage
      /\ \A p \in DOMAIN pages' : p # pageCount => p \in DOMAIN pages /\ pages'[p] = pages[p]
  BY <1>1 DEF AllocatePage
<1>6. SoundHeap(nodes', OldKeys', DOMAIN pages')
  BY <1>1, <1>2, <1>3, <1>5, SoundWidens DEF OwnerInv
<1>7. root'.kind = "leaf" /\ root'.leaf = NewPage(pageCount) /\ root'.leaf.pageId = pageCount
  BY <1>1, <1>2, BlankPages DEF LeafRoot
<1>8. PendingInv'
  BY <1>1, <1>2, <1>5, <1>7 DEF OwnerInv, PendingInv, Pending
<1>9. RootInv'
  BY <1>1, <1>5, <1>7 DEF RootInv, Splitting, NoRoot, LeafRoot
<1>10. PlaceInv' /\ LeafInv' /\ pc' \in Inserting
  BY <1>1 DEF PlaceInv, LeafInv, Splitting, Inserting
<1> QED BY <1>3, <1>4, <1>6, <1>8, <1>9, <1>10 DEF OwnerInv

LEMMA WriteRootOwner ==
  ASSUME IInv, WriteRoot, UNCHANGED clientVars
  PROVE  RowsInv' /\ PagesInv' /\ OwnerInv' /\ pc' \in Inserting
<1>1. /\ pc = "writeRoot" /\ pc' = "insert" /\ WritePage(root.leaf.pageId, root.leaf)
      /\ UNCHANGED <<root, nodes, key, table, row>>
  BY DEF WriteRoot, callVars, clientVars
<1>2. OwnerInv
  BY <1>1 DEF IInv, Owner, Inserting
<1>3. OldKeys' = OldKeys /\ RowsInv'
  BY <1>1, SameOldKeys, RowsKept DEF IInv, Inserting
<1> DEFINE id == root.leaf.pageId
<1>4. root.kind = "leaf" /\ id \in DOMAIN pages /\ root.leaf = NewPage(id) /\ id \in Nat /\ root # NoRoot
  <2>1. root.kind = "leaf" /\ id \in DOMAIN pages /\ root.leaf = NewPage(id)
    BY <1>1, <1>2 DEF OwnerInv, RootInv
  <2>2. id \in Nat
    BY <2>1, NumberFacts DEF IInv
  <2>3. root # NoRoot
    BY <2>1 DEF NoRoot
  <2> QED BY <2>1, <2>2, <2>3
<1>5. root.leaf \in PageType(OldKeys')
  BY <1>4, BlankPages
<1>6. PagesInv'
  BY <1>1, <1>3, <1>5, PagesWritten DEF IInv
<1>7. /\ DOMAIN pages' = DOMAIN pages /\ pages'[id] = root.leaf
      /\ \A p \in DOMAIN pages : p # id => pages'[p] = pages[p]
  BY <1>1, <1>4, WriteFacts
<1>8. PendingInv'
  BY <1>1, <1>2, <1>7 DEF OwnerInv, PendingInv, Pending
<1>9. RootInv'
  BY <1>1, <1>4, <1>7 DEF RootInv, Splitting
<1>10. PlaceInv' /\ LeafInv' /\ pc' \in Inserting
  BY <1>1 DEF PlaceInv, LeafInv, Splitting, Inserting
<1>11. SoundHeap(nodes', OldKeys', DOMAIN pages')
  BY <1>1, <1>2, <1>3, <1>7 DEF OwnerInv
<1> QED BY <1>3, <1>6, <1>8, <1>9, <1>10, <1>11 DEF OwnerInv

\* A step within an insertion that touches no page and allocates none.
LEMMA NoPageTouched ==
  ASSUME IInv, pc \in Inserting, pc' \in Inserting, UNCHANGED <<pages, key, table, row>>,
         pc \notin {"newRoot", "writeRoot", "writeRight"},
         pc' \notin {"newRoot", "writeRoot", "writeRight"}
  PROVE  /\ RowsInv' /\ PagesInv' /\ OwnerInv /\ PendingInv' /\ OldKeys' = OldKeys
         /\ \A p \in DOMAIN pages : pages[p].pageId = p /\ pages[p] \in PageType(OldKeys)
<1>1. OwnerInv
  BY DEF IInv, Owner
<1>2. OldKeys' = OldKeys /\ RowsInv'
  BY SameOldKeys, RowsKept DEF IInv
<1>3. PagesInv'
  BY <1>2 DEF IInv, PagesInv, PageType
<1>4. PendingInv' /\ \A p \in DOMAIN pages : pages[p].pageId = p
  BY <1>1 DEF OwnerInv, PendingInv, Pending
<1> QED BY <1>1, <1>2, <1>3, <1>4 DEF IInv, PagesInv

LEMMA InsertLeafOwner ==
  ASSUME IInv, InsertLeaf, UNCHANGED clientVars
  PROVE  RowsInv' /\ PagesInv' /\ OwnerInv' /\ pc' \in Inserting
<1>1. /\ pc = "insert" /\ root.kind = "leaf" /\ leaf' = root.leaf /\ pc' \in {"split", "fill"}
      /\ UNCHANGED <<pages, root, key, table, row>>
  BY DEF InsertLeaf, diskVars, clientVars
<1>2. /\ RowsInv' /\ PagesInv' /\ OwnerInv /\ PendingInv' /\ OldKeys' = OldKeys
      /\ \A p \in DOMAIN pages : pages[p].pageId = p
  BY <1>1, NoPageTouched DEF Inserting
<1>3. /\ SoundHeap(nodes, OldKeys, DOMAIN pages) /\ RootInv
      /\ root.leaf.pageId \in DOMAIN pages /\ root.leaf = pages[root.leaf.pageId]
  BY <1>1, <1>2 DEF OwnerInv, RootInv
<1>4. pc' \in Inserting /\ root # NoRoot
  BY <1>1 DEF Inserting, NoRoot
<1>5. CASE Full(root.leaf)
  <2>1. /\ nodes' = Append(nodes, InternalNode(2, <<root.leaf.pageId>>))
        /\ at' = Len(nodes) + 1 /\ slot' = 1 /\ pc' = "split"
    BY <1>5 DEF InsertLeaf
  <2>2. root.leaf.pageId \in Nat
    BY <1>3, NumberFacts DEF IInv
  <2>3. /\ SoundHeap(nodes', OldKeys, DOMAIN pages) /\ Top(nodes', at')
        /\ nodes'[at'].type = 2 /\ 1 \in DOMAIN nodes'[at'].children
    <3> DEFINE id == root.leaf.pageId
               P == DOMAIN pages
    <3>1. /\ SoundHeap(nodes, OldKeys, P) /\ id \in Nat /\ id \in P
          /\ nodes' = Append(nodes, InternalNode(2, <<id>>)) /\ at' = Len(nodes) + 1
      BY <1>3, <2>1, <2>2
    <3> HIDE DEF id, P
    <3>2. AppendsSound(OldKeys, P, nodes, 2, id, nodes', at')
      BY <3>1, SoundAppends
    <3> QED BY <3>2 DEF AppendsSound, P
  <2>4. RootInv'
    BY <1>1, <1>3, <1>4, <2>1, <2>3 DEF RootInv
  <2>5. PlaceInv'
    BY <2>1, <2>3 DEF PlaceInv, Splitting, Top
  <2>6. LeafInv'
    BY <1>1, <1>3, <1>5, <2>1 DEF LeafInv, Splitting, Full
  <2> QED BY <1>1, <1>2, <1>4, <2>3, <2>4, <2>5, <2>6 DEF OwnerInv
<1>6. CASE ~Full(root.leaf)
  <2>1. pc' = "fill" /\ nodes' = nodes
    BY <1>6 DEF InsertLeaf
  <2>2. RootInv' /\ PlaceInv' /\ LeafInv'
    BY <1>1, <1>3, <1>4, <2>1 DEF RootInv, PlaceInv, LeafInv, Splitting
  <2> QED BY <1>1, <1>2, <1>3, <1>4, <2>1, <2>2 DEF OwnerInv
<1> QED BY <1>5, <1>6

LEMMA InsertInternalOwner ==
  ASSUME IInv, InsertInternal, UNCHANGED clientVars
  PROVE  RowsInv' /\ PagesInv' /\ OwnerInv' /\ pc' \in Inserting
<1>1. /\ pc = "insert" /\ root.kind = "node" /\ pc' = "descend" /\ at' = root'.at
      /\ UNCHANGED <<pages, key, table, row>>
  BY DEF InsertInternal, diskVars, clientVars
<1>2. /\ RowsInv' /\ PagesInv' /\ OwnerInv /\ PendingInv' /\ OldKeys' = OldKeys
      /\ OldKeys \subseteq KeyType
  BY <1>1, NoPageTouched, KeyFacts DEF Inserting, IInv
<1>3. SoundHeap(nodes, OldKeys, DOMAIN pages) /\ Top(nodes, root.at)
  BY <1>1, <1>2 DEF OwnerInv, RootInv
<1>4. SoundHeap(nodes', OldKeys, DOMAIN pages) /\ root'.kind = "node" /\ Top(nodes', root'.at)
  <2>1. CASE ~Full(nodes[root.at])
    BY <1>1, <1>3, <2>1 DEF InsertInternal
  <2>2. CASE Full(nodes[root.at])
    <3> DEFINE parent == Len(nodes) + 1
               old == root.at
               g == Append(nodes, InternalNode(1, <<old>>))
               P == DOMAIN pages
    <3>1. nodes' = SplitInternalNode(g, parent, 1) /\ root' = NodeRoot(parent)
      BY <2>2 DEF InsertInternal
    <3>2. root.at \in DOMAIN nodes /\ root.at \in Nat
      BY <1>3, HeapFacts, SMT DEF Top
    <3>3. /\ SoundHeap(g, OldKeys, DOMAIN pages) /\ Top(g, parent)
          /\ g[parent].type = 1 /\ 1 \in DOMAIN g[parent].children /\ g[parent].children[1] = root.at
          /\ g[root.at] = nodes[root.at]
      <4>1. /\ SoundHeap(nodes, OldKeys, P) /\ old \in Nat /\ Top(nodes, old)
            /\ g = Append(nodes, InternalNode(1, <<old>>)) /\ parent = Len(nodes) + 1
        BY <1>3, <3>2
      <4> HIDE DEF g, old, P, parent
      <4>2. AppendsSound(OldKeys, P, nodes, 1, old, g, parent)
        BY <4>1, SoundAppends
      <4> QED BY <3>2, <4>2 DEF AppendsSound, P, old
    <3> HIDE DEF g, parent
    <3>4. parent \in Inner(g) /\ Full(g[g[parent].children[1]])
      BY <2>2, <3>3 DEF Inner, Top
    <3>5. SoundHeap(nodes', OldKeys, DOMAIN pages) /\ Top(nodes', parent)
      <4> DEFINE fresh == Len(g) + 1
                 c == g[parent].children[1]
      <4>1. /\ OldKeys \subseteq KeyType /\ SoundHeap(g, OldKeys, P) /\ parent \in Inner(g)
            /\ 1 \in DOMAIN g[parent].children /\ Full(g[g[parent].children[1]])
            /\ nodes' = SplitInternalNode(g, parent, 1)
            /\ fresh = Len(g) + 1 /\ c = g[parent].children[1]
        BY <1>2, <3>1, <3>3, <3>4
      <4> HIDE DEF fresh, c, P
      <4>2. SplitsSound(OldKeys, P, g, parent, 1, nodes', fresh, c)
        BY <4>1, SoundSplits
      <4> QED BY <3>3, <4>2 DEF SplitsSound, P
    <3> QED BY <3>1, <3>5 DEF NodeRoot
  <2> QED BY <2>1, <2>2
<1>5. RootInv' /\ PlaceInv' /\ LeafInv' /\ pc' \in Inserting
  BY <1>1, <1>4 DEF RootInv, PlaceInv, LeafInv, Splitting, Inserting, Top, NoRoot
<1> QED BY <1>1, <1>2, <1>4, <1>5 DEF OwnerInv

\* The place of the key in the node at hand has a child; a short child's last
\* key is greater than the key.
LEMMA PlaceIsChild ==
  ASSUME IInv, pc = "descend"
  PROVE  LET i == PlaceOf(nodes[at].keys, key)
         IN  /\ at \in DOMAIN nodes /\ i \in DOMAIN nodes[at].children
             /\ nodes[at].type = 1 =>
                  /\ at \in Inner(nodes) /\ nodes[at].children[i] \in DOMAIN nodes
                  /\ Short(nodes[nodes[at].children[i]]) =>
                       ~Greater(key, Last(nodes[nodes[at].children[i]].keys))
<1> DEFINE n == nodes[at]
           i == PlaceOf(n.keys, key)
           child == nodes[n.children[i]]
<1>1. /\ OwnerInv /\ OldKeys \subseteq KeyType /\ key \in KeyType
      /\ \A k \in OldKeys : k.id # key.id
  BY KeyFacts DEF IInv, Owner, Inserting
<1>2. /\ at \in DOMAIN nodes /\ (Short(n) => ~Greater(key, Last(n.keys)))
      /\ SoundHeap(nodes, OldKeys, DOMAIN pages)
  BY <1>1 DEF OwnerInv, PlaceInv
<1>3. n \in NodeType(OldKeys) /\ NodeLengths(n)
  BY <1>2, HeapFacts
<1>4. /\ n.keys \in Seq(OldKeys) /\ Len(n.keys) \in Nat /\ Len(n.children) \in Nat
      /\ DOMAIN n.children = 1..Len(n.children)
  BY <1>3, LenProperties DEF NodeType
<1>5. /\ i \in 1..Len(n.keys) + 1 /\ (i <= Len(n.keys) => Greater(n.keys[i], key))
      /\ i > 1 => ~Greater(n.keys[i - 1], key)
  BY <1>4, PlaceFacts
<1>6. \A j \in 1..Len(n.keys) : n.keys[j] \in OldKeys
  BY <1>4, ElementOfSeq
<1> HIDE DEF n, i
<1>7. i \in DOMAIN n.children
  <2>1. CASE i <= Len(n.keys) \/ ~Short(n)
    BY <1>3, <1>4, <1>5, <2>1, SMT DEF NodeLengths, Short
  <2>2. CASE ~(i <= Len(n.keys)) /\ Short(n)
    <3>1. i = Len(n.keys) + 1 /\ Len(n.keys) > 0 /\ Len(n.keys) \in 1..Len(n.keys)
      BY <1>3, <1>4, <1>5, <2>2, SMT DEF NodeLengths, Short
    <3>2. Last(n.keys) \in OldKeys /\ ~Greater(key, Last(n.keys))
      BY <1>2, <1>6, <2>2, <3>1 DEF Last
    <3>3. Greater(Last(n.keys), key)
      BY <1>1, <3>2, OneIsGreater
    <3>4. i > 1 /\ i - 1 = Len(n.keys)
      BY <1>4, <3>1, SMT
    <3> QED BY <1>5, <3>3, <3>4 DEF Last
  <2> QED BY <2>1, <2>2
<1>8. ASSUME n.type = 1
      PROVE  /\ at \in Inner(nodes) /\ n.children[i] \in DOMAIN nodes
             /\ Short(child) => ~Greater(key, Last(child.keys))
  <2>1. at \in Inner(nodes)
    BY <1>2, <1>8 DEF Inner, n
  <2>2. ChildAt(nodes, at, i) \in DOMAIN nodes /\ Bounded(nodes, at, i)
    BY <1>2, <1>7, <2>1 DEF SoundHeap, n
  <2>3. ASSUME Short(child) PROVE ~Greater(key, Last(child.keys))
    <3>1. i <= Len(n.keys) /\ ~Greater(n.keys[i], Last(child.keys))
      BY <2>2, <2>3 DEF Bounded, ChildAt, n
    <3>2. i \in 1..Len(n.keys) /\ Greater(n.keys[i], key)
      BY <1>4, <1>5, <3>1, SMT
    <3>3. child \in NodeType(OldKeys) /\ NodeLengths(child)
      BY <1>2, <2>2, HeapFacts DEF ChildAt, n
    <3>4. Last(child.keys) \in OldKeys
      <4>1. child.keys \in Seq(OldKeys)
        BY <3>3 DEF NodeType
      <4>2. Len(child.keys) \in 1..Len(child.keys)
        BY <2>3, <3>3, <4>1, SMT DEF NodeLengths, Short
      <4> QED BY <4>1, <4>2, ElementOfSeq DEF Last
    <3>5. n.keys[i] \in KeyType /\ Last(child.keys) \in KeyType
      BY <1>1, <1>6, <3>2, <3>4
    <3>6. Greater(Last(child.keys), key)
      BY <1>1, <3>1, <3>2, <3>5, GreaterChains
    <3> QED BY <1>1, <3>5, <3>6, GreaterOneWay
  <2> QED BY <2>1, <2>2, <2>3 DEF ChildAt, n
<1> QED BY <1>2, <1>7, <1>8 DEF n, i

LEMMA DescendOwner ==
  ASSUME IInv, Descend, UNCHANGED clientVars
  PROVE  RowsInv' /\ PagesInv' /\ OwnerInv' /\ pc' \in Inserting
<1> DEFINE i == PlaceOf(nodes[at].keys, key)
           child == nodes[at].children[i]
<1>1. /\ pc = "descend" /\ pc' = "descend" /\ nodes[at].type = 1
      /\ UNCHANGED <<pages, root, key, table, row>>
  BY DEF Descend, diskVars, clientVars
<1>2. /\ RowsInv' /\ PagesInv' /\ OwnerInv /\ PendingInv' /\ OldKeys' = OldKeys
      /\ OldKeys \subseteq KeyType /\ key \in KeyType /\ \A k \in OldKeys : k.id # key.id
  BY <1>1, NoPageTouched, KeyFacts DEF Inserting, IInv
<1>3. SoundHeap(nodes, OldKeys, DOMAIN pages) /\ RootInv /\ root.kind = "node" /\ Top(nodes, root.at)
  BY <1>1, <1>2 DEF OwnerInv, RootInv
<1>4. /\ at \in Inner(nodes) /\ i \in DOMAIN nodes[at].children /\ child \in DOMAIN nodes
      /\ Short(nodes[child]) => ~Greater(key, Last(nodes[child].keys))
  BY <1>1, PlaceIsChild
<1>5. /\ SoundHeap(nodes', OldKeys, DOMAIN pages) /\ Top(nodes', root.at)
      /\ at' \in DOMAIN nodes' /\ (Short(nodes'[at']) => ~Greater(key, Last(nodes'[at'].keys)))
  <2>1. CASE ~Full(nodes[child])
    BY <1>3, <1>4, <2>1 DEF Descend
  <2>2. CASE Full(nodes[child])
    <3> DEFINE P == DOMAIN pages
               fresh == Len(nodes) + 1
    <3>1. /\ nodes' = SplitInternalNode(nodes, at, i)
          /\ at' = IF Greater(key, nodes'[at].keys[i]) THEN nodes'[at].children[i + 1] ELSE child
      BY <2>2 DEF Descend
    <3>2. /\ OldKeys \subseteq KeyType /\ SoundHeap(nodes, OldKeys, P) /\ at \in Inner(nodes)
          /\ i \in DOMAIN nodes[at].children /\ Full(nodes[nodes[at].children[i]])
          /\ fresh = Len(nodes) + 1 /\ child = nodes[at].children[i]
      BY <1>2, <1>3, <1>4, <2>2
    <3> HIDE DEF i, child, P, fresh
    <3>3. SplitsSound(OldKeys, P, nodes, at, i, nodes', fresh, child)
      BY <3>1, <3>2, SoundSplits
    <3>4. /\ SoundHeap(nodes', OldKeys, P) /\ (\A b : Top(nodes, b) => Top(nodes', b))
          /\ nodes'[at].children[i + 1] = fresh /\ child \in DOMAIN nodes' /\ fresh \in DOMAIN nodes'
          /\ nodes'[at].keys[i] = Last(nodes'[child].keys)
          /\ Short(nodes'[fresh]) =>
               Short(nodes[child]) /\ Last(nodes'[fresh].keys) = Last(nodes[child].keys)
      BY <3>3 DEF SplitsSound
    <3>5. CASE Greater(key, nodes'[at].keys[i])
      BY <1>3, <1>4, <3>1, <3>4, <3>5 DEF P
    <3>6. CASE ~Greater(key, nodes'[at].keys[i])
      BY <1>3, <3>1, <3>4, <3>6 DEF P
    <3> QED BY <3>5, <3>6
  <2> QED BY <2>1, <2>2
<1>6. RootInv' /\ PlaceInv' /\ LeafInv' /\ pc' \in Inserting
  BY <1>1, <1>3, <1>5 DEF RootInv, PlaceInv, LeafInv, Splitting, Inserting
<1> QED BY <1>1, <1>2, <1>5, <1>6 DEF OwnerInv

LEMMA ReachLeafOwner ==
  ASSUME IInv, ReachLeaf, UNCHANGED clientVars
  PROVE  RowsInv' /\ PagesInv' /\ OwnerInv' /\ pc' \in Inserting
<1>1. /\ pc = "descend" /\ nodes[at].type = 2
      /\ slot' = PlaceOf(nodes[at].keys, key) /\ leaf' = pages[nodes[at].children[slot']]
      /\ pc' = (IF Full(leaf') THEN "split" ELSE "fill")
      /\ UNCHANGED <<pages, root, nodes, at, key, table, row>>
  BY DEF ReachLeaf, diskVars, clientVars
<1>2. /\ RowsInv' /\ PagesInv' /\ OwnerInv /\ PendingInv' /\ OldKeys' = OldKeys
      /\ \A p \in DOMAIN pages : pages[p].pageId = p
  BY <1>1, NoPageTouched DEF Inserting, IInv
<1>3. /\ SoundHeap(nodes, OldKeys, DOMAIN pages) /\ RootInv /\ root.kind = "node" /\ Top(nodes, root.at)
      /\ at \in DOMAIN nodes
  BY <1>1, <1>2 DEF OwnerInv, RootInv, PlaceInv
<1>4. slot' \in DOMAIN nodes[at].children
  BY <1>1, PlaceIsChild
<1>5. nodes[at].children[slot'] \in DOMAIN pages
  BY <1>1, <1>3, <1>4 DEF SoundHeap, SoundNode
<1>6. leaf'.pageId \in DOMAIN pages /\ leaf' = pages[leaf'.pageId]
  BY <1>1, <1>2, <1>5
<1>7. pc' \in {"split", "fill"} /\ (pc' = "split" => Full(leaf'))
  BY <1>1
<1>8. pc' \in Inserting /\ root # NoRoot /\ RootInv'
  BY <1>1, <1>3, <1>7 DEF RootInv, Inserting, NoRoot
<1>9. PlaceInv'
  BY <1>1, <1>3, <1>4, <1>7 DEF PlaceInv, Splitting
<1>10. LeafInv'
  BY <1>1, <1>6, <1>7 DEF LeafInv, Splitting, Full
<1> QED BY <1>1, <1>2, <1>3, <1>8, <1>9, <1>10 DEF OwnerInv

\* The leaf at hand that is split: its keys are keys of the file.
LEMMA LeafAtHand ==
  ASSUME IInv, pc \in Splitting \cup {"fill"}
  PROVE  /\ OwnerInv /\ leaf.pageId \in DOMAIN pages /\ leaf = pages[leaf.pageId]
         /\ leaf \in PageType(OldKeys) /\ leaf.keys \in Seq(OldKeys)
         /\ leaf.pageId \in Nat /\ leaf.next \in Int
         /\ pc \in Splitting => /\ Len(leaf.keys) = 2 * MinDegree - 1
                                /\ MinDegree \in 0..Len(leaf.keys)
                                /\ leaf.keys[MinDegree] \in OldKeys
<1>1. OwnerInv
  BY DEF IInv, Owner, Inserting, Splitting
<1>2. leaf.pageId \in DOMAIN pages /\ leaf = pages[leaf.pageId] /\ leaf \in PageType(OldKeys)
  BY <1>1 DEF OwnerInv, LeafInv, IInv, PagesInv
<1>3. leaf.keys \in Seq(OldKeys) /\ leaf.pageId \in Nat /\ leaf.next \in Int
  BY <1>2 DEF PageType
<1>4. ASSUME pc \in Splitting
      PROVE  /\ Len(leaf.keys) = 2 * MinDegree - 1
             /\ MinDegree \in 0..Len(leaf.keys) /\ leaf.keys[MinDegree] \in OldKeys
  <2>1. Len(leaf.keys) = 2 * MinDegree - 1
    BY <1>1, <1>4 DEF OwnerInv, LeafInv, Full
  <2>2. MinDegree \in 0..Len(leaf.keys) /\ MinDegree \in 1..Len(leaf.keys)
    BY <2>1, BPlusTreeAssumption, SMT
  <2> QED BY <1>3, <2>1, <2>2, ElementOfSeq
<1> QED BY <1>1, <1>2, <1>3, <1>4

LEMMA AllocateRightOwner ==
  ASSUME IInv, AllocateRight, UNCHANGED clientVars
  PROVE  RowsInv' /\ PagesInv' /\ OwnerInv' /\ pc' \in Inserting
<1>1. /\ pc = "split" /\ pc' = "writeRight" /\ AllocatePage /\ right' = pageCount
      /\ nodes' = [nodes EXCEPT ![at] = Adopt(@, slot, leaf.keys[MinDegree], pageCount)]
      /\ UNCHANGED <<root, key, at, slot, leaf, table, row>>
  BY DEF AllocateRight, clientVars
<1>2. /\ OwnerInv /\ leaf.pageId \in DOMAIN pages /\ leaf = pages[leaf.pageId] /\ Full(leaf)
      /\ leaf.keys[MinDegree] \in OldKeys
  BY <1>1, LeafAtHand DEF Splitting, OwnerInv, LeafInv
<1>3. OldKeys' = OldKeys /\ RowsInv'
  BY <1>1, SameOldKeys, RowsKept DEF IInv, Inserting
<1>4. PagesInv'
  BY <1>1, <1>3, PagesAllocated DEF IInv
<1>5. pageCount \in Nat /\ pageCount \notin DOMAIN pages
  BY <1>1, NumberFacts DEF IInv, Inserting
<1>6. /\ DOMAIN pages' = DOMAIN pages \cup {pageCount} /\ pages'[pageCount] = ZeroPage
      /\ \A p \in DOMAIN pages : pages'[p] = pages[p]
  BY <1>1, <1>5 DEF AllocatePage
<1>7. /\ SoundHeap(nodes', OldKeys, DOMAIN pages') /\ \A b : Top(nodes, b) => Top(nodes', b)
      /\ at \in DOMAIN nodes' /\ nodes'[at].type = 2
      /\ slot \in DOMAIN nodes'[at].children /\ slot + 1 \in DOMAIN nodes'[at].children
      /\ nodes'[at].children[slot + 1] = pageCount
  <2> DEFINE P == DOMAIN pages
             k == leaf.keys[MinDegree]
  <2>1. /\ SoundHeap(nodes, OldKeys, P) /\ at \in DOMAIN nodes /\ nodes[at].type = 2
        /\ slot \in DOMAIN nodes[at].children /\ k \in OldKeys
        /\ nodes' = [nodes EXCEPT ![at] = Adopt(@, slot, k, pageCount)]
    BY <1>1, <1>2 DEF OwnerInv, PlaceInv, Splitting
  <2> HIDE DEF P, k
  <2>2. AdoptsSound(OldKeys, P, nodes, at, slot, k, pageCount, nodes')
    BY <1>5, <2>1, SoundAdopts
  <2> QED BY <1>6, <2>2 DEF AdoptsSound, P
<1>8. PendingInv'
  BY <1>1, <1>2, <1>6 DEF OwnerInv, PendingInv, Pending
<1>9. RootInv'
  BY <1>1, <1>2, <1>6, <1>7 DEF OwnerInv, RootInv, Splitting, Inserting
<1>10. PlaceInv'
  BY <1>1, <1>7 DEF PlaceInv, Splitting
<1>11. LeafInv' /\ pc' \in Inserting
  BY <1>1, <1>2, <1>5, <1>6 DEF LeafInv, Splitting, Inserting, Full
<1> QED BY <1>3, <1>4, <1>7, <1>8, <1>9, <1>10, <1>11 DEF OwnerInv

\* The halves of the leaf that is split, and what is written of them.
LEMMA HalfFacts ==
  ASSUME IInv, pc \in {"writeRight", "writeLeft"}
  PROVE  /\ right \in DOMAIN pages /\ right # leaf.pageId
         /\ RightHalf \in PageType(OldKeys) /\ RightHalf.pageId = right
         /\ LeftHalf \in PageType(OldKeys) /\ LeftHalf.pageId = leaf.pageId
         /\ ToSet(LeftHalf.keys) \cup ToSet(RightHalf.keys) = ToSet(leaf.keys)
<1>1. /\ OwnerInv /\ leaf \in PageType(OldKeys) /\ leaf.keys \in Seq(OldKeys)
      /\ leaf.pageId \in Nat /\ leaf.next \in Int /\ MinDegree \in 0..Len(leaf.keys)
  BY LeafAtHand DEF Splitting
<1>2. right \in DOMAIN pages /\ right # leaf.pageId /\ right \in Nat /\ right \in Int
  BY <1>1, NumberFacts, SMT DEF OwnerInv, LeafInv, IInv
<1>3. From(leaf.keys, MinDegree + 1) \in Seq(OldKeys) /\ Upto(leaf.keys, MinDegree) \in Seq(OldKeys)
  BY <1>1, UptoFacts, FromFacts
<1>4. /\ LeftHalf.keys = Upto(leaf.keys, MinDegree) /\ LeftHalf.pageId = leaf.pageId
      /\ LeftHalf \in PageType(OldKeys)
  BY <1>1, <1>2, <1>3 DEF LeftHalf, PageType
<1>5. /\ RightHalf.keys = From(leaf.keys, MinDegree + 1) /\ RightHalf.pageId = right
      /\ RightHalf \in PageType(OldKeys)
  BY <1>1, <1>2, <1>3 DEF RightHalf, PageType
<1>6. ToSet(Upto(leaf.keys, MinDegree)) \cup ToSet(From(leaf.keys, MinDegree + 1)) = ToSet(leaf.keys)
  BY <1>1, HalvesSet
<1> QED BY <1>2, <1>4, <1>5, <1>6

LEMMA WriteRightOwner ==
  ASSUME IInv, WriteRight, UNCHANGED clientVars
  PROVE  RowsInv' /\ PagesInv' /\ OwnerInv' /\ pc' \in Inserting
<1>1. /\ pc = "writeRight" /\ pc' = "writeLeft" /\ WritePage(right, RightHalf)
      /\ UNCHANGED <<root, nodes, key, at, slot, leaf, right, table, row>>
  BY DEF WriteRight, callVars, clientVars
<1>2. OwnerInv /\ leaf.pageId \in DOMAIN pages /\ leaf = pages[leaf.pageId] /\ Full(leaf)
  BY <1>1, LeafAtHand DEF Splitting, OwnerInv, LeafInv
<1>3. OldKeys' = OldKeys /\ RowsInv'
  BY <1>1, SameOldKeys, RowsKept DEF IInv, Inserting
<1>4. /\ right \in DOMAIN pages /\ right # leaf.pageId
      /\ RightHalf \in PageType(OldKeys) /\ RightHalf.pageId = right
  BY <1>1, HalfFacts
<1>5. PagesInv'
  BY <1>1, <1>3, <1>4, PagesWritten DEF IInv
<1>6. /\ DOMAIN pages' = DOMAIN pages /\ pages'[right] = RightHalf
      /\ \A p \in DOMAIN pages : p # right => pages'[p] = pages[p]
  BY <1>1, <1>4, WriteFacts
<1>7. PendingInv'
  BY <1>1, <1>2, <1>4, <1>6 DEF OwnerInv, PendingInv, Pending
<1>8. RootInv'
  BY <1>1, <1>2 DEF OwnerInv, RootInv, Splitting, Inserting
<1>9. PlaceInv'
  BY <1>1, <1>2 DEF OwnerInv, PlaceInv, Splitting
<1>10. RightHalf' = RightHalf
  BY <1>1 DEF RightHalf
<1>11. LeafInv' /\ pc' \in Inserting
  BY <1>1, <1>2, <1>4, <1>6, <1>10 DEF LeafInv, Splitting, Inserting, Full
<1>12. SoundHeap(nodes', OldKeys', DOMAIN pages')
  BY <1>1, <1>2, <1>3, <1>6 DEF OwnerInv
<1> QED BY <1>3, <1>5, <1>7, <1>8, <1>9, <1>11, <1>12 DEF OwnerInv

LEMMA WriteLeftOwner ==
  ASSUME IInv, WriteLeft, UNCHANGED clientVars
  PROVE  RowsInv' /\ PagesInv' /\ OwnerInv' /\ pc' \in Inserting
<1>1. /\ pc = "writeLeft" /\ WritePage(leaf.pageId, LeftHalf)
      /\ UNCHANGED <<nodes, key, at, slot, right, table, row>>
      /\ pc' \in {"descend", "fill"} /\ pc' \in Inserting
  BY DEF WriteLeft, clientVars, Inserting
<1>2. OwnerInv /\ leaf.pageId \in DOMAIN pages /\ leaf = pages[leaf.pageId]
  BY <1>1, LeafAtHand DEF Splitting
<1>3. OldKeys' = OldKeys /\ RowsInv'
  BY <1>1, SameOldKeys, RowsKept DEF IInv, Inserting
<1>4. /\ right \in DOMAIN pages /\ right # leaf.pageId
      /\ LeftHalf \in PageType(OldKeys) /\ LeftHalf.pageId = leaf.pageId
      /\ RightHalf.pageId = right
  BY <1>1, HalfFacts
<1>5. PagesInv'
  BY <1>1, <1>3, <1>4, PagesWritten DEF IInv
<1>6. /\ DOMAIN pages' = DOMAIN pages /\ pages'[leaf.pageId] = LeftHalf
      /\ \A p \in DOMAIN pages : p # leaf.pageId => pages'[p] = pages[p]
  BY <1>1, <1>2, WriteFacts
<1>7. PendingInv'
  BY <1>1, <1>2, <1>4, <1>6 DEF OwnerInv, PendingInv, Pending
<1>8. SoundHeap(nodes', OldKeys', DOMAIN pages')
  BY <1>1, <1>2, <1>3, <1>6 DEF OwnerInv
<1>9. /\ RootInv /\ root # NoRoot /\ root.kind \in {"leaf", "node"}
      /\ root.kind = "leaf" => Top(nodes, at)
      /\ root.kind = "node" => Top(nodes, root.at)
  BY <1>1, <1>2 DEF OwnerInv, RootInv, Splitting, Inserting
<1>10. CASE root.kind = "leaf"
  <2>1. root' = NodeRoot(at) /\ pc' = "descend"
    BY <1>10 DEF WriteLeft
  <2> QED BY <1>1, <1>3, <1>5, <1>7, <1>8, <1>9, <1>10, <2>1
          DEF OwnerInv, RootInv, PlaceInv, LeafInv, Splitting, NodeRoot, NoRoot, Top
<1>11. CASE root.kind = "node"
  <2>1. /\ UNCHANGED root /\ pc' = "fill"
        /\ leaf' = (IF Greater(key, nodes[at].keys[slot])
                    THEN pages[nodes[at].children[slot + 1]] ELSE LeftHalf)
    BY <1>11 DEF WriteLeft
  <2>2. nodes[at].children[slot + 1] = right /\ pages[right] = RightHalf
    BY <1>1, <1>2 DEF OwnerInv, PlaceInv, LeafInv
  <2>3. leaf'.pageId \in DOMAIN pages' /\ leaf' = pages'[leaf'.pageId]
    BY <1>2, <1>4, <1>6, <2>1, <2>2
  <2>4. RootInv' /\ PlaceInv' /\ LeafInv'
    BY <1>1, <1>9, <1>11, <2>1, <2>3 DEF RootInv, PlaceInv, LeafInv, Splitting
  <2> QED BY <1>1, <1>3, <1>5, <1>7, <1>8, <2>4 DEF OwnerInv
<1> QED BY <1>9, <1>10, <1>11

\* insertNonFullLeaf: the leaf with one more key.
Filled == [leaf EXCEPT !.keys = InsertAt(@, PlaceOf(@, key), key)]

LEMMA FilledFacts ==
  ASSUME IInv, pc = "fill"
  PROVE  /\ OwnerInv /\ leaf.pageId \in DOMAIN pages /\ leaf = pages[leaf.pageId]
         /\ Filled \in PageType(KeysUpto(row)) /\ Filled.pageId = leaf.pageId
         /\ ToSet(Filled.keys) = ToSet(leaf.keys) \cup {key}
<1>1. /\ OwnerInv /\ leaf.pageId \in DOMAIN pages /\ leaf = pages[leaf.pageId]
      /\ leaf \in PageType(OldKeys) /\ leaf.keys \in Seq(OldKeys)
      /\ leaf.pageId \in Nat /\ leaf.next \in Int
  BY LeafAtHand
<1>2. KeysUpto(row) = OldKeys \cup {key}
  BY KeyFacts DEF IInv, Inserting
<1> DEFINE K == KeysUpto(row)
           s == leaf.keys
           n == PlaceOf(s, key)
<1>3. s \in Seq(K) /\ key \in K
  <2>1. Seq(OldKeys) \subseteq Seq(K)
    <3> DEFINE A == OldKeys
               B == K
    <3>1. A \subseteq B
      BY <1>2
    <3> HIDE DEF A, B
    <3>2. Seq(A) \subseteq Seq(B)
      BY <3>1, SMT
    <3> QED BY <3>2 DEF A, B
  <2> QED BY <1>1, <1>2, <2>1
<1>4. n \in 1..Len(s) + 1
  BY <1>1, PlaceFacts
<1> HIDE DEF K, s, n
<1>5. InsertAt(s, n, key) \in Seq(K) /\ ToSet(InsertAt(s, n, key)) = ToSet(s) \cup {key}
  BY <1>3, <1>4, InsertAtFacts, InsertAtSet
<1>6. /\ Filled = [leaf EXCEPT !.keys = InsertAt(s, n, key)]
      /\ leaf \in PageType(OldKeys)
  BY <1>1 DEF Filled, s, n
<1>7. /\ Filled.keys = InsertAt(s, n, key) /\ Filled.pageId = leaf.pageId
      /\ Filled \in PageType(K)
  BY <1>1, <1>5, <1>6 DEF PageType
<1> QED BY <1>1, <1>5, <1>7 DEF s, K

LEMMA FillOwner ==
  ASSUME IInv, FillStep
  PROVE  RowsInv' /\ PagesInv' /\ OwnerInv' /\ pc' = "idle"
<1>1. /\ pc = "fill" /\ pc' = "idle" /\ WritePage(leaf.pageId, Filled)
      /\ root' = (IF root.kind = "leaf" THEN LeafRoot(Filled) ELSE root)
      /\ UNCHANGED <<nodes, table, row>>
  BY DEF FillStep, FillLeaf, Filled, RootAfter
<1>2. /\ OwnerInv /\ leaf.pageId \in DOMAIN pages
      /\ Filled \in PageType(KeysUpto(row)) /\ Filled.pageId = leaf.pageId
  BY <1>1, FilledFacts
<1>3. OldKeys' = KeysUpto(row) /\ OldKeys \subseteq OldKeys'
  <2>1. OldKeys' = KeysUpto(row)
    BY <1>1 DEF OldKeys, KeysUpto, RowKey, Inserting
  <2> QED BY <1>1, <2>1, KeyFacts DEF IInv, Inserting
<1>4. RowsInv'
  BY <1>1 DEF IInv, RowsInv, Inserting
<1>5. PagesInv'
  BY <1>1, <1>2, <1>3, PagesWritten DEF IInv
<1>6. /\ DOMAIN pages' = DOMAIN pages /\ pages'[leaf.pageId] = Filled
      /\ \A p \in DOMAIN pages : p # leaf.pageId => pages'[p] = pages[p]
  BY <1>1, <1>2, WriteFacts
<1>7. PendingInv'
  BY <1>1, <1>2, <1>6 DEF OwnerInv, PendingInv, Pending
<1>8. SoundHeap(nodes', OldKeys', DOMAIN pages')
  BY <1>1, <1>2, <1>3, <1>6, SoundWidens DEF OwnerInv
<1>9. RootInv /\ root.kind \in {"leaf", "node"} /\ (root.kind = "node" => Top(nodes, root.at))
  BY <1>1, <1>2 DEF OwnerInv, RootInv, Inserting
<1>10. RootInv'
  BY <1>1, <1>2, <1>6, <1>9 DEF RootInv, LeafRoot, Splitting, Inserting
<1>11. PlaceInv' /\ LeafInv'
  BY <1>1 DEF PlaceInv, LeafInv, Splitting
<1> QED BY <1>1, <1>4, <1>5, <1>7, <1>8, <1>10, <1>11 DEF OwnerInv

-----------------------------------------------------------------------------
(* Opening, loading and ending                                             *)

\* An opened file without pages, and one with.
LEMMA EmptyFileOwner ==
  ASSUME pc' = "idle", root' = NoRoot, nodes' = <<>>, pages' = <<>>
  PROVE  OwnerInv'
<1>1. DOMAIN nodes' = {} /\ DOMAIN pages' = {} /\ nodes' \in Seq(NodeType(OldKeys'))
  BY SMT
<1>2. SoundHeap(nodes', OldKeys', DOMAIN pages')
  BY <1>1 DEF SoundHeap, Inner
<1>3. PendingInv' /\ RootInv' /\ PlaceInv' /\ LeafInv'
  BY <1>1 DEF PendingInv, RootInv, PlaceInv, LeafInv, Splitting, Inserting, NoRoot
<1> QED BY <1>2, <1>3 DEF OwnerInv

\* Outside a call, rows and pages that nothing changes.
LEMMA SameFile ==
  ASSUME IInv, pc \notin Inserting, pc' \notin Inserting, UNCHANGED <<pages, table, row>>
  PROVE  RowsInv' /\ PagesInv'
<1>1. OldKeys' = OldKeys
  BY DEF OldKeys, KeysUpto, RowKey
<1>2. PagesInv'
  BY <1>1 DEF IInv, PagesInv, PageType
<1> QED BY <1>2 DEF IInv, RowsInv

LEMMA OpenKeeps ==
  ASSUME IInv, Open PROVE RowsInv' /\ PagesInv' /\ OtherInv' /\ ~Owner'
<1>1. /\ pc = "closed" /\ pc' = "openFile" /\ UNCHANGED <<pages, root, nodes, table, row>>
  BY DEF Open, OpenTree, OpenContext, clientVars
<1>2. RowsInv' /\ PagesInv'
  BY <1>1, SameFile DEF Inserting
<1> QED BY <1>1, <1>2 DEF IInv, OtherInv, Owner, Inserting

LEMMA OpenPagesKeeps ==
  ASSUME IInv, OpenPagesStep
  PROVE  RowsInv' /\ PagesInv' /\ OtherInv' /\ (Owner' => OwnerInv')
<1>1. /\ pc = "openFile" /\ pc' = (IF kept THEN "load" ELSE "idle")
      /\ pages' = (IF kept THEN pages ELSE <<>>) /\ UNCHANGED <<pageCount, root, nodes, table>>
      /\ row' = (IF kept THEN row ELSE 0)
  BY DEF OpenPagesStep, OpenPages, OpenFile
<1>2. pageCount = 0 /\ root = NoRoot /\ nodes = <<>>
  BY <1>1 DEF IInv, PagesAreNumbered, Numbered, OtherInv
<1>3. CASE kept
  <2>1. RowsInv' /\ PagesInv'
    BY <1>1, <1>3, SameFile DEF Inserting
  <2> QED BY <1>1, <1>2, <1>3, <2>1 DEF OtherInv, Owner, Inserting
<1>4. CASE ~kept
  <2>1. DOMAIN pages' = {}
    BY <1>1, <1>4, SMT
  <2>2. OwnerInv'
    BY <1>1, <1>2, <1>4, EmptyFileOwner
  <2>3. Len(table) \in Nat /\ 0 \in 0..Len(table)
    BY TablesAssumption, LenProperties, SMT DEF IInv, RowsInv
  <2>4. RowsInv'
    BY <1>1, <1>4, <2>3 DEF IInv, RowsInv, Inserting
  <2> QED BY <1>1, <1>2, <1>4, <2>1, <2>2, <2>4 DEF OtherInv, PagesInv
<1> QED BY <1>3, <1>4

LEMMA EndsKeeps ==
  ASSUME IInv, Ends, UNCHANGED clientVars
  PROVE  RowsInv' /\ PagesInv' /\ OtherInv' /\ ~Owner'
<1>1. /\ pc' = "closed" /\ root' = NoRoot /\ nodes' = <<>> /\ UNCHANGED <<pages, table, row>>
  BY DEF Ends, NoTree, diskVars, clientVars
<1>2. OldKeys \subseteq OldKeys'
  <2>1. CASE pc \in Inserting
    <3>1. OldKeys' = KeysUpto(row)
      BY <1>1 DEF OldKeys, KeysUpto, RowKey, Inserting
    <3> QED BY <2>1, <3>1, KeyFacts DEF IInv
  <2>2. CASE pc \notin Inserting
    BY <1>1, <2>2 DEF OldKeys, KeysUpto, RowKey, Inserting
  <2> QED BY <2>1, <2>2
<1>3. PagesInv'
  BY <1>1, <1>2, PageWidens DEF IInv, PagesInv
<1> QED BY <1>1, <1>3 DEF IInv, RowsInv, OtherInv, Owner, Inserting

LEMMA LoadKeeps ==
  ASSUME IInv, LoadStep, UNCHANGED clientVars
  PROVE  RowsInv' /\ PagesInv' /\ OtherInv' /\ (Owner' => OwnerInv')
<1>1. CASE LoadDies
  BY <1>1, EndsKeeps DEF LoadDies
<1>2. ASSUME NoFile \/ LoadNothing \/ LoadLeaves \/ LoadLevel \/ LoadRoot
      PROVE  /\ UNCHANGED <<pages, pageCount, table, row>> /\ RowsInv' /\ PagesInv'
  <2>1. /\ pc \in {"openFile", "load", "loadUp"} /\ pc' \in {"closed", "idle", "loadUp"}
        /\ UNCHANGED <<pages, pageCount, table, row>>
    BY <1>2 DEF NoFile, LoadNothing, LoadLeaves, LoadLevel, LoadRoot, diskVars, clientVars
  <2> QED BY <2>1, SameFile DEF Inserting
<1>3. CASE NoFile
  BY <1>2, <1>3 DEF NoFile, IInv, OtherInv, Owner, Inserting
<1>4. CASE LoadNothing
  <2>1. pc = "load" /\ pc' = "idle" /\ UNCHANGED <<root, nodes, pages>> /\ DOMAIN pages = {}
    BY <1>4, NumberFacts DEF LoadNothing, diskVars, IInv
  <2>2. root = NoRoot /\ nodes = <<>> /\ pages = <<>>
    BY <2>1, SMT DEF IInv, OtherInv
  <2>3. OwnerInv'
    BY <2>1, <2>2, EmptyFileOwner
  <2> QED BY <1>2, <1>4, <2>1, <2>3 DEF OtherInv
<1>5. CASE LoadLeaves
  <2>1. /\ pc = "load" /\ pc' = "loadUp" /\ UNCHANGED <<root, pages, pageCount>>
        /\ 0 \in DOMAIN pages
    BY <1>5, NumberFacts DEF LoadLeaves, diskVars, IInv
  <2> QED BY <1>2, <1>5, <2>1 DEF IInv, OtherInv, Owner, Inserting
<1>6. CASE LoadLevel
  BY <1>2, <1>6 DEF LoadLevel, diskVars, IInv, OtherInv, Owner, Inserting
<1>7. CASE LoadRoot
  BY <1>2, <1>7 DEF LoadRoot, NodeRoot, IInv, OtherInv, Owner, Inserting
<1> QED BY <1>1, <1>3, <1>4, <1>5, <1>6, <1>7 DEF LoadStep

-----------------------------------------------------------------------------
(* The invariant                                                           *)

LEMMA IInvInit == Init => IInv
<1> SUFFICES ASSUME Init PROVE IInv
  OBVIOUS
<1>1. /\ pc = "closed" /\ root = NoRoot /\ nodes = <<>> /\ pages = <<>>
      /\ table \in Tables /\ row = 0
  BY DEF Init, DiskInit, TreeInit
<1>2. PagesAreNumbered
  BY NumberedInit
<1>3. Len(table) \in Nat /\ 0 \in 0..Len(table) /\ DOMAIN pages = {}
  BY <1>1, TablesAssumption, LenProperties, SMT
<1> QED BY <1>1, <1>2, <1>3 DEF IInv, RowsInv, PagesInv, OtherInv, Owner, Inserting

\* A step within an insertion, and its last step.
LEMMA InsertKeeps ==
  ASSUME ~AppendAfterReload, IInv,
         InsertRow \/ (InsertStep /\ UNCHANGED clientVars) \/ FillStep
  PROVE  RowsInv' /\ PagesInv' /\ OtherInv' /\ OwnerInv'
<1>1. ASSUME InsertRow \/ (InsertStep /\ UNCHANGED clientVars)
      PROVE  RowsInv' /\ PagesInv' /\ OwnerInv' /\ pc' \in Inserting
  BY <1>1, InsertRowOwner, AllocateRootOwner, WriteRootOwner, InsertLeafOwner, InsertInternalOwner,
     DescendOwner, ReachLeafOwner, AllocateRightOwner, WriteRightOwner, WriteLeftOwner
     DEF InsertStep
<1>2. ASSUME FillStep PROVE RowsInv' /\ PagesInv' /\ OtherInv' /\ OwnerInv'
  <2>1. RowsInv' /\ PagesInv' /\ OwnerInv' /\ pc' = "idle"
    BY <1>2, FillOwner
  <2>2. pc = "fill" /\ pageCount' = pageCount /\ DOMAIN pages' = DOMAIN pages
    BY <1>2 DEF FillStep, FillLeaf, WritePage
  <2>3. pageCount \notin DOMAIN pages
    BY <2>2, NumberFacts DEF IInv, Inserting
  <2> QED BY <2>1, <2>2, <2>3 DEF OtherInv
<1>3. pc' \in Inserting => OtherInv'
  BY DEF OtherInv, Inserting
<1> QED BY <1>1, <1>2, <1>3

LEMMA IInvNext ==
  ASSUME ~AppendAfterReload, IInv, [Next]_vars PROVE IInv'
<1>1. PagesAreNumbered'
  BY NumberedNext DEF IInv
<1>2. CASE UNCHANGED vars
  <2>1. UNCHANGED <<pc, root, nodes, key, at, slot, leaf, right, pages, pageCount, table, row>>
    BY <1>2 DEF vars, diskVars, treeVars
  <2>2. OldKeys' = OldKeys /\ RowsInv'
    BY <2>1, SameOldKeys, RowsKept DEF IInv
  <2>3. PagesInv' /\ OtherInv'
    BY <2>1, <2>2 DEF IInv, PagesInv, PageType, OtherInv
  <2>4. Owner' <=> Owner
    BY <2>1 DEF Owner
  <2>5. ASSUME OwnerInv PROVE OwnerInv'
    <3>1. SoundHeap(nodes', OldKeys', DOMAIN pages')
      BY <2>1, <2>2, <2>5 DEF OwnerInv
    <3>2. PendingInv' /\ RootInv'
      BY <2>1, <2>5 DEF OwnerInv, PendingInv, Pending, RootInv
    <3>3. RightHalf' = RightHalf
      BY <2>1 DEF RightHalf
    <3>4. PlaceInv' /\ LeafInv'
      BY <2>1, <2>5, <3>3 DEF OwnerInv, PlaceInv, LeafInv, Full
    <3> QED BY <3>1, <3>2, <3>4 DEF OwnerInv
  <2> QED BY <1>1, <2>2, <2>3, <2>4, <2>5 DEF IInv
<1>3. CASE Open
  BY <1>1, <1>3, OpenKeeps DEF IInv
<1>4. CASE OpenPagesStep
  BY <1>1, <1>4, OpenPagesKeeps DEF IInv
<1>5. CASE Ends /\ UNCHANGED clientVars
  BY <1>1, <1>5, EndsKeeps DEF IInv
<1>6. CASE LoadStep /\ UNCHANGED clientVars
  BY <1>1, <1>6, LoadKeeps DEF IInv
<1>7. CASE InsertRow \/ (InsertStep /\ UNCHANGED clientVars) \/ FillStep
  BY <1>1, <1>7, InsertKeeps DEF IInv
<1> QED BY <1>2, <1>3, <1>4, <1>5, <1>6, <1>7 DEF Next, Step

LEMMA IInvInvariant == ASSUME ~AppendAfterReload PROVE Spec => []IInv
<1>1. IInv /\ [Next]_vars => IInv'
  BY IInvNext
<1> QED BY IInvInit, <1>1, PTL DEF Spec

\* BPlusTree.cpp works on copies of leaves that it reads from and writes to
\* the DiskManager: for every degree and table no copy is outdated when it is
\* changed or searched, and it is written to the page that it was read from.
THEOREM CopiesStayCurrent == ASSUME ~AppendAfterReload PROVE Spec => []CopiesAreCurrent
<1>1. ASSUME IInv PROVE CopiesAreCurrent
  <2>1. \A p \in DOMAIN pages : pages[p] = ZeroPage \/ pages[p].pageId = p
    BY <1>1 DEF IInv, PagesInv
  <2>2. ASSUME pc \in {"fill", "split", "writeRight", "writeLeft"}
        PROVE  leaf = pages[leaf.pageId]
    BY <1>1, <2>2, LeafAtHand DEF Splitting
  <2>3. ASSUME pc \in {"idle", "insert"}, root.kind = "leaf"
        PROVE  root.leaf = pages[root.leaf.pageId]
    <3>1. Owner
      BY <1>1, <2>3 DEF IInv, OtherInv, Owner, Inserting
    <3> QED BY <1>1, <2>3, <3>1 DEF IInv, OwnerInv, RootInv
  <2> QED BY <2>1, <2>2, <2>3 DEF CopiesAreCurrent
<1>2. IInv => CopiesAreCurrent
  BY <1>1
<1> QED BY IInvInvariant, <1>2, PTL

-----------------------------------------------------------------------------
(* The file is a set of keys                                               *)

\* The keys of the file after a page is written.
LEMMA KeysOfWrite ==
  ASSUME NEW id \in DOMAIN pages, NEW page, WritePage(id, page)
  PROVE  /\ DiskKeys' = ToSet(page.keys)
                          \cup UNION {ToSet(pages[p].keys) : p \in DOMAIN pages \ {id}}
         /\ DiskKeys = ToSet(pages[id].keys)
                         \cup UNION {ToSet(pages[p].keys) : p \in DOMAIN pages \ {id}}
<1>1. /\ DOMAIN pages' = DOMAIN pages /\ pages'[id] = page
      /\ \A p \in DOMAIN pages \ {id} : pages'[p] = pages[p]
  BY WriteFacts
<1> QED BY <1>1 DEF DiskKeys

\* Those of the file after a page of zeros is appended.
LEMMA KeysOfAllocation ==
  ASSUME PagesAreNumbered, pc \in Inserting, AllocatePage PROVE DiskKeys' = DiskKeys
<1>1. pageCount \notin DOMAIN pages
  BY NumberFacts
<1>2. /\ DOMAIN pages' = DOMAIN pages \cup {pageCount} /\ pages'[pageCount].keys = <<>>
      /\ \A p \in DOMAIN pages : pages'[p] = pages[p]
  BY <1>1 DEF AllocatePage, ZeroPage
<1>3. ToSet(<<>>) = {}
  BY SMT DEF ToSet
<1> QED BY <1>2, <1>3 DEF DiskKeys

LEMMA OldKeysOnDisk == ASSUME IInv PROVE DiskKeys \subseteq OldKeys
<1> SUFFICES ASSUME NEW p \in DOMAIN pages PROVE ToSet(pages[p].keys) \subseteq OldKeys
  BY DEF DiskKeys
<1>1. pages[p].keys \in Seq(OldKeys)
  BY DEF IInv, PagesInv, PageType
<1>2. DOMAIN pages[p].keys = 1..Len(pages[p].keys)
  BY <1>1, LenProperties
<1>3. \A i \in DOMAIN pages[p].keys : pages[p].keys[i] \in OldKeys
  BY <1>1, <1>2, ElementOfSeq
<1> QED BY <1>3 DEF ToSet

\* The three writes of a split and that of the first leaf change no key.
LEMMA SplitKeepsKeys ==
  ASSUME IInv, WriteRoot \/ WriteRight \/ WriteLeft PROVE DiskKeys' = DiskKeys
<1>1. CASE WriteRoot
  <2>1. pc = "writeRoot" /\ WritePage(root.leaf.pageId, root.leaf)
    BY <1>1 DEF WriteRoot
  <2>2. /\ root.leaf.pageId \in DOMAIN pages /\ root.leaf = NewPage(root.leaf.pageId)
        /\ pages[root.leaf.pageId] = ZeroPage
    BY <2>1 DEF IInv, Owner, Inserting, OwnerInv, RootInv, PendingInv, Pending
  <2>3. root.leaf.keys = <<>> /\ pages[root.leaf.pageId].keys = <<>>
    BY <2>2 DEF NewPage, ZeroPage
  <2> DEFINE id == root.leaf.pageId
             page == root.leaf
  <2>4. id \in DOMAIN pages /\ WritePage(id, page) /\ pages[id].keys = page.keys
    BY <2>1, <2>2, <2>3
  <2> HIDE DEF id, page
  <2> QED BY <2>4, KeysOfWrite
<1>2. CASE WriteRight
  <2>1. pc = "writeRight" /\ WritePage(right, RightHalf)
    BY <1>2 DEF WriteRight
  <2>2. /\ right \in DOMAIN pages /\ right # leaf.pageId
        /\ ToSet(RightHalf.keys) \subseteq ToSet(leaf.keys)
    BY <2>1, HalfFacts
  <2>3. leaf.pageId \in DOMAIN pages /\ leaf = pages[leaf.pageId] /\ pages[right] = ZeroPage
    BY <2>1, <2>2, LeafAtHand DEF Splitting, OwnerInv, PendingInv, Pending
  <2>4. ToSet(pages[right].keys) = {}
    BY <2>3, SMT DEF ZeroPage, ToSet
  <2>5. ToSet(leaf.keys) \subseteq UNION {ToSet(pages[p].keys) : p \in DOMAIN pages \ {right}}
    BY <2>2, <2>3
  <2>6. /\ DiskKeys' = ToSet(RightHalf.keys)
                         \cup UNION {ToSet(pages[p].keys) : p \in DOMAIN pages \ {right}}
        /\ DiskKeys = ToSet(pages[right].keys)
                        \cup UNION {ToSet(pages[p].keys) : p \in DOMAIN pages \ {right}}
    BY <2>1, <2>2, KeysOfWrite
  <2> QED BY <2>2, <2>4, <2>5, <2>6
<1>3. CASE WriteLeft
  <2> DEFINE id == leaf.pageId
             rest == UNION {ToSet(pages[p].keys) : p \in DOMAIN pages \ {id}}
  <2>1. pc = "writeLeft" /\ WritePage(id, LeftHalf)
    BY <1>3 DEF WriteLeft
  <2>2. /\ right \in DOMAIN pages /\ right # id
        /\ ToSet(LeftHalf.keys) \cup ToSet(RightHalf.keys) = ToSet(leaf.keys)
    BY <2>1, HalfFacts
  <2>3. id \in DOMAIN pages /\ leaf = pages[id] /\ pages[right] = RightHalf
    BY <2>1, LeafAtHand DEF Splitting, OwnerInv, LeafInv
  <2>4. ToSet(RightHalf.keys) \subseteq rest
    BY <2>2, <2>3
  <2>5. DiskKeys' = ToSet(LeftHalf.keys) \cup rest /\ DiskKeys = ToSet(pages[id].keys) \cup rest
    BY <2>1, <2>3, KeysOfWrite
  <2>6. pages[id].keys = leaf.keys
    BY <2>3
  <2> HIDE DEF rest, id
  <2> QED BY <2>2, <2>4, <2>5, <2>6
<1> QED BY <1>1, <1>2, <1>3

\* What a step does to the set of keys.
LEMMA StepKeepsKeys ==
  ASSUME IInv, Step, UNCHANGED clientVars PROVE DiskKeys' = DiskKeys
<1>1. CASE AllocateRoot \/ AllocateRight
  <2>1. pc \in Inserting /\ AllocatePage
    BY <1>1 DEF AllocateRoot, AllocateRight, Inserting
  <2> QED BY <2>1, KeysOfAllocation DEF IInv
<1>2. CASE WriteRoot \/ WriteRight \/ WriteLeft
  BY <1>2, SplitKeepsKeys
<1>3. CASE LoadStep \/ InsertLeaf \/ InsertInternal \/ Descend \/ ReachLeaf
  <2>1. pages' = pages
    BY <1>3 DEF LoadStep, NoFile, LoadNothing, LoadLeaves, LoadLevel, LoadRoot, LoadDies, Ends,
                InsertLeaf, InsertInternal, Descend, ReachLeaf, diskVars
  <2> QED BY <2>1 DEF DiskKeys
<1> QED BY <1>1, <1>2, <1>3 DEF Step, InsertStep

LEMMA FillAddsKey ==
  ASSUME IInv, FillStep
  PROVE  key \in AllKeys \ DiskKeys /\ DiskKeys' = DiskKeys \cup {key}
<1>1. pc = "fill" /\ WritePage(leaf.pageId, Filled)
  BY DEF FillStep, FillLeaf, Filled
<1>2. /\ leaf.pageId \in DOMAIN pages /\ leaf = pages[leaf.pageId]
      /\ ToSet(Filled.keys) = ToSet(leaf.keys) \cup {key}
  BY <1>1, FilledFacts
<1>3. key \in AllKeys /\ \A k \in OldKeys : k.id # key.id
  BY <1>1, KeyFacts DEF IInv, Inserting
<1>4. key \notin DiskKeys
  BY <1>3, OldKeysOnDisk
<1>5. /\ DiskKeys' = ToSet(Filled.keys)
                       \cup UNION {ToSet(pages[p].keys) : p \in DOMAIN pages \ {leaf.pageId}}
      /\ DiskKeys = ToSet(pages[leaf.pageId].keys)
                      \cup UNION {ToSet(pages[p].keys) : p \in DOMAIN pages \ {leaf.pageId}}
  BY <1>1, <1>2, KeysOfWrite
<1>6. pages[leaf.pageId].keys = leaf.keys
  BY <1>2
<1> QED BY <1>2, <1>3, <1>4, <1>5, <1>6

\* BPlusTree.cpp insert, the constructor and bulkLoad: for every degree and
\* table, whatever of a split is done when the process dies, the file is a set
\* of keys that each insertion adds its own key to, and that only emptying the
\* file takes keys from.
THEOREM FileIsKeySet == ASSUME ~AppendAfterReload PROVE Spec => ImplementsKeySet
<1>1. Init => Set!Init
  BY DEF Init, DiskInit, DiskKeys, Set!Init
<1>2. ASSUME IInv, [Next]_vars PROVE [Set!Next]_DiskKeys
  <2>1. CASE UNCHANGED vars
    BY <2>1 DEF vars, diskVars, DiskKeys
  <2>2. CASE Open \/ InsertRow \/ Ends
    <3>1. pages' = pages
      BY <2>2 DEF Open, OpenTree, OpenContext, InsertRow, Insert, Ends, diskVars
    <3> QED BY <3>1 DEF DiskKeys
  <2>3. CASE OpenPagesStep
    <3>1. pages' = pages \/ DOMAIN pages' = {}
      BY <2>3, SMT DEF OpenPagesStep, OpenPages, OpenFile
    <3>2. DiskKeys' = DiskKeys \/ DiskKeys' = {}
      BY <3>1 DEF DiskKeys
    <3> QED BY <3>2 DEF Set!Next, Set!Clear
  <2>4. CASE Step /\ UNCHANGED clientVars
    BY <1>2, <2>4, StepKeepsKeys
  <2>5. CASE FillStep
    BY <1>2, <2>5, FillAddsKey DEF Set!Next, Set!Add
  <2> QED BY <1>2, <2>1, <2>2, <2>3, <2>4, <2>5 DEF Next
<1>3. IInv /\ [Next]_vars => [Set!Next]_DiskKeys
  BY <1>2
<1> QED BY IInvInvariant, <1>1, <1>3, PTL DEF Spec, ImplementsKeySet, Set!Spec
-----------------------------------------------------------------------------
(* The order of the keys                                                   *)

\* Whether a key belongs under the child of a node at a place.
Goes(n, i, k) ==
  /\ i > 1 => Greater(k, n.keys[i - 1])
  /\ i <= Len(n.keys) => ~Greater(k, n.keys[i])

\* The keys of a node or a leaf ascend.
Rising(keys) == \A i, j \in DOMAIN keys : i < j => Greater(keys[j], keys[i])

LEMMA GreaterNotSame ==
  ASSUME NEW a \in KeyType, NEW b \in KeyType, NEW c \in KeyType, ~Greater(a, b), Greater(c, b)
  PROVE  Greater(c, a)
  BY SMT DEF Greater, Less, KeyType

LEMMA GreaterThrough ==
  ASSUME NEW a \in KeyType, NEW b \in KeyType, NEW c \in KeyType, Greater(a, b), Greater(b, c)
  PROVE  Greater(a, c)
  BY SMT DEF Greater, Less, KeyType

\* A key k and one more child at i: the place i is divided, the others stay.
Divided(n, i, k, m, x) ==
  /\ \A j \in 1..i - 1 : Goes(m, j, x) <=> Goes(n, j, x)
  /\ Goes(m, i, x) <=> Goes(n, i, x) /\ ~Greater(x, k)
  /\ Goes(m, i + 1, x) <=> Goes(n, i, x) /\ Greater(x, k)
  /\ \A j \in i + 2..Len(n.children) + 1 : Goes(m, j, x) <=> Goes(n, j - 1, x)

LEMMA AdoptDivides ==
  ASSUME NEW K, K \subseteq KeyType, NEW n \in NodeType(K), NEW i, NEW k \in K, NEW c, NEW m,
         NodeLengths(n), Adopted(K, n, i, k, c, m), Goes(n, i, k),
         i <= Len(n.keys) => Greater(n.keys[i], k),
         NEW x \in KeyType
  PROVE  Divided(n, i, k, m, x)
<1>1. /\ Len(m.keys) = Len(n.keys) + 1 /\ Len(n.keys) \in Nat /\ i \in 1..Len(n.keys) + 1
      /\ \A j \in 1..i - 1 : m.keys[j] = n.keys[j]
      /\ m.keys[i] = k
      /\ \A j \in i + 1..Len(n.keys) + 1 : m.keys[j] = n.keys[j - 1]
      /\ Len(n.children) \in {Len(n.keys), Len(n.keys) + 1}
  BY DEF Adopted, NodeLengths
<1>2. k \in KeyType /\ \A j \in 1..Len(n.keys) : n.keys[j] \in KeyType
  <2>1. n.keys \in Seq(K)
    BY DEF NodeType
  <2> QED BY <2>1, ElementOfSeq
<1>3. ASSUME NEW j \in 1..i - 1 PROVE Goes(m, j, x) <=> Goes(n, j, x)
  <2>1. /\ j \in Int /\ j <= Len(m.keys) /\ j <= Len(n.keys) /\ m.keys[j] = n.keys[j]
    BY <1>1, SMT
  <2>2. j > 1 => m.keys[j - 1] = n.keys[j - 1]
    <3>1. j > 1 => j - 1 \in 1..i - 1
      BY <1>1, SMT
    <3> QED BY <1>1, <3>1
  <2> QED BY <2>1, <2>2 DEF Goes
<1>4. Goes(m, i, x) <=> Goes(n, i, x) /\ ~Greater(x, k)
  <2>1. i <= Len(m.keys)
    BY <1>1, SMT
  <2>2. i > 1 => m.keys[i - 1] = n.keys[i - 1]
    <3>1. i > 1 => i - 1 \in 1..i - 1
      BY <1>1, SMT
    <3> QED BY <1>1, <3>1
  <2>3. ASSUME i <= Len(n.keys), ~Greater(x, k) PROVE ~Greater(x, n.keys[i])
    <3>1. i \in 1..Len(n.keys)
      BY <1>1, <2>3, SMT
    <3>2. Greater(n.keys[i], x)
      BY <1>2, <2>3, <3>1, GreaterNotSame
    <3> QED BY <1>2, <3>1, <3>2, GreaterOneWay
  <2> QED BY <1>1, <2>1, <2>2, <2>3 DEF Goes
<1>5. Goes(m, i + 1, x) <=> Goes(n, i, x) /\ Greater(x, k)
  <2>1. /\ i + 1 > 1 /\ (i + 1) - 1 = i /\ i + 1 <= Len(m.keys) <=> i <= Len(n.keys)
        /\ i <= Len(n.keys) => i + 1 \in i + 1..Len(n.keys) + 1
    BY <1>1, SMT
  <2>2. i <= Len(n.keys) => m.keys[i + 1] = n.keys[i]
    BY <1>1, <2>1
  <2>3. ASSUME i > 1, Greater(x, k) PROVE Greater(x, n.keys[i - 1])
    <3>1. i - 1 \in 1..Len(n.keys) /\ Greater(k, n.keys[i - 1])
      BY <1>1, <2>3, SMT DEF Goes
    <3> QED BY <1>2, <2>3, <3>1, GreaterThrough
  <2> QED BY <1>1, <2>1, <2>2, <2>3 DEF Goes
<1>6. ASSUME NEW j \in i + 2..Len(n.children) + 1 PROVE Goes(m, j, x) <=> Goes(n, j - 1, x)
  <2>1. /\ j > 1 /\ j - 1 > 1 /\ j - 1 \in i + 1..Len(n.keys) + 1
        /\ j <= Len(m.keys) <=> j - 1 <= Len(n.keys)
        /\ j - 1 <= Len(n.keys) => j \in i + 1..Len(n.keys) + 1
    BY <1>1, SMT
  <2>2. m.keys[j - 1] = n.keys[(j - 1) - 1] /\ (j - 1 <= Len(n.keys) => m.keys[j] = n.keys[j - 1])
    BY <1>1, <2>1
  <2> QED BY <2>1, <2>2 DEF Goes
<1> QED BY <1>3, <1>4, <1>5, <1>6 DEF Divided

LEMMA AdoptRises ==
  ASSUME NEW K, K \subseteq KeyType, NEW n \in NodeType(K), NEW i, NEW k \in K, NEW c, NEW m,
         NodeLengths(n), Adopted(K, n, i, k, c, m), Goes(n, i, k),
         i <= Len(n.keys) => Greater(n.keys[i], k), Rising(n.keys)
  PROVE  Rising(m.keys) /\ \A j \in DOMAIN m.keys : m.keys[j] = k \/ \E s \in DOMAIN n.keys : m.keys[j] = n.keys[s]
<1>1. /\ Len(m.keys) = Len(n.keys) + 1 /\ Len(n.keys) \in Nat /\ i \in 1..Len(n.keys) + 1
      /\ \A j \in 1..i - 1 : m.keys[j] = n.keys[j]
      /\ m.keys[i] = k
      /\ \A j \in i + 1..Len(n.keys) + 1 : m.keys[j] = n.keys[j - 1]
      /\ m \in NodeType(K)
  BY DEF Adopted
<1>2. /\ DOMAIN n.keys = 1..Len(n.keys) /\ DOMAIN m.keys = 1..Len(n.keys) + 1
      /\ k \in KeyType /\ \A j \in 1..Len(n.keys) : n.keys[j] \in KeyType
  <2>1. n.keys \in Seq(K) /\ m.keys \in Seq(K)
    BY <1>1 DEF NodeType
  <2> QED BY <1>1, <2>1, ElementOfSeq, LenProperties
\* Where a key was before.
<1> DEFINE Was(j) == IF j < i THEN j ELSE j - 1
<1>3. ASSUME NEW j \in 1..Len(n.keys) + 1, j # i
      PROVE  Was(j) \in 1..Len(n.keys) /\ m.keys[j] = n.keys[Was(j)] /\ (j < i => Was(j) < i) /\ (j > i => Was(j) >= i)
  <2>1. j < i => j \in 1..i - 1 /\ j \in 1..Len(n.keys)
    BY <1>1, SMT
  <2>2. j > i => j \in i + 1..Len(n.keys) + 1 /\ j - 1 \in 1..Len(n.keys) /\ j - 1 >= i
    BY <1>1, SMT
  <2>3. j < i \/ j > i
    BY <1>1, <1>3, SMT
  <2>4. CASE j < i
    BY <1>1, <2>1, <2>4
  <2>5. CASE j > i
    <3>1. ~(j < i)
      BY <1>1, <2>5, SMT
    <3> QED BY <1>1, <2>2, <2>5, <3>1
  <2> QED BY <2>3, <2>4, <2>5
<1>4. ASSUME NEW s \in 1..Len(n.keys)
      PROVE  /\ s < i => Greater(k, n.keys[s])
             /\ s >= i => Greater(n.keys[s], k)
  <2>1. ASSUME s < i PROVE Greater(k, n.keys[s])
    <3>1. i > 1 /\ i - 1 \in 1..Len(n.keys) /\ (s = i - 1 \/ s < i - 1)
      BY <1>1, <2>1, SMT
    <3>2. Greater(k, n.keys[i - 1])
      BY <3>1 DEF Goes
    <3>3. s < i - 1 => Greater(n.keys[i - 1], n.keys[s])
      BY <1>2, <3>1 DEF Rising
    <3> QED BY <1>2, <3>1, <3>2, <3>3, GreaterThrough
  <2>2. ASSUME s >= i PROVE Greater(n.keys[s], k)
    <3>1. i \in 1..Len(n.keys) /\ i <= Len(n.keys) /\ (s = i \/ i < s)
      BY <1>1, <2>2, SMT
    <3>2. i < s => Greater(n.keys[s], n.keys[i])
      BY <1>2, <3>1 DEF Rising
    <3> QED BY <1>2, <3>1, <3>2, GreaterThrough
  <2> QED BY <2>1, <2>2
<1>5. ASSUME NEW s \in 1..Len(n.keys) + 1, NEW t \in 1..Len(n.keys) + 1, s < t
      PROVE  Greater(m.keys[t], m.keys[s])
  <2>1. CASE s = i
    <3>1. t > i /\ t # i
      BY <1>1, <1>5, <2>1, SMT
    <3> QED BY <1>1, <1>3, <1>4, <2>1, <3>1
  <2>2. CASE t = i
    <3>1. s < i /\ s # i
      BY <1>1, <1>5, <2>2, SMT
    <3> QED BY <1>1, <1>3, <1>4, <2>2, <3>1
  <2>3. CASE s # i /\ t # i
    <3>1. Was(s) < Was(t)
      BY <1>1, <1>5, <2>3, SMT
    <3>2. Was(s) \in DOMAIN n.keys /\ Was(t) \in DOMAIN n.keys /\ m.keys[s] = n.keys[Was(s)] /\ m.keys[t] = n.keys[Was(t)]
      BY <1>2, <1>3, <2>3
    <3> QED BY <3>1, <3>2 DEF Rising
  <2> QED BY <2>1, <2>2, <2>3
<1>6. \A j \in DOMAIN m.keys : m.keys[j] = k \/ \E s \in DOMAIN n.keys : m.keys[j] = n.keys[s]
  <2> HIDE DEF Was
  <2> QED BY <1>1, <1>2, <1>3
<1> QED BY <1>2, <1>5, <1>6 DEF Rising

\* The halves of a node share its places out.
Shared(n, l, r, x) ==
  /\ \A j \in 1..MinDegree :
       Goes(l, j, x) /\ ~Greater(x, n.keys[MinDegree]) <=> Goes(n, j, x)
  /\ \A j \in DOMAIN r.children :
       Goes(r, j, x) /\ Greater(x, n.keys[MinDegree]) <=> Goes(n, MinDegree + j, x)

LEMMA PartShares ==
  ASSUME NEW K, K \subseteq KeyType, NEW n \in NodeType(K), NEW l, NEW r,
         NodeLengths(n), Full(n), Parted(K, n, l, r), Rising(n.keys), NEW x \in KeyType
  PROVE  Shared(n, l, r, x)
<1>1. /\ l.keys \in Seq(K) /\ Len(l.keys) = MinDegree /\ \A j \in 1..MinDegree : l.keys[j] = n.keys[j]
      /\ Len(r.keys) = MinDegree - 1 /\ \A j \in 1..MinDegree - 1 : r.keys[j] = n.keys[MinDegree + j]
      /\ DOMAIN r.children = 1..Len(n.children) - MinDegree
      /\ Len(n.children) \in {Len(n.keys), Len(n.keys) + 1} /\ Len(n.keys) = 2 * MinDegree - 1
      /\ MinDegree \in Nat /\ MinDegree >= 2
  BY BPlusTreeAssumption DEF Parted, NodeLengths, NodeType, Full
<1>2. DOMAIN n.keys = 1..2 * MinDegree - 1 /\ \A j \in 1..2 * MinDegree - 1 : n.keys[j] \in KeyType
  <2>1. n.keys \in Seq(K)
    BY DEF NodeType
  <2> QED BY <1>1, <2>1, ElementOfSeq, LenProperties
<1> DEFINE k == n.keys[MinDegree]
<1>3. k \in KeyType /\ MinDegree \in 1..2 * MinDegree - 1
  BY <1>1, <1>2, SMT
<1>4. ASSUME NEW j \in 1..MinDegree PROVE Goes(l, j, x) /\ ~Greater(x, k) <=> Goes(n, j, x)
  <2> PICK d : d = MinDegree
    OBVIOUS
  <2>9. d \in Nat /\ d >= 2 /\ j \in 1..d
    BY <1>1
  <2>8. j <= d /\ j <= 2 * d - 1 /\ j \in 1..2 * d - 1 /\ (j > 1 => j - 1 \in 1..d) /\ (j = d \/ j < d)
    BY <2>9, SMT
  <2>1. /\ j <= Len(l.keys) /\ j <= Len(n.keys) /\ j \in 1..2 * MinDegree - 1
        /\ j > 1 => j - 1 \in 1..MinDegree
        /\ j = MinDegree \/ j < MinDegree
    BY <1>1, <2>8
  <2>2. l.keys[j] = n.keys[j] /\ (j > 1 => l.keys[j - 1] = n.keys[j - 1])
    BY <1>1, <2>1
  <2>3. ASSUME ~Greater(x, n.keys[j]) PROVE ~Greater(x, k)
    <3>1. CASE j = MinDegree
      BY <2>3, <3>1
    <3>2. CASE j < MinDegree
      <4>1. Greater(k, n.keys[j])
        BY <1>2, <1>3, <2>1, <3>2 DEF Rising
      <4>2. Greater(k, x)
        BY <1>2, <1>3, <2>1, <2>3, <4>1, GreaterNotSame
      <4> QED BY <1>3, <4>2, GreaterOneWay
    <3> QED BY <2>1, <3>1, <3>2
  <2> QED BY <2>1, <2>2, <2>3 DEF Goes
<1>5. ASSUME NEW j \in DOMAIN r.children
      PROVE  Goes(r, j, x) /\ Greater(x, k) <=> Goes(n, MinDegree + j, x)
  <2> PICK d, e : d = MinDegree /\ e = Len(n.children)
    OBVIOUS
  <2>9. d \in Nat /\ d >= 2 /\ e \in {2 * d - 1, (2 * d - 1) + 1} /\ j \in 1..e - d
    BY <1>1
  <2>8. /\ j \in 1..d /\ d + j > 1 /\ (d + j) - 1 \in 1..2 * d - 1
        /\ j <= d - 1 <=> d + j <= 2 * d - 1
        /\ j <= d - 1 => j \in 1..d - 1
        /\ j > 1 => j - 1 \in 1..d - 1 /\ d + (j - 1) = (d + j) - 1
        /\ j > 1 => d < (d + j) - 1
        /\ ~(j > 1) => (d + j) - 1 = d
    BY <2>9, SMT
  <2>1. /\ j \in 1..MinDegree /\ MinDegree + j > 1 /\ (MinDegree + j) - 1 \in 1..2 * MinDegree - 1
        /\ j <= Len(r.keys) <=> MinDegree + j <= Len(n.keys)
        /\ j <= Len(r.keys) => j \in 1..MinDegree - 1
        /\ j > 1 => j - 1 \in 1..MinDegree - 1 /\ MinDegree + (j - 1) = (MinDegree + j) - 1
        /\ j > 1 => MinDegree < (MinDegree + j) - 1
        /\ ~(j > 1) => (MinDegree + j) - 1 = MinDegree
    BY <1>1, <2>8
  <2>2. /\ j <= Len(r.keys) => r.keys[j] = n.keys[MinDegree + j]
        /\ j > 1 => r.keys[j - 1] = n.keys[(MinDegree + j) - 1]
    BY <1>1, <2>1
  <2>3. ASSUME Greater(x, n.keys[(MinDegree + j) - 1]) PROVE Greater(x, k)
    <3>1. CASE j > 1
      <4>1. Greater(n.keys[(MinDegree + j) - 1], k)
        BY <1>2, <1>3, <2>1, <3>1 DEF Rising
      <4> QED BY <1>2, <1>3, <2>1, <2>3, <4>1, GreaterThrough
    <3>2. CASE ~(j > 1)
      BY <2>1, <2>3, <3>2
    <3> QED BY <3>1, <3>2
  <2>4. Goes(n, MinDegree + j, x) <=>
          /\ Greater(x, n.keys[(MinDegree + j) - 1])
          /\ MinDegree + j <= Len(n.keys) => ~Greater(x, n.keys[MinDegree + j])
    BY <2>1 DEF Goes
  <2>5. Goes(r, j, x) <=>
          /\ j > 1 => Greater(x, n.keys[(MinDegree + j) - 1])
          /\ MinDegree + j <= Len(n.keys) => ~Greater(x, n.keys[MinDegree + j])
    BY <2>1, <2>2 DEF Goes
  <2> QED BY <2>1, <2>3, <2>4, <2>5
<1> QED BY <1>4, <1>5 DEF Shared

LEMMA PartRises ==
  ASSUME NEW K, K \subseteq KeyType, NEW n \in NodeType(K), NEW l, NEW r,
         NodeLengths(n), Full(n), Parted(K, n, l, r), Rising(n.keys)
  PROVE  /\ Rising(l.keys) /\ Rising(r.keys)
         /\ \A j \in DOMAIN l.keys : j \in DOMAIN n.keys /\ l.keys[j] = n.keys[j]
                                     /\ ~Greater(l.keys[j], n.keys[MinDegree])
         /\ \A j \in DOMAIN r.keys : MinDegree + j \in DOMAIN n.keys /\ r.keys[j] = n.keys[MinDegree + j]
                                     /\ Greater(r.keys[j], n.keys[MinDegree])
         /\ MinDegree \in DOMAIN n.keys /\ MinDegree + 1 \in DOMAIN n.keys
         /\ Greater(n.keys[MinDegree + 1], n.keys[MinDegree])
<1>1. /\ l.keys \in Seq(K) /\ r.keys \in Seq(K)
      /\ Len(l.keys) = MinDegree /\ \A j \in 1..MinDegree : l.keys[j] = n.keys[j]
      /\ Len(r.keys) = MinDegree - 1 /\ \A j \in 1..MinDegree - 1 : r.keys[j] = n.keys[MinDegree + j]
      /\ Len(n.keys) = 2 * MinDegree - 1
      /\ MinDegree \in Nat /\ MinDegree >= 2
  BY BPlusTreeAssumption DEF Parted, NodeType, Full
<1>2. /\ DOMAIN n.keys = 1..2 * MinDegree - 1 /\ \A j \in 1..2 * MinDegree - 1 : n.keys[j] \in KeyType
      /\ DOMAIN l.keys = 1..MinDegree /\ DOMAIN r.keys = 1..MinDegree - 1
  <2>1. n.keys \in Seq(K)
    BY DEF NodeType
  <2> QED BY <1>1, <2>1, ElementOfSeq, LenProperties
<1>3. /\ MinDegree \in DOMAIN n.keys /\ MinDegree + 1 \in DOMAIN n.keys /\ MinDegree < MinDegree + 1
      /\ \A j \in 1..MinDegree : j \in DOMAIN n.keys /\ (j < MinDegree \/ j = MinDegree)
      /\ \A j \in 1..MinDegree - 1 : MinDegree + j \in DOMAIN n.keys /\ MinDegree < MinDegree + j
      /\ \A i, j \in 1..MinDegree - 1 : i < j => MinDegree + i < MinDegree + j
  BY <1>1, <1>2, SMT
<1>4. \A j \in 1..MinDegree : ~Greater(n.keys[j], n.keys[MinDegree])
  <2> SUFFICES ASSUME NEW j \in 1..MinDegree PROVE ~Greater(n.keys[j], n.keys[MinDegree])
    OBVIOUS
  <2>1. n.keys[j] \in KeyType /\ n.keys[MinDegree] \in KeyType
    BY <1>2, <1>3
  <2>2. CASE j < MinDegree
    BY <1>3, <2>1, <2>2, GreaterOneWay DEF Rising
  <2>3. CASE j = MinDegree
    BY <2>1, <2>3, GreaterIsStrict
  <2> QED BY <1>3, <2>2, <2>3
<1>5. Rising(l.keys)
  BY <1>1, <1>2, <1>3 DEF Rising
<1>6. Rising(r.keys)
  BY <1>1, <1>2, <1>3, ZenonT(60) DEF Rising
<1> QED BY <1>1, <1>2, <1>3, <1>4, <1>5, <1>6, ZenonT(60) DEF Rising
-----------------------------------------------------------------------------
(* Heaps in order                                                          *)

\* The keys that belong under each node or page: N of nodes, L of pages.
Spans == [Nat -> SUBSET KeyType]
ChildSpan(heap, N, L, a, i) ==
  IF heap[a].type = 1 THEN N[heap[a].children[i]] ELSE L[heap[a].children[i]]

\* Each child has the keys that go to its place, no child hangs in two places.
KeysFit(heap, N, a) == Rising(heap[a].keys) /\ \A j \in DOMAIN heap[a].keys : heap[a].keys[j] \in N[a]
ChildFits(heap, N, L, P, a, i) ==
  /\ ChildSpan(heap, N, L, a, i) = {x \in N[a] : Goes(heap[a], i, x)}
  /\ heap[a].type = 2 => heap[a].children[i] \in P
SamePlace(heap, a, i, b, j) ==
  heap[a].type = heap[b].type /\ heap[a].children[i] = heap[b].children[j] => a = b /\ i = j
Ordered(heap, N, L, P) ==
  /\ N \in Spans /\ L \in Spans
  /\ \A a \in DOMAIN heap : KeysFit(heap, N, a)
  /\ \A a \in DOMAIN heap : \A i \in DOMAIN heap[a].children : ChildFits(heap, N, L, P, a, i)
  /\ \A a, b \in DOMAIN heap : \A i \in DOMAIN heap[a].children, j \in DOMAIN heap[b].children :
       SamePlace(heap, a, i, b, j)

LEMMA OrderedFacts ==
  ASSUME NEW heap, NEW N, NEW L, NEW P, Ordered(heap, N, L, P), NEW a \in DOMAIN heap
  PROVE  /\ N \in Spans /\ L \in Spans /\ KeysFit(heap, N, a)
         /\ \A i \in DOMAIN heap[a].children : ChildFits(heap, N, L, P, a, i)
  BY DEF Ordered

LEMMA OrderedOnce ==
  ASSUME NEW heap, NEW N, NEW L, NEW P, Ordered(heap, N, L, P), NEW a \in DOMAIN heap, NEW b \in DOMAIN heap,
         NEW i \in DOMAIN heap[a].children, NEW j \in DOMAIN heap[b].children,
         heap[a].type = heap[b].type, heap[a].children[i] = heap[b].children[j]
  PROVE  a = b /\ i = j
  BY DEF Ordered, SamePlace

\* A span of keys is cut at a key: the lower half stays.
Halve(f, a, b, k) ==
  [f EXCEPT ![a] = {x \in f[a] : ~Greater(x, k)}, ![b] = {x \in f[a] : Greater(x, k)}]

LEMMA HalveFacts ==
  ASSUME NEW f \in Spans, NEW a \in Nat, NEW b \in Nat, a # b, NEW k, NEW g, g = Halve(f, a, b, k)
  PROVE  /\ g \in Spans /\ g[a] = {x \in f[a] : ~Greater(x, k)} /\ g[b] = {x \in f[a] : Greater(x, k)}
         /\ \A c \in Nat \ {a, b} : g[c] = f[c]
<1>1. f[a] \subseteq KeyType
  BY DEF Spans
<1> QED BY <1>1 DEF Halve, Spans

-----------------------------------------------------------------------------
\* What splitInternalNode makes of a heap.
SplitShape(K, heap, p, i, h, fresh, c, m, l, r) ==
  /\ DOMAIN h = DOMAIN heap \cup {fresh} /\ fresh \notin DOMAIN heap /\ fresh \in Nat
  /\ p \in DOMAIN heap /\ c \in DOMAIN heap /\ c # p /\ c \in Nat /\ p \in Nat
  /\ heap[p].type = 1 /\ i \in DOMAIN heap[p].children /\ heap[p].children[i] = c
  /\ h[p] = m /\ h[c] = l /\ h[fresh] = r
  /\ \A b \in DOMAIN heap \ {p, c} : h[b] = heap[b]
  /\ heap[p] \in NodeType(K) /\ NodeLengths(heap[p]) /\ heap[c] \in NodeType(K) /\ NodeLengths(heap[c])
  /\ Adopted(K, heap[p], i, heap[c].keys[MinDegree], fresh, m)
  /\ Parted(K, heap[c], l, r)

LEMMA SplitHasShape ==
  ASSUME NEW K, NEW P, NEW heap, SoundHeap(heap, K, P),
         NEW p \in Inner(heap), NEW i \in DOMAIN heap[p].children,
         NEW c, c = heap[p].children[i], Full(heap[c]),
         NEW h, h = SplitInternalNode(heap, p, i), NEW fresh, fresh = Len(heap) + 1
  PROVE  \E m, l, r : SplitShape(K, heap, p, i, h, fresh, c, m, l, r)
<1> DEFINE n == heap[c]
           q == heap[p]
           k == n.keys[MinDegree]
           l == LeftPart(n)
           r == RightPart(n)
           m == Adopt(q, i, k, fresh)
<1>1. /\ heap \in Seq(NodeType(K)) /\ DOMAIN heap = 1..Len(heap) /\ Len(heap) \in Nat
      /\ fresh \notin DOMAIN heap /\ fresh \in Nat /\ DOMAIN heap \cup {fresh} = 1..Len(heap) + 1
      /\ \A a \in DOMAIN heap : a \in Nat
  BY HeapFacts, SMT
<1>2. p \in DOMAIN heap /\ q.type = 1 /\ c \in DOMAIN heap /\ c # p
  <2>1. p \in DOMAIN heap /\ heap[p].type = 1
    BY DEF Inner
  <2>2. ChildAt(heap, p, i) \in DOMAIN heap \ {p}
    BY DEF SoundHeap
  <2> QED BY <2>1, <2>2 DEF ChildAt
<1>3. /\ n \in NodeType(K) /\ NodeLengths(n) /\ Full(n)
      /\ q \in NodeType(K) /\ NodeLengths(q) /\ i \in DOMAIN q.children
  BY <1>2, HeapFacts
<1>4. Parted(K, n, l, r) /\ l \in NodeType(K) /\ r \in NodeType(K) /\ k \in K
  <2>1. l = LeftPart(n) /\ r = RightPart(n)
    OBVIOUS
  <2>2. k = n.keys[MinDegree]
    OBVIOUS
  <2> HIDE DEF n, l, r, k
  <2>3. Parted(K, n, l, r)
    BY <1>3, <2>1, PartFacts
  <2> QED BY <2>2, <2>3 DEF Parted
<1>5. Adopted(K, q, i, k, fresh, m) /\ m \in NodeType(K)
  <2>1. m = Adopt(q, i, k, fresh) /\ k \in K /\ fresh \in Nat
    BY <1>1, <1>4
  <2> HIDE DEF q, k, m
  <2>2. Adopted(K, q, i, k, fresh, m)
    BY <1>3, <2>1, AdoptFacts
  <2> QED BY <2>2 DEF Adopted
<1>6. /\ DOMAIN h = DOMAIN heap \cup {fresh}
      /\ h[p] = m /\ h[c] = l /\ h[fresh] = r
      /\ \A b \in DOMAIN heap \ {p, c} : h[b] = heap[b]
  <2> DEFINE g == [heap EXCEPT ![p] = m, ![c] = l]
  <2>1. h = Append(g, r)
    BY <1>2 DEF SplitInternalNode
  <2> HIDE DEF m, l, r
  <2>2. DOMAIN g = DOMAIN heap /\ g[p] = m /\ g[c] = l /\ \A b \in DOMAIN heap \ {p, c} : g[b] = heap[b]
    BY <1>2
  <2>3. g \in Seq(NodeType(K)) /\ Len(g) = Len(heap) /\ r \in NodeType(K)
    <3> DEFINE T == NodeType(K)
    <3>1. /\ heap \in Seq(T) /\ DOMAIN heap = 1..Len(heap) /\ p \in DOMAIN heap /\ c \in DOMAIN heap
          /\ m \in T /\ l \in T /\ r \in T
      BY <1>1, <1>2, <1>4, <1>5
    <3> HIDE DEF T
    <3>2. g \in Seq(T) /\ Len(g) = Len(heap)
      BY <3>1, SMT
    <3> QED BY <3>1, <3>2 DEF T
  <2> HIDE DEF g
  <2>4. /\ Append(g, r) \in Seq(NodeType(K)) /\ Len(Append(g, r)) = Len(g) + 1
        /\ \A b \in 1..Len(g) : Append(g, r)[b] = g[b]
        /\ Append(g, r)[Len(g) + 1] = r
    BY <2>3, AppendProperties
  <2>5. h \in Seq(NodeType(K)) /\ Len(h) = Len(heap) + 1 /\ h[fresh] = r
        /\ \A b \in DOMAIN heap : h[b] = g[b]
    BY <1>1, <2>1, <2>3, <2>4
  <2>6. DOMAIN h = 1..Len(heap) + 1
    BY <2>5, LenProperties
  <2> QED BY <1>1, <1>2, <2>2, <2>5, <2>6
<1> HIDE DEF l, r, m
<1>7. SplitShape(K, heap, p, i, h, fresh, c, m, l, r)
  BY <1>1, <1>2, <1>3, <1>4, <1>5, <1>6 DEF SplitShape
<1> QED BY <1>7

\* Where a place of the new heap was before: b, s.
MovedFrom(heap, p, i, fresh, c, r, a, j, b, s) ==
  \/ a \notin {p, c, fresh} /\ b = a /\ s = j
  \/ a = c /\ b = c /\ s = j /\ j \in 1..MinDegree
  \/ a = fresh /\ b = c /\ s = MinDegree + j /\ j \in DOMAIN r.children
  \/ a = p /\ b = p /\ s = j /\ j \in 1..i
  \/ a = p /\ b = p /\ s = j - 1 /\ j \in i + 2..Len(heap[p].children) + 1

LEMMA PlaceMoved ==
  ASSUME NEW K, NEW heap, NEW p, NEW i, NEW h, NEW fresh, NEW c, NEW m, NEW l, NEW r,
         SplitShape(K, heap, p, i, h, fresh, c, m, l, r),
         NEW a \in DOMAIN h, NEW j \in DOMAIN h[a].children, ~(a = p /\ j = i + 1)
  PROVE  \E b \in DOMAIN heap : \E s \in DOMAIN heap[b].children :
           /\ MovedFrom(heap, p, i, fresh, c, r, a, j, b, s)
           /\ h[a].children[j] = heap[b].children[s] /\ h[a].type = heap[b].type
<1> DEFINE q == heap[p]
           n == heap[c]
<1>1. /\ DOMAIN h = DOMAIN heap \cup {fresh} /\ p \in DOMAIN heap /\ c \in DOMAIN heap
      /\ i \in DOMAIN q.children
      /\ h[p] = m /\ h[c] = l /\ h[fresh] = r
      /\ \A b \in DOMAIN heap \ {p, c} : h[b] = heap[b]
      /\ Adopted(K, q, i, n.keys[MinDegree], fresh, m) /\ Parted(K, n, l, r)
  BY DEF SplitShape
<1> HIDE DEF q, n
<1>2. /\ l.type = n.type /\ DOMAIN l.children = 1..MinDegree
      /\ \A x \in 1..MinDegree : x \in DOMAIN n.children /\ l.children[x] = n.children[x]
      /\ r.type = n.type
      /\ \A x \in DOMAIN r.children :
           MinDegree + x \in DOMAIN n.children /\ r.children[x] = n.children[MinDegree + x]
  BY <1>1 DEF Parted
<1>3. /\ m.type = q.type
      /\ DOMAIN m.children = 1..Len(q.children) + 1 /\ DOMAIN q.children = 1..Len(q.children)
      /\ Len(q.children) \in Nat
      /\ \A x \in 1..i : m.children[x] = q.children[x]
      /\ \A x \in i + 2..Len(q.children) + 1 : m.children[x] = q.children[x - 1]
  BY <1>1 DEF Adopted
<1>4. CASE a \notin {p, c, fresh}
  <2>1. a \in DOMAIN heap /\ h[a] = heap[a]
    BY <1>1, <1>4
  <2> QED BY <1>4, <2>1 DEF MovedFrom
<1>5. CASE a = c
  <2>1. j \in 1..MinDegree /\ j \in DOMAIN n.children /\ h[a].children[j] = n.children[j]
    BY <1>1, <1>2, <1>5
  <2>2. MovedFrom(heap, p, i, fresh, c, r, a, j, c, j) /\ h[a].type = n.type
    BY <1>1, <1>2, <1>5, <2>1 DEF MovedFrom
  <2> QED BY <1>1, <2>1, <2>2 DEF n
<1>6. CASE a = fresh
  <2>1. /\ j \in DOMAIN r.children /\ MinDegree + j \in DOMAIN n.children
        /\ h[a].children[j] = n.children[MinDegree + j]
    BY <1>1, <1>2, <1>6
  <2>2. MovedFrom(heap, p, i, fresh, c, r, a, j, c, MinDegree + j) /\ h[a].type = n.type
    BY <1>1, <1>2, <1>6, <2>1 DEF MovedFrom
  <2> QED BY <1>1, <2>1, <2>2 DEF n
<1>7. CASE a = p
  <2>1. j \in DOMAIN m.children
    BY <1>1, <1>7
  <2>2. \/ j \in 1..i /\ j \in DOMAIN q.children
        \/ j \in i + 2..Len(q.children) + 1 /\ j - 1 \in DOMAIN q.children
    BY <1>1, <1>3, <1>7, <2>1, SMT
  <2>3. CASE j \in 1..i /\ j \in DOMAIN q.children
    <3>1. MovedFrom(heap, p, i, fresh, c, r, a, j, p, j)
      BY <1>7, <2>3 DEF MovedFrom
    <3> QED BY <1>1, <1>3, <1>7, <2>3, <3>1 DEF q
  <2>4. CASE j \in i + 2..Len(q.children) + 1 /\ j - 1 \in DOMAIN q.children
    <3>1. MovedFrom(heap, p, i, fresh, c, r, a, j, p, j - 1)
      BY <1>7, <2>4 DEF MovedFrom, q
    <3> QED BY <1>1, <1>3, <1>7, <2>4, <3>1 DEF q
  <2> QED BY <2>2, <2>3, <2>4
<1> QED BY <1>4, <1>5, <1>6, <1>7

LEMMA MovedOnce ==
  ASSUME NEW K, NEW heap, NEW p, NEW i, NEW h, NEW fresh, NEW c, NEW m, NEW l, NEW r,
         SplitShape(K, heap, p, i, h, fresh, c, m, l, r),
         NEW a, NEW j \in Int, NEW d, NEW t \in Int, NEW b, NEW s,
         MovedFrom(heap, p, i, fresh, c, r, a, j, b, s), MovedFrom(heap, p, i, fresh, c, r, d, t, b, s)
  PROVE  a = d /\ j = t
<1>1. /\ c # p /\ fresh # p /\ fresh # c
      /\ Adopted(K, heap[p], i, heap[c].keys[MinDegree], fresh, m) /\ Parted(K, heap[c], l, r)
      /\ NodeLengths(heap[c]) /\ heap[c] \in NodeType(K)
  BY DEF SplitShape
<1>2. MinDegree \in Int /\ i \in Int /\ \A x \in DOMAIN r.children : x \in Int /\ x >= 1
  <2>1. MinDegree \in Int
    BY BPlusTreeAssumption, SMT
  <2>2. i \in 1..Len(heap[p].keys) + 1 /\ Len(heap[p].keys) \in Nat
    BY <1>1 DEF Adopted
  <2>3. i \in Int
    BY <2>2, SMT
  <2>4. DOMAIN r.children = 1..Len(heap[c].children) - MinDegree
    BY <1>1 DEF Parted
  <2> QED BY <2>1, <2>3, <2>4, SMT
<1>3. \A x \in i + 2..Len(heap[p].children) + 1 : x \in Int /\ x >= i + 2
  BY <1>2, SMT
<1> QED BY <1>1, <1>2, <1>3, SMT DEF MovedFrom
-----------------------------------------------------------------------------
(* Splitting a node of a heap in order                                     *)

SplitKey(heap, p, i, c, k, N) ==
  /\ k = heap[c].keys[MinDegree] /\ k \in KeyType /\ k \in N[c]
  /\ N[c] = {x \in N[p] : Goes(heap[p], i, x)} /\ N[p] \subseteq KeyType /\ N[c] \subseteq KeyType
  /\ Goes(heap[p], i, k) /\ (i <= Len(heap[p].keys) => Greater(heap[p].keys[i], k))
  /\ Rising(heap[p].keys) /\ Rising(heap[c].keys)

LEMMA SplitKeyFits ==
  ASSUME NEW K, K \subseteq KeyType, NEW heap, NEW p, NEW i, NEW h, NEW fresh, NEW c, NEW m, NEW l, NEW r,
         SplitShape(K, heap, p, i, h, fresh, c, m, l, r), Full(heap[c]),
         NEW N, NEW L, NEW P, Ordered(heap, N, L, P)
  PROVE  SplitKey(heap, p, i, c, heap[c].keys[MinDegree], N)
<1> DEFINE k == heap[c].keys[MinDegree]
           k2 == heap[c].keys[MinDegree + 1]
<1>1. /\ p \in DOMAIN heap /\ c \in DOMAIN heap /\ c \in Nat /\ p \in Nat
      /\ heap[p].type = 1 /\ i \in DOMAIN heap[p].children /\ heap[p].children[i] = c
      /\ heap[p] \in NodeType(K) /\ NodeLengths(heap[p]) /\ heap[c] \in NodeType(K) /\ NodeLengths(heap[c])
      /\ Adopted(K, heap[p], i, heap[c].keys[MinDegree], fresh, m) /\ Parted(K, heap[c], l, r)
  BY DEF SplitShape
<1>2. /\ N \in Spans /\ KeysFit(heap, N, p) /\ KeysFit(heap, N, c) /\ ChildFits(heap, N, L, P, p, i)
  BY <1>1, OrderedFacts
<1>3. N[c] = {x \in N[p] : Goes(heap[p], i, x)} /\ N[p] \subseteq KeyType /\ N[c] \subseteq KeyType
  BY <1>1, <1>2 DEF ChildFits, ChildSpan, Spans
<1>4. /\ MinDegree \in DOMAIN heap[c].keys /\ MinDegree + 1 \in DOMAIN heap[c].keys /\ Greater(k2, k)
  BY <1>1, <1>2, PartRises DEF KeysFit
<1>5. k \in N[c] /\ k2 \in N[c]
  BY <1>2, <1>4 DEF KeysFit
<1>6. Goes(heap[p], i, k) /\ Goes(heap[p], i, k2) /\ k \in KeyType /\ k2 \in KeyType
  BY <1>3, <1>5
<1>7. ASSUME i <= Len(heap[p].keys) PROVE Greater(heap[p].keys[i], k)
  <2>1. ~Greater(k2, heap[p].keys[i])
    BY <1>6, <1>7 DEF Goes
  <2>2. heap[p].keys[i] \in KeyType
    <3>1. i \in 1..Len(heap[p].keys) + 1 /\ Len(heap[p].keys) \in Nat
      BY <1>1 DEF Adopted
    <3>2. i \in 1..Len(heap[p].keys)
      BY <1>7, <3>1, SMT
    <3>3. heap[p].keys \in Seq(K)
      BY <1>1 DEF NodeType
    <3> QED BY <3>2, <3>3, ElementOfSeq
  <2> QED BY <1>4, <1>6, <2>1, <2>2, GreaterChains
<1> QED BY <1>2, <1>3, <1>5, <1>6, <1>7 DEF SplitKey, KeysFit

\* The keys that go to a place are those that went there before.
SameKeys(h, N2, a, j, heap, N, b, s) ==
  {x \in N2[a] : Goes(h[a], j, x)} = {x \in N[b] : Goes(heap[b], s, x)}
NatHeap(heap) == \A d \in DOMAIN heap : d \in Nat

LEMMA PlaceKeepsSpan ==
  ASSUME NEW K, K \subseteq KeyType, NEW heap, NEW p, NEW i, NEW h, NEW fresh, NEW c, NEW m, NEW l, NEW r,
         SplitShape(K, heap, p, i, h, fresh, c, m, l, r), Full(heap[c]),
         NEW N, N \in Spans, NEW k, SplitKey(heap, p, i, c, k, N),
         NEW N2, N2 = Halve(N, c, fresh, k),
         NEW a \in DOMAIN h, NEW j \in Int, NEW b \in DOMAIN heap, NEW s,
         MovedFrom(heap, p, i, fresh, c, r, a, j, b, s), ~(b = p /\ s = i), NatHeap(heap)
  PROVE  SameKeys(h, N2, a, j, heap, N, b, s)
<1> USE DEF NatHeap, SameKeys
<1> DEFINE q == heap[p]
           n == heap[c]
<1>1. /\ DOMAIN h = DOMAIN heap \cup {fresh} /\ fresh \notin DOMAIN heap /\ fresh \in Nat
      /\ p \in DOMAIN heap /\ c \in DOMAIN heap /\ c # p /\ c \in Nat /\ p \in Nat
      /\ h[p] = m /\ h[c] = l /\ h[fresh] = r
      /\ \A d \in DOMAIN heap \ {p, c} : h[d] = heap[d]
      /\ q \in NodeType(K) /\ NodeLengths(q) /\ n \in NodeType(K) /\ NodeLengths(n)
      /\ Adopted(K, q, i, k, fresh, m) /\ Parted(K, n, l, r)
  BY DEF SplitShape, SplitKey
<1>2. /\ N2[c] = {x \in N[c] : ~Greater(x, k)} /\ N2[fresh] = {x \in N[c] : Greater(x, k)}
      /\ \A d \in Nat \ {c, fresh} : N2[d] = N[d]
  BY <1>1, HalveFacts
<1>3. /\ N[p] \subseteq KeyType /\ N[c] \subseteq KeyType /\ k = n.keys[MinDegree]
      /\ Goes(q, i, k) /\ (i <= Len(q.keys) => Greater(q.keys[i], k)) /\ k \in K
      /\ Rising(n.keys)
  BY <1>1 DEF SplitKey, Parted
<1>4. Full(n)
  OBVIOUS
<1> HIDE DEF q, n
<1>5. \A x \in N[p] : Divided(q, i, k, m, x)
  BY <1>1, <1>3, AdoptDivides
<1>6. \A x \in N[c] : Shared(n, l, r, x)
  BY <1>1, <1>3, <1>4, PartShares
<1>7. CASE a \notin {p, c, fresh}
  <2>1. b = a /\ s = j /\ h[a] = heap[a] /\ N2[a] = N[a]
    BY <1>1, <1>2, <1>7 DEF MovedFrom
  <2> QED BY <2>1
<1>8. CASE a = c
  <2>1. b = c /\ s = j /\ j \in 1..MinDegree
    BY <1>1, <1>8 DEF MovedFrom
  <2>2. \A x \in N[c] : Goes(l, j, x) /\ ~Greater(x, k) <=> Goes(n, j, x)
    BY <1>3, <1>6, <2>1 DEF Shared
  <2>3. {x \in N2[c] : Goes(l, j, x)} = {x \in N[c] : Goes(n, j, x)}
    BY <1>2, <2>2
  <2> QED BY <1>1, <1>8, <2>1, <2>3 DEF n
<1>9. CASE a = fresh
  <2>1. b = c /\ s = MinDegree + j /\ j \in DOMAIN r.children
    BY <1>1, <1>9 DEF MovedFrom
  <2>2. \A x \in N[c] : Goes(r, j, x) /\ Greater(x, k) <=> Goes(n, s, x)
    BY <1>3, <1>6, <2>1 DEF Shared
  <2>3. {x \in N2[fresh] : Goes(r, j, x)} = {x \in N[c] : Goes(n, s, x)}
    BY <1>2, <2>2
  <2> QED BY <1>1, <1>9, <2>1, <2>3 DEF n
<1>10. CASE a = p
  <2>1. N2[p] = N[p] /\ h[a] = m
    BY <1>1, <1>2, <1>10
  <2>2. b = p /\ \/ s = j /\ j \in 1..i
                 \/ s = j - 1 /\ j \in i + 2..Len(q.children) + 1
    BY <1>1, <1>10 DEF MovedFrom, q
  <2>3. \A x \in N[p] : Goes(m, j, x) <=> Goes(q, s, x)
    <3>1. CASE s = j /\ j \in 1..i
      <4>1. i \in Int
        <5>1. i \in 1..Len(q.keys) + 1 /\ Len(q.keys) \in Nat
          BY <1>1 DEF Adopted
        <5> QED BY <5>1, SMT
      <4>2. j \in 1..i - 1
        BY <2>2, <3>1, <4>1, SMT
      <4> QED BY <1>5, <3>1, <4>2 DEF Divided
    <3>2. CASE s = j - 1 /\ j \in i + 2..Len(q.children) + 1
      BY <1>5, <3>2 DEF Divided
    <3> QED BY <2>2, <3>1, <3>2
  <2> QED BY <1>10, <2>1, <2>2, <2>3 DEF q
<1> QED BY <1>7, <1>8, <1>9, <1>10

\* The keys of each node are in its span.
LEMMA SplitKeysFit ==
  ASSUME NEW K, K \subseteq KeyType, NEW heap, NEW p, NEW i, NEW h, NEW fresh, NEW c, NEW m, NEW l, NEW r,
         SplitShape(K, heap, p, i, h, fresh, c, m, l, r), Full(heap[c]),
         NEW N, NEW L, NEW P, Ordered(heap, N, L, P),
         NEW k, SplitKey(heap, p, i, c, k, N),
         NEW N2, N2 = Halve(N, c, fresh, k), \A d \in DOMAIN heap : d \in Nat
  PROVE  \A a \in DOMAIN h : KeysFit(h, N2, a)
<1> DEFINE q == heap[p]
           n == heap[c]
<1>1. /\ DOMAIN h = DOMAIN heap \cup {fresh} /\ fresh \notin DOMAIN heap /\ fresh \in Nat
      /\ p \in DOMAIN heap /\ c \in DOMAIN heap /\ c # p /\ c \in Nat /\ p \in Nat
      /\ h[p] = m /\ h[c] = l /\ h[fresh] = r
      /\ \A d \in DOMAIN heap \ {p, c} : h[d] = heap[d]
      /\ q \in NodeType(K) /\ NodeLengths(q) /\ n \in NodeType(K) /\ NodeLengths(n)
      /\ Adopted(K, q, i, k, fresh, m) /\ Parted(K, n, l, r)
  BY DEF SplitShape, SplitKey
<1>2. N \in Spans /\ \A a \in DOMAIN heap : KeysFit(heap, N, a)
  BY DEF Ordered
<1>3. /\ N2[c] = {x \in N[c] : ~Greater(x, k)} /\ N2[fresh] = {x \in N[c] : Greater(x, k)}
      /\ \A d \in Nat \ {c, fresh} : N2[d] = N[d]
  BY <1>1, <1>2, HalveFacts
<1>4. /\ k = n.keys[MinDegree] /\ k \in N[p]
      /\ Goes(q, i, k) /\ (i <= Len(q.keys) => Greater(q.keys[i], k)) /\ k \in K
      /\ Rising(n.keys) /\ Rising(q.keys)
  BY <1>1 DEF SplitKey, Parted
<1>5. Full(n)
  OBVIOUS
<1>6. /\ \A j \in DOMAIN n.keys : n.keys[j] \in N[c]
      /\ \A j \in DOMAIN q.keys : q.keys[j] \in N[p]
  BY <1>1, <1>2 DEF KeysFit
<1> HIDE DEF q, n
<1>7. KeysFit(h, N2, p)
  <2>1. Rising(m.keys) /\ \A j \in DOMAIN m.keys : m.keys[j] = k \/ \E s \in DOMAIN q.keys : m.keys[j] = q.keys[s]
    BY <1>1, <1>4, AdoptRises
  <2> QED BY <1>1, <1>3, <1>4, <1>6, <2>1 DEF KeysFit
<1>8. KeysFit(h, N2, c) /\ KeysFit(h, N2, fresh)
  <2>1. /\ Rising(l.keys) /\ Rising(r.keys)
        /\ \A j \in DOMAIN l.keys : j \in DOMAIN n.keys /\ l.keys[j] = n.keys[j] /\ ~Greater(l.keys[j], k)
        /\ \A j \in DOMAIN r.keys : MinDegree + j \in DOMAIN n.keys /\ r.keys[j] = n.keys[MinDegree + j]
                                    /\ Greater(r.keys[j], k)
    BY <1>1, <1>4, <1>5, PartRises
  <2> QED BY <1>1, <1>3, <1>6, <2>1 DEF KeysFit
<1>9. ASSUME NEW a \in DOMAIN heap \ {p, c} PROVE KeysFit(h, N2, a)
  <2>1. h[a] = heap[a] /\ N2[a] = N[a]
    BY <1>1, <1>3
  <2> QED BY <1>2, <2>1 DEF KeysFit
<1> QED BY <1>1, <1>7, <1>8, <1>9

\* splitInternalNode: the heap stays in order, the span of the child is halved.
LEMMA SplitOrders ==
  ASSUME NEW K, K \subseteq KeyType, NEW Q, NEW heap, SoundHeap(heap, K, Q),
         NEW p \in Inner(heap), NEW i \in DOMAIN heap[p].children,
         NEW c, c = heap[p].children[i], Full(heap[c]),
         NEW h, h = SplitInternalNode(heap, p, i), NEW fresh, fresh = Len(heap) + 1,
         NEW N, NEW L, NEW P, Ordered(heap, N, L, P),
         NEW N2, N2 = Halve(N, c, fresh, heap[c].keys[MinDegree])
  PROVE  Ordered(h, N2, L, P)
<1>1. PICK m, l, r : SplitShape(K, heap, p, i, h, fresh, c, m, l, r)
  BY SplitHasShape
<1> PICK k : k = heap[c].keys[MinDegree]
  OBVIOUS
<1>2. SplitKey(heap, p, i, c, k, N)
  BY <1>1, SplitKeyFits
<1>3. /\ DOMAIN h = DOMAIN heap \cup {fresh} /\ fresh \notin DOMAIN heap /\ fresh \in Nat
      /\ p \in DOMAIN heap /\ c \in DOMAIN heap /\ c # p /\ c \in Nat /\ p \in Nat
      /\ heap[p].type = 1
      /\ h[p] = m /\ h[c] = l /\ h[fresh] = r
      /\ heap[p] \in NodeType(K) /\ NodeLengths(heap[p])
      /\ Adopted(K, heap[p], i, k, fresh, m)
  BY <1>1 DEF SplitShape
<1>4. /\ N \in Spans /\ L \in Spans /\ N2 \in Spans
      /\ N2[c] = {x \in N[c] : ~Greater(x, k)} /\ N2[fresh] = {x \in N[c] : Greater(x, k)}
      /\ \A d \in Nat \ {c, fresh} : N2[d] = N[d]
  <2>1. N \in Spans /\ L \in Spans
    BY DEF Ordered
  <2> QED BY <1>3, <2>1, HalveFacts, SMTT(60)
<1>5. \A d \in DOMAIN heap : d \in Nat
  BY HeapFacts, SMT
<1>6. \A a \in DOMAIN h : KeysFit(h, N2, a)
  BY <1>1, <1>2, <1>5, SplitKeysFit
<1>7. ASSUME NEW a \in DOMAIN h, NEW j \in DOMAIN h[a].children PROVE j \in Int
  <2>1. h[a] \in NodeType(K)
    <3>1. \A b \in DOMAIN heap : heap[b] \in NodeType(K)
      BY HeapFacts
    <3>2. m \in NodeType(K) /\ l \in NodeType(K) /\ r \in NodeType(K)
      BY <1>1 DEF SplitShape, Adopted, Parted
    <3> QED BY <1>1, <3>1, <3>2 DEF SplitShape
  <2>2. h[a].children \in Seq(Nat)
    BY <2>1 DEF NodeType
  <2> QED BY <2>2, SMT
<1>8. /\ m.type = 1 /\ i \in Nat /\ m.children[i + 1] = fresh /\ m.children[i] = c
  <2>1. /\ m.type = heap[p].type /\ i \in 1..Len(heap[p].keys) + 1 /\ Len(heap[p].keys) \in Nat
        /\ m.children[i + 1] = fresh /\ \A x \in 1..i : m.children[x] = heap[p].children[x]
    BY <1>3 DEF Adopted
  <2>2. i \in Nat /\ i \in 1..i
    BY <2>1, SMT
  <2> QED BY <1>3, <2>1, <2>2
\* Children of nodes over nodes are nodes, and the one that is split hangs once.
<1>9. ASSUME NEW b \in DOMAIN heap, NEW s \in DOMAIN heap[b].children, heap[b].type = 1
      PROVE  heap[b].children[s] \in DOMAIN heap /\ (heap[b].children[s] = c => b = p /\ s = i)
  <2>1. b \in Inner(heap)
    BY <1>9 DEF Inner
  <2>2. heap[b].children[s] \in DOMAIN heap
    BY <2>1 DEF SoundHeap, ChildAt
  <2>3. heap[b].children[s] = c => b = p /\ s = i
    BY <1>3, <1>9, OrderedOnce
  <2> QED BY <2>2, <2>3
\* The place of the right half, that of the left half, and the others.
<1>11. ChildFits(h, N2, L, P, p, i + 1) /\ ChildFits(h, N2, L, P, p, i)
  <2>1. \A x \in N[p] : Divided(heap[p], i, k, m, x)
    <3>1. k \in K
      BY <1>1 DEF SplitShape, Parted
    <3>2. /\ N[p] \subseteq KeyType /\ Goes(heap[p], i, k)
          /\ i <= Len(heap[p].keys) => Greater(heap[p].keys[i], k)
      BY <1>2 DEF SplitKey
    <3> QED BY <1>3, <3>1, <3>2, AdoptDivides
  <2>2. /\ N[c] = {x \in N[p] : Goes(heap[p], i, x)} /\ N2[p] = N[p]
    BY <1>2, <1>3, <1>4 DEF SplitKey
  <2>3. \A x \in N[p] : /\ Goes(m, i, x) <=> Goes(heap[p], i, x) /\ ~Greater(x, k)
                        /\ Goes(m, i + 1, x) <=> Goes(heap[p], i, x) /\ Greater(x, k)
    BY <2>1 DEF Divided
  <2>4. /\ N2[c] = {x \in N2[p] : Goes(m, i, x)}
        /\ N2[fresh] = {x \in N2[p] : Goes(m, i + 1, x)}
    BY <1>4, <2>2, <2>3
  <2>5. h[p] = m /\ h[p].type = 1 /\ h[p].children[i + 1] = fresh /\ h[p].children[i] = c
    BY <1>3, <1>8
  <2>6. h[p].type # 2
    BY <2>5, SMT
  <2>7. ChildSpan(h, N2, L, p, i + 1) = N2[fresh] /\ ChildSpan(h, N2, L, p, i) = N2[c]
    BY <2>5 DEF ChildSpan
  <2> QED BY <2>4, <2>5, <2>6, <2>7 DEF ChildFits
<1>12. ASSUME NEW a \in DOMAIN h, NEW j \in DOMAIN h[a].children, ~(a = p /\ j = i + 1), ~(a = p /\ j = i)
       PROVE  ChildFits(h, N2, L, P, a, j) /\ (h[a].type = 1 => h[a].children[j] \notin {fresh, c})
  <2>1. PICK b \in DOMAIN heap : \E s \in DOMAIN heap[b].children :
           /\ MovedFrom(heap, p, i, fresh, c, r, a, j, b, s)
           /\ h[a].children[j] = heap[b].children[s] /\ h[a].type = heap[b].type
    BY <1>1, <1>12, PlaceMoved
  <2>2. PICK s \in DOMAIN heap[b].children :
           /\ MovedFrom(heap, p, i, fresh, c, r, a, j, b, s)
           /\ h[a].children[j] = heap[b].children[s] /\ h[a].type = heap[b].type
    BY <2>1
  <2>3. ~(b = p /\ s = i)
    <3>1. SUFFICES ASSUME b = p, s = i PROVE FALSE
      OBVIOUS
    <3>2. a = p /\ \/ j = i
                   \/ j - 1 = i /\ j \in i + 2..Len(heap[p].children) + 1
      BY <1>3, <2>2, <3>1 DEF MovedFrom
    <3>3. j # i /\ j \in Int
      BY <1>7, <1>12, <3>2
    <3> QED BY <1>8, <3>2, <3>3, SMT
  <2>4. SameKeys(h, N2, a, j, heap, N, b, s)
    <3>1. j \in Int /\ N \in Spans
      BY <1>4, <1>7
    <3>2. N2 = Halve(N, c, fresh, k)
      OBVIOUS
    <3>3. MovedFrom(heap, p, i, fresh, c, r, a, j, b, s)
      BY <2>2
    <3>4. Full(heap[c])
      OBVIOUS
    <3>5. NatHeap(heap)
      BY <1>5 DEF NatHeap
    <3> QED BY <1>1, <1>2, <2>3, <3>1, <3>2, <3>3, <3>4, <3>5, PlaceKeepsSpan
  <2>5. ChildFits(heap, N, L, P, b, s)
    BY DEF Ordered
  <2>6. ASSUME heap[b].type = 1
        PROVE  heap[b].children[s] \notin {fresh, c} /\ N2[heap[b].children[s]] = N[heap[b].children[s]]
    BY <1>3, <1>4, <1>5, <1>9, <2>3, <2>6, SMTT(60)
  <2> QED BY <2>2, <2>4, <2>5, <2>6 DEF ChildFits, ChildSpan, SameKeys
<1>13. ASSUME NEW a \in DOMAIN h, NEW j \in DOMAIN h[a].children PROVE ChildFits(h, N2, L, P, a, j)
  BY <1>11, <1>12
<1>14. ASSUME NEW a \in DOMAIN h, NEW d \in DOMAIN h, NEW j \in DOMAIN h[a].children,
              NEW t \in DOMAIN h[d].children, h[a].type = h[d].type, h[a].children[j] = h[d].children[t]
       PROVE  a = d /\ j = t
  <2>1. CASE a = p /\ (j = i + 1 \/ j = i)
    <3>1. h[d].type = 1 /\ h[a].children[j] \in {fresh, c}
      BY <1>3, <1>8, <1>14, <2>1
    <3>2. d = p /\ (t = i + 1 \/ t = i)
      BY <1>12, <1>14, <3>1
    <3> QED BY <1>3, <1>8, <1>14, <2>1, <3>2
  <2>2. CASE d = p /\ (t = i + 1 \/ t = i)
    <3>1. h[a].type = 1 /\ h[d].children[t] \in {fresh, c}
      BY <1>3, <1>8, <1>14, <2>2
    <3>2. a = p /\ (j = i + 1 \/ j = i)
      BY <1>12, <1>14, <3>1
    <3> QED BY <1>3, <1>8, <1>14, <2>2, <3>2
  <2>3. CASE ~(a = p /\ j = i + 1) /\ ~(d = p /\ t = i + 1)
    <3>1. PICK b \in DOMAIN heap : \E s \in DOMAIN heap[b].children :
             /\ MovedFrom(heap, p, i, fresh, c, r, a, j, b, s)
             /\ h[a].children[j] = heap[b].children[s] /\ h[a].type = heap[b].type
      BY <1>1, <2>3, PlaceMoved
    <3>2. PICK s \in DOMAIN heap[b].children :
             /\ MovedFrom(heap, p, i, fresh, c, r, a, j, b, s)
             /\ h[a].children[j] = heap[b].children[s] /\ h[a].type = heap[b].type
      BY <3>1
    <3>3. PICK e \in DOMAIN heap : \E u \in DOMAIN heap[e].children :
             /\ MovedFrom(heap, p, i, fresh, c, r, d, t, e, u)
             /\ h[d].children[t] = heap[e].children[u] /\ h[d].type = heap[e].type
      BY <1>1, <2>3, PlaceMoved
    <3>4. PICK u \in DOMAIN heap[e].children :
             /\ MovedFrom(heap, p, i, fresh, c, r, d, t, e, u)
             /\ h[d].children[t] = heap[e].children[u] /\ h[d].type = heap[e].type
      BY <3>3
    <3>5. heap[b].type = heap[e].type /\ heap[b].children[s] = heap[e].children[u]
      BY <1>14, <3>2, <3>4
    <3>6. b = e /\ s = u
      BY <3>5, OrderedOnce
    <3>7. j \in Int /\ t \in Int
      BY <1>7
    <3> QED BY <1>1, <3>2, <3>4, <3>6, <3>7, MovedOnce
  <2> QED BY <2>1, <2>2, <2>3
<1>15. \A a, d \in DOMAIN h : \A j \in DOMAIN h[a].children, t \in DOMAIN h[d].children :
         SamePlace(h, a, j, d, t)
  BY <1>14 DEF SamePlace
<1>16. \A a \in DOMAIN h : \A j \in DOMAIN h[a].children : ChildFits(h, N2, L, P, a, j)
  BY <1>13
<1> QED BY <1>4, <1>6, <1>15, <1>16, Zenon DEF Ordered
-----------------------------------------------------------------------------
(* One more leaf, and one more parent                                      *)

\* Where a place of the heap with one more leaf was before.
Kept(n, a, i, b, j, s) ==
  \/ b # a /\ s = j
  \/ b = a /\ s = j /\ j \in 1..i
  \/ b = a /\ s = j - 1 /\ j \in i + 2..Len(n.children) + 1

\* What splitLeafNode makes of a heap.
AdoptShape(K, heap, a, i, k, page, h, m) ==
  /\ DOMAIN h = DOMAIN heap /\ a \in DOMAIN heap /\ h[a] = m /\ m.type = 2 /\ heap[a].type = 2
  /\ \A b \in DOMAIN heap \ {a} : h[b] = heap[b]
  /\ heap[a] \in NodeType(K) /\ NodeLengths(heap[a]) /\ i \in DOMAIN heap[a].children
  /\ Adopted(K, heap[a], i, k, page, m)

LEMMA AdoptHasShape ==
  ASSUME NEW K, NEW Q, NEW heap, SoundHeap(heap, K, Q), NEW a \in DOMAIN heap, heap[a].type = 2,
         NEW i \in DOMAIN heap[a].children, NEW k \in K, NEW page \in Nat,
         NEW h, h = [heap EXCEPT ![a] = Adopt(@, i, k, page)]
  PROVE  \E m : AdoptShape(K, heap, a, i, k, page, h, m)
<1>1. PICK m : m = Adopt(heap[a], i, k, page)
  OBVIOUS
<1>2. heap \in Seq(NodeType(K)) /\ heap[a] \in NodeType(K) /\ NodeLengths(heap[a])
  BY HeapFacts
<1>3. Adopted(K, heap[a], i, k, page, m)
  BY <1>1, <1>2, AdoptFacts
<1>4. DOMAIN h = DOMAIN heap /\ h[a] = m /\ \A b \in DOMAIN heap \ {a} : h[b] = heap[b]
  BY <1>1
<1>5. m.type = 2
  BY <1>3 DEF Adopted
<1> QED BY <1>2, <1>3, <1>4, <1>5 DEF AdoptShape

LEMMA PlaceKept ==
  ASSUME NEW K, NEW heap, NEW a, NEW i, NEW k, NEW page, NEW h, NEW m,
         AdoptShape(K, heap, a, i, k, page, h, m),
         NEW b \in DOMAIN h, NEW j \in DOMAIN h[b].children, ~(b = a /\ j = i + 1)
  PROVE  \E s \in DOMAIN heap[b].children :
           Kept(heap[a], a, i, b, j, s) /\ h[b].children[j] = heap[b].children[s]
<1>1. /\ DOMAIN h = DOMAIN heap /\ a \in DOMAIN heap /\ h[a] = m
      /\ \A d \in DOMAIN heap \ {a} : h[d] = heap[d]
      /\ Adopted(K, heap[a], i, k, page, m)
  BY DEF AdoptShape
<1>2. CASE b # a
  BY <1>1, <1>2 DEF Kept
<1>3. CASE b = a
  <2>1. PICK n : n = heap[a]
    OBVIOUS
  <2>2. /\ DOMAIN m.children = 1..Len(n.children) + 1 /\ DOMAIN n.children = 1..Len(n.children)
        /\ Len(n.keys) \in Nat /\ Len(n.children) \in Nat /\ i \in 1..Len(n.keys) + 1
        /\ \A x \in 1..i : m.children[x] = n.children[x]
        /\ \A x \in i + 2..Len(n.children) + 1 : m.children[x] = n.children[x - 1]
    BY <1>1, <2>1 DEF Adopted
  <2>3. i \in DOMAIN n.children
    BY <2>1 DEF AdoptShape
  <2>4. j \in 1..Len(n.children) + 1 /\ j # i + 1
    BY <1>1, <1>3, <2>2
  <2>5. CASE j \in 1..i
    <3>1. j \in DOMAIN n.children
      BY <2>2, <2>3, <2>5, SMT
    <3> QED BY <1>1, <1>3, <2>1, <2>2, <2>5, <3>1 DEF Kept
  <2>6. CASE j \in i + 2..Len(n.children) + 1
    <3>1. j - 1 \in DOMAIN n.children
      BY <2>2, <2>3, <2>6, SMT
    <3> QED BY <1>1, <1>3, <2>1, <2>2, <2>6, <3>1 DEF Kept
  <2>7. j \in 1..i \/ j \in i + 2..Len(n.children) + 1
    BY <2>2, <2>4, SMT
  <2> QED BY <2>5, <2>6, <2>7
<1> QED BY <1>2, <1>3

LEMMA KeptOnce ==
  ASSUME NEW K, NEW heap, NEW a, NEW i, NEW k, NEW page, NEW h, NEW m,
         AdoptShape(K, heap, a, i, k, page, h, m),
         NEW b, NEW j \in Int, NEW t \in Int, NEW s,
         Kept(heap[a], a, i, b, j, s), Kept(heap[a], a, i, b, t, s)
  PROVE  j = t
<1>1. PICK size \in Nat : size = Len(heap[a].children)
  BY DEF AdoptShape, Adopted
<1>2. i \in Int
  <2>1. i \in 1..Len(heap[a].keys) + 1 /\ Len(heap[a].keys) \in Nat
    BY DEF AdoptShape, Adopted
  <2> QED BY <2>1, SMT
<1>3. /\ \/ b # a /\ s = j
         \/ b = a /\ s = j /\ j \in 1..i
         \/ b = a /\ s = j - 1 /\ j \in i + 2..size + 1
      /\ \/ b # a /\ s = t
         \/ b = a /\ s = t /\ t \in 1..i
         \/ b = a /\ s = t - 1 /\ t \in i + 2..size + 1
  BY <1>1 DEF Kept
<1> QED BY <1>1, <1>2, <1>3, SMT

LEMMA ShapeOrders ==
  ASSUME NEW K, K \subseteq KeyType, NEW Q, NEW heap, SoundHeap(heap, K, Q),
         NEW a \in DOMAIN heap, NEW i \in DOMAIN heap[a].children, NEW k \in K, NEW page \in Nat,
         NEW h, NEW m, AdoptShape(K, heap, a, i, k, page, h, m), heap[a].type = 2,
         NEW N, NEW L, NEW P, Ordered(heap, N, L, P), P \subseteq Nat, page \notin P,
         NEW c, c = heap[a].children[i], k \in L[c],
         i <= Len(heap[a].keys) => Greater(heap[a].keys[i], k),
         NEW L2, L2 = Halve(L, c, page, k)
  PROVE  Ordered(h, N, L2, P \cup {page})
<1>1. AdoptShape(K, heap, a, i, k, page, h, m)
  OBVIOUS
<1>2. /\ DOMAIN h = DOMAIN heap /\ h[a] = m /\ m.type = 2
      /\ \A b \in DOMAIN heap \ {a} : h[b] = heap[b]
      /\ heap[a] \in NodeType(K) /\ NodeLengths(heap[a])
      /\ Adopted(K, heap[a], i, k, page, m)
  BY <1>1 DEF AdoptShape
<1>3. N \in Spans /\ L \in Spans /\ KeysFit(heap, N, a) /\ ChildFits(heap, N, L, P, a, i)
  BY OrderedFacts
<1>4. /\ L[c] = {x \in N[a] : Goes(heap[a], i, x)} /\ c \in P /\ c \in Nat /\ c # page
  <2>1. ChildSpan(heap, N, L, a, i) = {x \in N[a] : Goes(heap[a], i, x)} /\ c \in P
    BY <1>3 DEF ChildFits
  <2>2. ChildSpan(heap, N, L, a, i) = L[c]
    BY DEF ChildSpan
  <2> QED BY <2>1, <2>2
<1>5. /\ k \in N[a] /\ N[a] \subseteq KeyType /\ Goes(heap[a], i, k) /\ Rising(heap[a].keys)
      /\ a \in Nat
  <2>1. a \in Nat
    BY HeapFacts, SMT
  <2>2. N[a] \subseteq KeyType
    BY <1>3, <2>1 DEF Spans
  <2> QED BY <1>3, <1>4, <2>1, <2>2 DEF KeysFit
<1>6. /\ L2 \in Spans
      /\ L2[c] = {x \in L[c] : ~Greater(x, k)} /\ L2[page] = {x \in L[c] : Greater(x, k)}
      /\ \A d \in Nat \ {c, page} : L2[d] = L[d]
  BY <1>3, <1>4, HalveFacts
<1>7. \A b \in DOMAIN h : KeysFit(h, N, b)
  <2>1. Rising(m.keys) /\ \A j \in DOMAIN m.keys : m.keys[j] = k \/ \E s \in DOMAIN heap[a].keys : m.keys[j] = heap[a].keys[s]
    BY <1>2, <1>5, AdoptRises
  <2>2. KeysFit(h, N, a)
    BY <1>2, <1>3, <1>5, <2>1 DEF KeysFit
  <2>3. ASSUME NEW b \in DOMAIN heap \ {a} PROVE KeysFit(h, N, b)
    <3>1. h[b] = heap[b] /\ KeysFit(heap, N, b)
      BY <1>2, OrderedFacts
    <3> QED BY <3>1 DEF KeysFit
  <2> QED BY <1>2, <2>2, <2>3
<1>8. \A x \in N[a] : Divided(heap[a], i, k, m, x)
  BY <1>2, <1>5, AdoptDivides
<1>9. ChildFits(h, N, L2, P \cup {page}, a, i + 1) /\ ChildFits(h, N, L2, P \cup {page}, a, i)
  <2>1. m.children[i + 1] = page /\ m.children[i] = c
    <3>1. /\ i \in 1..Len(heap[a].keys) + 1 /\ Len(heap[a].keys) \in Nat
          /\ m.children[i + 1] = page /\ \A x \in 1..i : m.children[x] = heap[a].children[x]
      BY <1>2 DEF Adopted
    <3>2. i \in 1..i
      BY <3>1, SMT
    <3> QED BY <3>1, <3>2
  <2>2. \A x \in N[a] : /\ Goes(m, i, x) <=> Goes(heap[a], i, x) /\ ~Greater(x, k)
                        /\ Goes(m, i + 1, x) <=> Goes(heap[a], i, x) /\ Greater(x, k)
    BY <1>8 DEF Divided
  <2>3. /\ L2[c] = {x \in N[a] : Goes(m, i, x)}
        /\ L2[page] = {x \in N[a] : Goes(m, i + 1, x)}
    BY <1>4, <1>6, <2>2
  <2> QED BY <1>2, <1>4, <2>1, <2>3 DEF ChildFits, ChildSpan
<1>10. ASSUME NEW b \in DOMAIN h, NEW j \in DOMAIN h[b].children PROVE j \in Int
  <2>1. h[b] \in NodeType(K)
    <3>1. heap[b] \in NodeType(K)
      BY <1>2, HeapFacts
    <3>2. m \in NodeType(K)
      BY <1>2 DEF Adopted
    <3> QED BY <1>2, <3>1, <3>2
  <2>2. h[b].children \in Seq(Nat)
    BY <2>1 DEF NodeType
  <2> QED BY <2>2, SMT
<1>11. i \in Int
  <2>1. i \in 1..Len(heap[a].keys) + 1 /\ Len(heap[a].keys) \in Nat
    BY <1>2 DEF Adopted
  <2> QED BY <2>1, SMT
<1>12. ASSUME NEW b \in DOMAIN h, NEW j \in DOMAIN h[b].children, ~(b = a /\ j = i + 1), ~(b = a /\ j = i)
       PROVE  /\ ChildFits(h, N, L2, P \cup {page}, b, j)
              /\ h[b].type = 2 => h[b].children[j] \notin {page, c}
  <2>1. PICK s \in DOMAIN heap[b].children :
          Kept(heap[a], a, i, b, j, s) /\ h[b].children[j] = heap[b].children[s]
    BY <1>1, <1>12, PlaceKept
  <2>2. ChildFits(heap, N, L, P, b, s) /\ h[b].type = heap[b].type /\ b \in DOMAIN heap
    BY <1>2, <1>12, OrderedFacts
  <2>3. ~(b = a /\ s = i)
    <3>1. SUFFICES ASSUME b = a, s = i PROVE FALSE
      OBVIOUS
    <3>2. i = j \/ (i = j - 1 /\ j \in i + 2..Len(heap[a].children) + 1)
      BY <2>1, <3>1 DEF Kept
    <3>3. j # i /\ j # i + 1 /\ j \in Int
      BY <1>10, <1>12, <3>1
    <3> QED BY <1>11, <3>2, <3>3, SMT
  <2>4. {x \in N[b] : Goes(h[b], j, x)} = {x \in N[b] : Goes(heap[b], s, x)}
    <3>1. CASE b # a
      BY <1>2, <2>1, <3>1 DEF Kept
    <3>2. CASE b = a /\ s = j /\ j \in 1..i
      <4>1. j \in 1..i - 1
        BY <1>10, <1>11, <1>12, <3>2, SMT
      <4>2. \A x \in N[a] : Goes(m, j, x) <=> Goes(heap[a], s, x)
        BY <1>8, <3>2, <4>1 DEF Divided
      <4> QED BY <1>2, <3>2, <4>2
    <3>3. CASE b = a /\ s = j - 1 /\ j \in i + 2..Len(heap[a].children) + 1
      <4>1. \A x \in N[a] : Goes(m, j, x) <=> Goes(heap[a], s, x)
        BY <1>8, <3>3 DEF Divided
      <4> QED BY <1>2, <3>3, <4>1
    <3> QED BY <2>1, <3>1, <3>2, <3>3 DEF Kept
  <2>5. ASSUME heap[b].type = 2
        PROVE  /\ heap[b].children[s] \in P /\ heap[b].children[s] \notin {page, c}
               /\ L2[heap[b].children[s]] = L[heap[b].children[s]]
    <3>1. heap[b].children[s] \in P
      BY <2>2, <2>5 DEF ChildFits
    <3>2. heap[b].children[s] # c
      BY <2>2, <2>3, <2>5, OrderedOnce
    <3> QED BY <1>6, <3>1, <3>2
  <2>6. ChildSpan(heap, N, L, b, s) = {x \in N[b] : Goes(heap[b], s, x)}
    BY <2>2 DEF ChildFits
  <2>7. ChildSpan(h, N, L2, b, j) = ChildSpan(heap, N, L, b, s)
    <3>1. CASE heap[b].type = 2
      BY <2>1, <2>2, <2>5, <3>1 DEF ChildSpan
    <3>2. CASE heap[b].type # 2
      <4>1. heap[b].type = 1
        <5>1. heap[b] \in NodeType(K)
          BY <2>2, HeapFacts
        <5> QED BY <3>2, <5>1 DEF NodeType
      <4> QED BY <2>1, <2>2, <4>1 DEF ChildSpan
    <3> QED BY <3>1, <3>2
  <2>8. h[b].type = 2 => h[b].children[j] \in P \cup {page} /\ h[b].children[j] \notin {page, c}
    BY <2>1, <2>2, <2>5
  <2> QED BY <2>4, <2>6, <2>7, <2>8 DEF ChildFits
<1>13. \A b \in DOMAIN h : \A j \in DOMAIN h[b].children : ChildFits(h, N, L2, P \cup {page}, b, j)
  BY <1>9, <1>12
<1>14. m.children[i + 1] = page /\ m.children[i] = c
  <2>1. /\ i \in 1..Len(heap[a].keys) + 1 /\ Len(heap[a].keys) \in Nat
        /\ m.children[i + 1] = page /\ \A x \in 1..i : m.children[x] = heap[a].children[x]
    BY <1>2 DEF Adopted
  <2>2. i \in 1..i
    BY <2>1, SMT
  <2> QED BY <2>1, <2>2
<1>15. ASSUME NEW b \in DOMAIN h, NEW d \in DOMAIN h, NEW j \in DOMAIN h[b].children,
              NEW t \in DOMAIN h[d].children, h[b].type = h[d].type, h[b].children[j] = h[d].children[t]
       PROVE  b = d /\ j = t
  <2>1. CASE b = a /\ (j = i + 1 \/ j = i)
    <3>1. h[d].type = 2 /\ h[b].children[j] \in {page, c}
      BY <1>2, <1>14, <1>15, <2>1
    <3>2. d = a /\ (t = i + 1 \/ t = i)
      BY <1>12, <1>15, <3>1
    <3> QED BY <1>2, <1>4, <1>14, <1>15, <2>1, <3>2
  <2>2. CASE d = a /\ (t = i + 1 \/ t = i)
    <3>1. h[b].type = 2 /\ h[d].children[t] \in {page, c}
      BY <1>2, <1>14, <1>15, <2>2
    <3>2. b = a /\ (j = i + 1 \/ j = i)
      BY <1>12, <1>15, <3>1
    <3> QED BY <1>2, <1>4, <1>14, <1>15, <2>2, <3>2
  <2>3. CASE ~(b = a /\ j = i + 1) /\ ~(d = a /\ t = i + 1)
    <3>1. PICK s \in DOMAIN heap[b].children :
            Kept(heap[a], a, i, b, j, s) /\ h[b].children[j] = heap[b].children[s]
      BY <1>1, <2>3, PlaceKept
    <3>2. PICK u \in DOMAIN heap[d].children :
            Kept(heap[a], a, i, d, t, u) /\ h[d].children[t] = heap[d].children[u]
      BY <1>1, <2>3, PlaceKept
    <3>3. heap[b].type = heap[d].type /\ b \in DOMAIN heap /\ d \in DOMAIN heap
      BY <1>2, <1>15
    <3>4. b = d /\ s = u
      <4>1. heap[b].children[s] = heap[d].children[u]
        BY <1>15, <3>1, <3>2
      <4> QED BY <3>3, <4>1, OrderedOnce
    <3>5. j \in Int /\ t \in Int
      BY <1>10
    <3>6. Kept(heap[a], a, i, b, j, s) /\ Kept(heap[a], a, i, b, t, s)
      BY <3>1, <3>2, <3>4
    <3>7. j = t
      BY <1>1, <3>5, <3>6, KeptOnce
    <3> QED BY <3>4, <3>7
  <2> QED BY <2>1, <2>2, <2>3
<1>16. \A b, d \in DOMAIN h : \A j \in DOMAIN h[b].children, t \in DOMAIN h[d].children :
         SamePlace(h, b, j, d, t)
  BY <1>15 DEF SamePlace
<1> QED BY <1>3, <1>6, <1>7, <1>13, <1>16, Zenon DEF Ordered

\* splitLeafNode: the heap stays in order, the span of the leaf is halved.
-----------------------------------------------------------------------------
(* One more parent                                                         *)

\* A node is appended to a heap.
AppendShape(heap, type, child, h, a) ==
  /\ a \in Nat /\ a \notin DOMAIN heap /\ DOMAIN h = DOMAIN heap \cup {a}
  /\ \A b \in DOMAIN heap : b \in Nat /\ h[b] = heap[b]
  /\ h[a].type = type /\ h[a].keys = <<>> /\ h[a].children = <<child>>

LEMMA AppendHasShape ==
  ASSUME NEW K, NEW Q, NEW heap, SoundHeap(heap, K, Q), NEW type, NEW child,
         NEW h, h = Append(heap, InternalNode(type, <<child>>)), NEW a, a = Len(heap) + 1
  PROVE  AppendShape(heap, type, child, h, a)
<1>1. /\ DOMAIN heap = 1..Len(heap) /\ Len(heap) \in Nat /\ heap \in Seq(NodeType(K))
  BY HeapFacts
<1>2. PICK n : n = InternalNode(type, <<child>>)
  OBVIOUS
<1>3. h = Append(heap, n)
  BY <1>2
<1>4. /\ DOMAIN h = 1..Len(heap) + 1 /\ h[Len(heap) + 1] = n
      /\ \A b \in 1..Len(heap) : h[b] = heap[b]
  BY <1>1, <1>3, SMT
<1>5. n.type = type /\ n.keys = <<>> /\ n.children = <<child>>
  BY <1>2 DEF InternalNode
<1>6. /\ a \in Nat /\ a \notin DOMAIN heap /\ 1..Len(heap) + 1 = 1..Len(heap) \cup {a}
  BY <1>1, SMT
<1>7. \A b \in DOMAIN heap : b \in Nat
  BY <1>1, SMT
<1> QED BY <1>1, <1>4, <1>5, <1>6, <1>7 DEF AppendShape

\* A node or a page that hangs nowhere.
HangsNowhere(heap, type, child) ==
  \A b \in DOMAIN heap : \A j \in DOMAIN heap[b].children :
    heap[b].type = type => heap[b].children[j] # child

\* A node that hangs nowhere, or the first page.
Crowns(heap, type, child, N, L, P) ==
  /\ HangsNowhere(heap, type, child)
  /\ \/ type = 1 /\ child \in DOMAIN heap /\ N[child] = KeyType
        /\ \A b \in Inner(heap) : \A j \in DOMAIN heap[b].children : heap[b].children[j] \in DOMAIN heap
     \/ type = 2 /\ child \in P /\ L[child] = KeyType /\ heap = <<>>

LEMMA AppendOrders ==
  ASSUME NEW heap, NEW type, NEW child, NEW h, NEW a, AppendShape(heap, type, child, h, a),
         NEW N, NEW L, NEW P, Ordered(heap, N, L, P), Crowns(heap, type, child, N, L, P),
         NEW N2, N2 = [N EXCEPT ![a] = KeyType]
  PROVE  Ordered(h, N2, L, P)
<1> USE DEF Crowns
<1>1. /\ a \in Nat /\ a \notin DOMAIN heap /\ DOMAIN h = DOMAIN heap \cup {a}
      /\ \A b \in DOMAIN heap : b \in Nat /\ h[b] = heap[b]
      /\ h[a].type = type /\ h[a].keys = <<>> /\ h[a].children = <<child>>
  BY DEF AppendShape
<1>2. N \in Spans /\ L \in Spans
  BY DEF Ordered
<1>3. N2 \in Spans /\ N2[a] = KeyType /\ \A b \in DOMAIN heap : N2[b] = N[b]
  BY <1>1, <1>2 DEF Spans
<1>4. DOMAIN h[a].keys = {} /\ DOMAIN h[a].children = {1} /\ h[a].children[1] = child /\ Len(h[a].keys) = 0
  BY <1>1, SMT
<1>5. \A b \in DOMAIN h : KeysFit(h, N2, b)
  <2>1. KeysFit(h, N2, a)
    BY <1>4 DEF KeysFit, Rising
  <2>2. ASSUME NEW b \in DOMAIN heap PROVE KeysFit(h, N2, b)
    BY <1>1, <1>3, OrderedFacts DEF KeysFit
  <2> QED BY <1>1, <2>1, <2>2
<1>6. ChildFits(h, N2, L, P, a, 1)
  <2>1. \A x \in KeyType : Goes(h[a], 1, x)
    <3>1. ~(1 > 1) /\ ~(1 <= 0)
      BY SMT
    <3> QED BY <1>4, <3>1 DEF Goes
  <2>2. {x \in N2[a] : Goes(h[a], 1, x)} = KeyType
    BY <1>3, <2>1
  <2>3. CASE type = 1
    BY <1>1, <1>3, <1>4, <2>2, <2>3 DEF ChildFits, ChildSpan
  <2>4. CASE type = 2
    BY <1>1, <1>4, <2>2, <2>4 DEF ChildFits, ChildSpan
  <2> QED BY <2>3, <2>4
<1>7. ASSUME NEW b \in DOMAIN heap, NEW j \in DOMAIN heap[b].children PROVE ChildFits(h, N2, L, P, b, j)
  <2>1. ChildFits(heap, N, L, P, b, j) /\ h[b] = heap[b] /\ N2[b] = N[b]
    BY <1>1, <1>3, OrderedFacts
  <2>2. heap[b].type = 1 => N2[heap[b].children[j]] = N[heap[b].children[j]]
    <3>1. CASE type = 1
      BY <1>3, <3>1 DEF Inner
    <3>2. CASE type = 2
      BY <3>2
    <3> QED BY <3>1, <3>2
  <2> QED BY <2>1, <2>2 DEF ChildFits, ChildSpan
<1>8. \A b \in DOMAIN h : \A j \in DOMAIN h[b].children : ChildFits(h, N2, L, P, b, j)
  BY <1>1, <1>4, <1>6, <1>7
<1>9. ASSUME NEW b \in DOMAIN h, NEW d \in DOMAIN h, NEW j \in DOMAIN h[b].children,
             NEW t \in DOMAIN h[d].children, h[b].type = h[d].type, h[b].children[j] = h[d].children[t]
      PROVE  b = d /\ j = t
  <2>1. CASE b = a
    BY <1>1, <1>4, <1>9, <2>1 DEF HangsNowhere
  <2>2. CASE d = a
    BY <1>1, <1>4, <1>9, <2>2 DEF HangsNowhere
  <2>3. CASE b # a /\ d # a
    BY <1>1, <1>9, <2>3, OrderedOnce
  <2> QED BY <2>1, <2>2, <2>3
<1>10. \A b, d \in DOMAIN h : \A j \in DOMAIN h[b].children, t \in DOMAIN h[d].children :
         SamePlace(h, b, j, d, t)
  BY <1>9 DEF SamePlace
<1> QED BY <1>2, <1>3, <1>5, <1>8, <1>10, Zenon DEF Ordered

\* insertInternal: the root, which hangs nowhere, gets a parent.
LEMMA ParentOrders ==
  ASSUME NEW K, NEW Q, NEW heap, SoundHeap(heap, K, Q), NEW child, Top(heap, child),
         NEW h, NEW a, AppendShape(heap, 1, child, h, a),
         NEW N, NEW L, NEW P, Ordered(heap, N, L, P), N[child] = KeyType,
         NEW N2, N2 = [N EXCEPT ![a] = KeyType]
  PROVE  Ordered(h, N2, L, P)
<1>1. AppendShape(heap, 1, child, h, a)
  OBVIOUS
<1>2. HangsNowhere(heap, 1, child) /\ child \in DOMAIN heap
  BY DEF HangsNowhere, Top, Inner, ChildAt
<1>3. \A b \in Inner(heap) : \A j \in DOMAIN heap[b].children : heap[b].children[j] \in DOMAIN heap
  BY DEF SoundHeap, ChildAt
<1>4. Crowns(heap, 1, child, N, L, P)
  BY <1>2, <1>3 DEF Crowns
<1> QED BY <1>1, <1>4, AppendOrders
-----------------------------------------------------------------------------
(* The chain of the leaves                                                 *)

\* The pages of a file that the links from the first one lead to: c is a list
\* of them without repetition, and every key of the file is in one of them.
ChainOf(pgs, c) ==
  /\ c \in Seq(Nat) /\ Len(c) > 0 /\ c[1] = 0
  /\ \A i \in DOMAIN c : c[i] \in DOMAIN pgs
  /\ \A i, j \in DOMAIN c : c[i] = c[j] => i = j
  /\ \A i \in DOMAIN c : pgs[c[i]].next = IF i = Len(c) THEN NoPage ELSE c[i + 1]
  /\ \A p \in DOMAIN pgs : \A x \in ToSet(pgs[p].keys) :
       \E i \in DOMAIN c : x \in ToSet(pgs[c[i]].keys)
\* The pages of the chain have disjoint spans M, one after the other.
KeysIn(pgs, M, p) == Rising(pgs[p].keys) /\ ToSet(pgs[p].keys) \subseteq M[p]
Apart(M, p, q) == \A x \in M[p], y \in M[q] : Greater(y, x)
Along(pgs, c, M) ==
  /\ M \in Spans
  /\ \A i \in DOMAIN c : KeysIn(pgs, M, c[i])
  /\ \A i, j \in DOMAIN c : i < j => Apart(M, c[i], c[j])
Chain(pgs, c, M) == ChainOf(pgs, c) /\ Along(pgs, c, M)

\* A file that differs outside of the chain, and has no other keys.
LEMMA ChainKept ==
  ASSUME NEW pgs, NEW c, NEW M, Chain(pgs, c, M), NEW g, DOMAIN pgs \subseteq DOMAIN g,
         \A p \in ToSet(c) : g[p] = pgs[p],
         \A p \in DOMAIN g : \A x \in ToSet(g[p].keys) : \E q \in DOMAIN pgs : x \in ToSet(pgs[q].keys)
  PROVE  Chain(g, c, M)
<1>1. \A i \in DOMAIN c : c[i] \in ToSet(c) /\ g[c[i]] = pgs[c[i]]
  BY DEF ToSet
<1>2. ChainOf(g, c)
  <2>1. \A p \in DOMAIN g : \A x \in ToSet(g[p].keys) : \E i \in DOMAIN c : x \in ToSet(g[c[i]].keys)
    <3>1. ASSUME NEW p \in DOMAIN g, NEW x \in ToSet(g[p].keys)
          PROVE  \E i \in DOMAIN c : x \in ToSet(g[c[i]].keys)
      <4>1. PICK q \in DOMAIN pgs : x \in ToSet(pgs[q].keys)
        OBVIOUS
      <4>2. PICK i \in DOMAIN c : x \in ToSet(pgs[c[i]].keys)
        BY <4>1 DEF Chain, ChainOf
      <4> QED BY <1>1, <4>2
    <3> QED BY <3>1
  <2>2. \A i \in DOMAIN c : g[c[i]].next = IF i = Len(c) THEN NoPage ELSE c[i + 1]
    BY <1>1 DEF Chain, ChainOf
  <2>3. /\ c \in Seq(Nat) /\ Len(c) > 0 /\ c[1] = 0
        /\ \A i \in DOMAIN c : c[i] \in DOMAIN g
        /\ \A i, j \in DOMAIN c : c[i] = c[j] => i = j
    BY DEF Chain, ChainOf
  <2> QED BY <2>1, <2>2, <2>3 DEF ChainOf
<1>3. Along(g, c, M)
  BY <1>1 DEF Chain, Along, KeysIn
<1> QED BY <1>2, <1>3 DEF Chain

\* A page of the chain gets a key of its span.
LEMMA ChainFills ==
  ASSUME NEW pgs, NEW c, NEW M, Chain(pgs, c, M), NEW p \in ToSet(c),
         NEW g, DOMAIN g = DOMAIN pgs, \A q \in DOMAIN pgs : q # p => g[q] = pgs[q],
         g[p].next = pgs[p].next, KeysIn(g, M, p), ToSet(pgs[p].keys) \subseteq ToSet(g[p].keys)
  PROVE  Chain(g, c, M)
<1>1. /\ c \in Seq(Nat) /\ Len(c) > 0 /\ c[1] = 0
      /\ \A i \in DOMAIN c : c[i] \in DOMAIN pgs
      /\ \A i, j \in DOMAIN c : c[i] = c[j] => i = j
  BY DEF Chain, ChainOf
<1>2. PICK s \in DOMAIN c : c[s] = p
  BY DEF ToSet
<1>3. \A i \in DOMAIN c : g[c[i]].next = pgs[c[i]].next /\ ToSet(pgs[c[i]].keys) \subseteq ToSet(g[c[i]].keys)
  BY <1>1
<1>4. \A i \in DOMAIN c : g[c[i]].next = IF i = Len(c) THEN NoPage ELSE c[i + 1]
  BY <1>3 DEF Chain, ChainOf
<1>5. \A q \in DOMAIN g : \A x \in ToSet(g[q].keys) : \E i \in DOMAIN c : x \in ToSet(g[c[i]].keys)
  <2>1. ASSUME NEW q \in DOMAIN g, q # p, NEW x \in ToSet(g[q].keys)
        PROVE  \E i \in DOMAIN c : x \in ToSet(g[c[i]].keys)
    <3>1. PICK i \in DOMAIN c : x \in ToSet(pgs[c[i]].keys)
      BY <2>1 DEF Chain, ChainOf
    <3> QED BY <1>3, <3>1
  <2> QED BY <1>2, <2>1
<1>6. ChainOf(g, c)
  BY <1>1, <1>4, <1>5 DEF ChainOf
<1>7. \A i \in DOMAIN c : KeysIn(g, M, c[i])
  BY <1>1 DEF Chain, Along, KeysIn
<1>8. Along(g, c, M)
  BY <1>7 DEF Chain, Along
<1> QED BY <1>6, <1>8 DEF Chain

\* The halves of ascending keys.
LEMMA HalfKeys ==
  ASSUME NEW K, K \subseteq KeyType, NEW s \in Seq(K), Rising(s), NEW n \in DOMAIN s
  PROVE  /\ Rising(Upto(s, n)) /\ \A x \in ToSet(Upto(s, n)) : x \in ToSet(s) /\ ~Greater(x, s[n])
         /\ Rising(From(s, n + 1)) /\ \A x \in ToSet(From(s, n + 1)) : x \in ToSet(s) /\ Greater(x, s[n])
<1>1. Len(s) \in Nat /\ DOMAIN s = 1..Len(s) /\ n \in 0..Len(s) /\ \A i \in DOMAIN s : s[i] \in KeyType
  BY ElementOfSeq, LenProperties, SMT
<1>2. PICK u : u = Upto(s, n)
  OBVIOUS
<1>3. PICK f : f = From(s, n + 1)
  OBVIOUS
<1>4. DOMAIN u = 1..n /\ \A i \in 1..n : i \in DOMAIN s /\ u[i] = s[i]
  <2>1. DOMAIN u = 1..n /\ \A i \in 1..n : u[i] = s[i]
    BY <1>1, <1>2, UptoFacts
  <2>2. \A i \in 1..n : i \in DOMAIN s
    BY <1>1, SMT
  <2> QED BY <2>1, <2>2
<1>5. DOMAIN f = 1..Len(s) - n /\ \A i \in 1..Len(s) - n : n + i \in DOMAIN s /\ f[i] = s[n + i]
  <2>1. DOMAIN f = 1..Len(s) - n /\ \A i \in 1..Len(s) - n : f[i] = s[n + i]
    BY <1>1, <1>3, FromFacts
  <2>2. \A i \in 1..Len(s) - n : n + i \in DOMAIN s
    BY <1>1, SMT
  <2> QED BY <2>1, <2>2
<1>6. Rising(u)
  BY <1>4 DEF Rising
<1>7. Rising(f)
  <2>1. ASSUME NEW i \in DOMAIN f, NEW j \in DOMAIN f, i < j PROVE Greater(f[j], f[i])
    <3>1. n + i < n + j
      BY <1>1, <1>5, <2>1, SMT
    <3> QED BY <1>5, <3>1 DEF Rising
  <2> QED BY <2>1 DEF Rising
<1>8. ASSUME NEW x \in ToSet(u) PROVE x \in ToSet(s) /\ ~Greater(x, s[n])
  <2>1. PICK i \in DOMAIN u : u[i] = x
    BY DEF ToSet
  <2>2. i \in DOMAIN s /\ x = s[i] /\ (i = n \/ i < n)
    BY <1>1, <1>4, <2>1, SMT
  <2>3. CASE i = n
    BY <1>1, <2>2, <2>3, GreaterIsStrict DEF ToSet
  <2>4. CASE i < n
    <3>1. Greater(s[n], s[i])
      BY <2>2, <2>4 DEF Rising
    <3> QED BY <1>1, <2>2, <3>1, GreaterOneWay DEF ToSet
  <2> QED BY <2>2, <2>3, <2>4
<1>9. ASSUME NEW x \in ToSet(f) PROVE x \in ToSet(s) /\ Greater(x, s[n])
  <2>1. PICK i \in DOMAIN f : f[i] = x
    BY DEF ToSet
  <2>2. n + i \in DOMAIN s /\ x = s[n + i] /\ n < n + i
    BY <1>1, <1>5, <2>1, SMT
  <2> QED BY <2>2 DEF Rising, ToSet
<1> QED BY <1>2, <1>3, <1>6, <1>7, <1>8, <1>9

\* The list with one more page r behind the i-th.
Longer(c, i, r, d) ==
  /\ d \in Seq(Nat) /\ Len(d) = Len(c) + 1 /\ DOMAIN d = 1..Len(c) + 1
  /\ DOMAIN c = 1..Len(c) /\ Len(c) \in Nat /\ i \in 1..Len(c)
  /\ \A j \in 1..i : d[j] = c[j]
  /\ d[i + 1] = r
  /\ \A j \in i + 2..Len(c) + 1 : d[j] = c[j - 1]
InsertedAt(S, c, e, r, d) ==
  /\ d \in Seq(S) /\ Len(d) = Len(c) + 1 /\ DOMAIN d = 1..Len(c) + 1
  /\ \A j \in 1..e - 1 : d[j] = c[j]
  /\ d[e] = r
  /\ \A j \in e + 1..Len(c) + 1 : d[j] = c[j - 1]
LEMMA LongerAt ==
  ASSUME NEW S, NEW c, NEW e, NEW r, c \in Seq(S), e \in 1..Len(c) + 1, r \in S
  PROVE  InsertedAt(S, c, e, r, InsertAt(c, e, r))
BY InsertAtFacts DEF InsertedAt
LEMMA LongerFacts ==
  ASSUME NEW c \in Seq(Nat), NEW i \in DOMAIN c, NEW r \in Nat, NEW d, d = InsertAt(c, i + 1, r)
  PROVE  Longer(c, i, r, d)
<1>1. PICK x : x = i + 1
  OBVIOUS
<1>2. /\ Len(c) \in Nat /\ DOMAIN c = 1..Len(c) /\ i \in 1..Len(c) /\ x \in 1..Len(c) + 1
      /\ x - 1 = i /\ x + 1 = i + 2
  BY <1>1, LenProperties, SMTT(60)
<1>3. d = InsertAt(c, x, r)
  BY <1>1
<1>4. InsertedAt(Nat, c, x, r, InsertAt(c, x, r))
  BY <1>2, LongerAt
<1>5. InsertedAt(Nat, c, x, r, d)
  BY <1>3, <1>4
<1>6. /\ d \in Seq(Nat) /\ Len(d) = Len(c) + 1 /\ DOMAIN d = 1..Len(c) + 1
      /\ \A j \in 1..x - 1 : d[j] = c[j]
      /\ d[x] = r
      /\ \A j \in x + 1..Len(c) + 1 : d[j] = c[j - 1]
  BY <1>5 DEF InsertedAt
<1> QED BY <1>1, <1>2, <1>6 DEF Longer

\* The steps of the longer list.
Old(c, i, d, j, s) ==
  \/ j \in 1..i /\ s = j /\ s \in DOMAIN c
  \/ j \in i + 2..Len(c) + 1 /\ s = j - 1 /\ s \in DOMAIN c
LEMMA LongerOld ==
  ASSUME NEW c, NEW i, NEW r, NEW d, Longer(c, i, r, d), NEW j \in DOMAIN d, j # i + 1
  PROVE  \E s \in DOMAIN c : Old(c, i, d, j, s) /\ d[j] = c[s]
<1>1. PICK n \in Nat : n = Len(c)
  BY DEF Longer
<1>2. i \in 1..n /\ j \in 1..n + 1 /\ DOMAIN c = 1..n
  BY <1>1 DEF Longer
<1>3. CASE j \in 1..i
  BY <1>1, <1>2, <1>3 DEF Longer, Old
<1>4. CASE j \in i + 2..n + 1
  <2>1. j - 1 \in 1..n
    BY <1>2, <1>4, SMT
  <2> QED BY <1>1, <1>2, <1>4, <2>1 DEF Longer, Old
<1>5. j \in 1..i \/ j \in i + 2..n + 1
  BY <1>2, SMT
<1> QED BY <1>3, <1>4, <1>5
LEMMA LongerNew ==
  ASSUME NEW c, NEW i, NEW r, NEW d, Longer(c, i, r, d), NEW s \in DOMAIN c
  PROVE  \E j \in DOMAIN d : j # i + 1 /\ d[j] = c[s] /\ (s = i => j = i)
<1>1. PICK n \in Nat : n = Len(c)
  BY DEF Longer
<1>2. i \in 1..n /\ s \in 1..n /\ DOMAIN d = 1..n + 1
  BY <1>1 DEF Longer
<1>3. CASE s <= i
  <2>1. s \in 1..i /\ s \in 1..n + 1 /\ s # i + 1
    BY <1>2, <1>3, SMT
  <2>2. d[s] = c[s]
    BY <2>1 DEF Longer
  <2> QED BY <1>2, <2>1, <2>2
<1>4. CASE ~(s <= i)
  <2>1. s + 1 \in i + 2..n + 1 /\ s + 1 \in 1..n + 1 /\ s + 1 # i + 1 /\ s + 1 - 1 = s /\ s # i
    BY <1>2, <1>4, SMT
  <2>2. d[s + 1] = c[s]
    BY <1>1, <2>1 DEF Longer
  <2> QED BY <1>2, <2>1, <2>2
<1> QED BY <1>3, <1>4
LEMMA LongerOrder ==
  ASSUME NEW c, NEW i, NEW r, NEW d, Longer(c, i, r, d), NEW j, NEW t, NEW s, NEW u,
         Old(c, i, d, j, s), Old(c, i, d, t, u)
  PROVE  /\ j \in Int /\ t \in Int /\ s \in Int /\ u \in Int
         /\ (j < t <=> s < u) /\ (j = t <=> s = u)
         /\ (j < i + 1 <=> s < i \/ s = i) /\ (i + 1 < j <=> i < s)
<1>1. PICK n \in Nat : n = Len(c)
  BY DEF Longer
<1>2. i \in 1..n
  BY <1>1 DEF Longer
<1>3. /\ (j \in 1..i /\ s = j) \/ (j \in i + 2..n + 1 /\ s = j - 1)
      /\ (t \in 1..i /\ u = t) \/ (t \in i + 2..n + 1 /\ u = t - 1)
  BY <1>1 DEF Old
<1> QED BY <1>2, <1>3, SMT
LEMMA LongerSame ==
  ASSUME NEW c, NEW i, NEW r, NEW d, Longer(c, i, r, d), NEW j, NEW t, NEW s,
         Old(c, i, d, j, s), Old(c, i, d, t, s)
  PROVE  j = t
<1>1. PICK n \in Nat : n = Len(c)
  BY DEF Longer
<1>2. i \in 1..n
  BY <1>1 DEF Longer
<1>3. /\ (j \in 1..i /\ s = j) \/ (j \in i + 2..n + 1 /\ s = j - 1)
      /\ (t \in 1..i /\ s = t) \/ (t \in i + 2..n + 1 /\ s = t - 1)
  BY <1>1 DEF Old
<1> QED BY <1>2, <1>3, SMT
LEMMA LongerBefore ==
  ASSUME NEW c, NEW i, NEW r, NEW d, Longer(c, i, r, d), NEW j, NEW s, Old(c, i, d, j, s), j < i + 1
  PROVE  s < i \/ s = i
<1>1. j < i + 1 <=> s < i \/ s = i
  BY LongerOrder
<1> QED BY <1>1
-----------------------------------------------------------------------------
(* The left half is written                                                *)

\* The right half of the page p is in the page r; the file g has its left
\* half too, linked to r.
SplitPages(pgs, g, p, r) ==
  /\ DOMAIN g = DOMAIN pgs /\ p \in DOMAIN pgs /\ r \in DOMAIN pgs /\ r # p
  /\ \A q \in DOMAIN pgs : q # p => g[q] = pgs[q]
  /\ pgs[r].keys = From(pgs[p].keys, MinDegree + 1) /\ pgs[r].next = pgs[p].next
  /\ g[p].keys = Upto(pgs[p].keys, MinDegree) /\ g[p].next = r

LEMMA ChainFacts ==
  ASSUME NEW pgs, NEW c, NEW M, Chain(pgs, c, M)
  PROVE  /\ c \in Seq(Nat) /\ Len(c) > 0 /\ c[1] = 0 /\ M \in Spans
         /\ \A i \in DOMAIN c : c[i] \in DOMAIN pgs /\ c[i] \in Nat /\ c[i] \in ToSet(c) /\ KeysIn(pgs, M, c[i])
         /\ \A i, j \in DOMAIN c : c[i] = c[j] => i = j
         /\ \A i \in DOMAIN c : pgs[c[i]].next = IF i = Len(c) THEN NoPage ELSE c[i + 1]
         /\ \A i, j \in DOMAIN c : i < j => Apart(M, c[i], c[j])
<1>1. c \in Seq(Nat)
  BY DEF Chain, ChainOf
<1>2. \A i \in DOMAIN c : c[i] \in Nat /\ c[i] \in ToSet(c)
  BY <1>1, ElementOfSeq, LenProperties DEF ToSet
<1> QED BY <1>1, <1>2 DEF Chain, ChainOf, Along

\* The halves of a page and of its span.
Halved(pgs, g, M, M2, p, r, k) ==
  /\ M2 \in Spans /\ p \in Nat /\ r \in Nat /\ r # p /\ k \in KeyType /\ M[p] \subseteq KeyType
  /\ M2[p] = {x \in M[p] : ~Greater(x, k)} /\ M2[r] = {x \in M[p] : Greater(x, k)}
  /\ \A q \in Nat \ {p, r} : M2[q] = M[q]
  /\ KeysIn(g, M2, p) /\ KeysIn(g, M2, r)
  /\ ToSet(g[p].keys) \cup ToSet(g[r].keys) = ToSet(pgs[p].keys)
LEMMA HalvesFit ==
  ASSUME NEW K, K \subseteq KeyType, NEW pgs, NEW g, NEW p \in Nat, NEW r \in Nat,
         SplitPages(pgs, g, p, r), NEW M \in Spans, KeysIn(pgs, M, p),
         pgs[p].keys \in Seq(K), MinDegree \in DOMAIN pgs[p].keys,
         NEW k, k = pgs[p].keys[MinDegree], NEW M2, M2 = Halve(M, p, r, k)
  PROVE  Halved(pgs, g, M, M2, p, r, k)
<1>1. PICK s : s = pgs[p].keys
  OBVIOUS
<1>2. s \in Seq(K) /\ Rising(s) /\ ToSet(s) \subseteq M[p] /\ MinDegree \in DOMAIN s /\ k = s[MinDegree]
  BY <1>1 DEF KeysIn
<1>3. r # p /\ g[p].keys = Upto(s, MinDegree) /\ g[r].keys = From(s, MinDegree + 1)
  BY <1>1 DEF SplitPages
<1>4. /\ M2 \in Spans /\ M2[p] = {x \in M[p] : ~Greater(x, k)} /\ M2[r] = {x \in M[p] : Greater(x, k)}
      /\ \A q \in Nat \ {p, r} : M2[q] = M[q]
  BY <1>3, HalveFacts
<1>5. M[p] \subseteq KeyType
  BY DEF Spans
<1>6. k \in KeyType
  <2>1. s[MinDegree] \in K
    BY <1>2, ElementOfSeq, LenProperties
  <2> QED BY <1>2, <2>1
<1>7. PICK n : n = MinDegree
  OBVIOUS
<1>8. n \in DOMAIN s
  BY <1>2, <1>7
<1>9. /\ Rising(Upto(s, n)) /\ \A x \in ToSet(Upto(s, n)) : x \in ToSet(s) /\ ~Greater(x, s[n])
      /\ Rising(From(s, n + 1)) /\ \A x \in ToSet(From(s, n + 1)) : x \in ToSet(s) /\ Greater(x, s[n])
  BY <1>2, <1>8, HalfKeys
<1>10. ToSet(Upto(s, n)) \cup ToSet(From(s, n + 1)) = ToSet(s)
  <2>1. n \in 0..Len(s)
    BY <1>2, <1>8, LenProperties, SMT
  <2> QED BY <1>2, <2>1, HalvesSet
<1>11. KeysIn(g, M2, p)
  BY <1>2, <1>3, <1>4, <1>7, <1>9 DEF KeysIn
<1>12. KeysIn(g, M2, r)
  BY <1>2, <1>3, <1>4, <1>7, <1>9 DEF KeysIn
<1>13. ToSet(g[p].keys) \cup ToSet(g[r].keys) = ToSet(pgs[p].keys)
  BY <1>1, <1>3, <1>7, <1>10
<1> QED BY <1>3, <1>4, <1>5, <1>6, <1>11, <1>12, <1>13 DEF Halved

LEMMA ChainSplits ==
  ASSUME NEW K, K \subseteq KeyType, NEW pgs, NEW c, NEW M, Chain(pgs, c, M),
         NEW i \in DOMAIN c, NEW p, p = c[i], NEW r \in Nat, r \notin ToSet(c),
         NEW g, SplitPages(pgs, g, p, r), pgs[p].keys \in Seq(K), MinDegree \in DOMAIN pgs[p].keys,
         NEW k, k = pgs[p].keys[MinDegree], NEW M2, M2 = Halve(M, p, r, k),
         NEW d, Longer(c, i, r, d)
  PROVE  Chain(g, d, M2) /\ ToSet(d) = ToSet(c) \cup {r}
<1>1. /\ c \in Seq(Nat) /\ Len(c) > 0 /\ c[1] = 0 /\ M \in Spans
      /\ \A s \in DOMAIN c : c[s] \in DOMAIN pgs /\ c[s] \in Nat /\ c[s] \in ToSet(c) /\ KeysIn(pgs, M, c[s])
      /\ \A s, u \in DOMAIN c : c[s] = c[u] => s = u
      /\ \A s \in DOMAIN c : pgs[c[s]].next = IF s = Len(c) THEN NoPage ELSE c[s + 1]
      /\ \A s, u \in DOMAIN c : s < u => Apart(M, c[s], c[u])
  BY ChainFacts
<1>2. Halved(pgs, g, M, M2, p, r, k)
  BY <1>1, HalvesFit
<1>3. /\ DOMAIN g = DOMAIN pgs /\ p \in DOMAIN pgs /\ r \in DOMAIN pgs /\ r # p
      /\ \A q \in DOMAIN pgs : q # p => g[q] = pgs[q]
      /\ pgs[r].next = pgs[p].next /\ g[p].next = r
  BY DEF SplitPages
<1>4. /\ d \in Seq(Nat) /\ Len(d) = Len(c) + 1 /\ DOMAIN d = 1..Len(c) + 1
      /\ DOMAIN c = 1..Len(c) /\ Len(c) \in Nat /\ i \in 1..Len(c)
      /\ \A j \in 1..i : d[j] = c[j]
      /\ d[i + 1] = r
      /\ \A j \in i + 2..Len(c) + 1 : d[j] = c[j - 1]
  BY DEF Longer
<1>5. d[i] = p /\ d[1] = 0 /\ Len(d) > 0 /\ i \in DOMAIN d /\ i + 1 \in DOMAIN d
  <2>1. i \in 1..i /\ 1 \in 1..i /\ i \in 1..Len(c) + 1 /\ i + 1 \in 1..Len(c) + 1 /\ Len(c) + 1 > 0
    BY <1>4, SMT
  <2> QED BY <1>1, <1>4, <2>1
\* What is in the longer list.
<1>6. ToSet(d) = ToSet(c) \cup {r}
  <2>1. ASSUME NEW j \in DOMAIN d PROVE d[j] \in ToSet(c) \cup {r}
    <3>1. CASE j = i + 1
      BY <1>4, <3>1
    <3>2. CASE j # i + 1
      BY <1>1, <3>2, LongerOld
    <3> QED BY <3>1, <3>2
  <2>2. ASSUME NEW s \in DOMAIN c PROVE c[s] \in ToSet(d)
    BY LongerNew DEF ToSet
  <2>3. r \in ToSet(d)
    BY <1>4, <1>5 DEF ToSet
  <2> QED BY <2>1, <2>2, <2>3 DEF ToSet
<1>7. ASSUME NEW s \in DOMAIN c, s # i
      PROVE  c[s] # p /\ c[s] # r /\ g[c[s]] = pgs[c[s]] /\ M2[c[s]] = M[c[s]]
  BY <1>1, <1>2, <1>3, <1>7 DEF Halved
<1>8. \A j \in DOMAIN d : d[j] \in DOMAIN g
  <2>1. ASSUME NEW j \in DOMAIN d PROVE d[j] \in DOMAIN g
    <3>1. CASE j = i + 1
      BY <1>3, <1>4, <3>1
    <3>2. CASE j # i + 1
      BY <1>1, <1>3, <3>2, LongerOld
    <3> QED BY <3>1, <3>2
  <2> QED BY <2>1
<1>9. ASSUME NEW j \in DOMAIN d, NEW t \in DOMAIN d, d[j] = d[t] PROVE j = t
  <2>1. CASE j # i + 1 /\ t # i + 1
    <3>1. PICK s \in DOMAIN c : Old(c, i, d, j, s) /\ d[j] = c[s]
      BY <2>1, LongerOld
    <3>2. PICK u \in DOMAIN c : Old(c, i, d, t, u) /\ d[t] = c[u]
      BY <2>1, LongerOld
    <3>3. s = u
      BY <1>1, <1>9, <3>1, <3>2
    <3>4. Old(c, i, d, j, s) /\ Old(c, i, d, t, s)
      BY <3>1, <3>2, <3>3
    <3> QED BY <3>4, LongerSame
  <2>2. CASE j = i + 1 /\ t # i + 1
    <3>1. PICK u \in DOMAIN c : Old(c, i, d, t, u) /\ d[t] = c[u]
      BY <2>2, LongerOld
    <3> QED BY <1>1, <1>4, <1>9, <2>2, <3>1
  <2>3. CASE j # i + 1 /\ t = i + 1
    <3>1. PICK u \in DOMAIN c : Old(c, i, d, j, u) /\ d[j] = c[u]
      BY <2>3, LongerOld
    <3> QED BY <1>1, <1>4, <1>9, <2>3, <3>1
  <2> QED BY <2>1, <2>2, <2>3
\* The links.
<1>10. PICK n \in Nat : n = Len(c)
  BY <1>4
<1>11. ASSUME NEW j \in DOMAIN d PROVE g[d[j]].next = IF j = Len(d) THEN NoPage ELSE d[j + 1]
  <2>1. i \in 1..n /\ j \in 1..n + 1 /\ Len(d) = n + 1
    BY <1>4, <1>10
  <2>2. CASE j = i + 1
    <3>1. g[d[j]].next = IF i = n THEN NoPage ELSE c[i + 1]
      BY <1>1, <1>3, <1>4, <1>10, <2>2
    <3>2. CASE i = n
      BY <2>1, <2>2, <3>1, <3>2
    <3>3. CASE i # n
      <4>1. i + 1 + 1 \in i + 2..n + 1 /\ i + 1 + 1 - 1 = i + 1 /\ i + 1 # n + 1
        BY <2>1, <3>3, SMT
      <4>2. d[i + 1 + 1] = c[i + 1]
        BY <1>4, <1>10, <4>1, SMTT(60)
      <4> QED BY <2>1, <2>2, <3>1, <3>3, <4>1, <4>2
    <3> QED BY <3>2, <3>3
  <2>3. CASE j = i
    <3>1. i # n + 1
      BY <2>1, SMT
    <3> QED BY <1>3, <1>4, <1>5, <2>1, <2>3, <3>1
  <2>4. CASE j \in 1..i - 1
    <3>1. j \in 1..i /\ j + 1 \in 1..i /\ j # n /\ j # n + 1 /\ j # i /\ j \in 1..n
      BY <2>1, <2>4, SMT
    <3>2. d[j] = c[j] /\ d[j + 1] = c[j + 1] /\ j \in DOMAIN c
      BY <1>4, <1>10, <3>1
    <3>3. g[c[j]].next = c[j + 1]
      BY <1>1, <1>7, <1>10, <3>1, <3>2
    <3> QED BY <2>1, <3>1, <3>2, <3>3
  <2>5. CASE j \in i + 2..n + 1
    <3>1. j - 1 \in 1..n /\ j - 1 # i /\ j - 1 + 1 = j /\ (j - 1 = n <=> j = n + 1)
      BY <2>1, <2>5, SMT
    <3>2. d[j] = c[j - 1] /\ j - 1 \in DOMAIN c
      BY <1>4, <1>10, <2>5, <3>1
    <3>3. g[d[j]].next = IF j = n + 1 THEN NoPage ELSE c[j]
      BY <1>1, <1>7, <1>10, <3>1, <3>2
    <3>4. ASSUME j # n + 1 PROVE d[j + 1] = c[j]
      <4>1. j + 1 \in i + 2..n + 1 /\ j + 1 - 1 = j
        BY <2>1, <2>5, <3>4, SMT
      <4> QED BY <1>4, <1>10, <4>1
    <3> QED BY <2>1, <3>3, <3>4
  <2>6. j = i + 1 \/ j = i \/ j \in 1..i - 1 \/ j \in i + 2..n + 1
    BY <2>1, SMT
  <2> QED BY <2>2, <2>3, <2>4, <2>5, <2>6
\* The keys.
<1>12. ASSUME NEW q \in DOMAIN g, NEW x \in ToSet(g[q].keys)
       PROVE  \E j \in DOMAIN d : x \in ToSet(g[d[j]].keys)
  <2>1. \E s \in DOMAIN c : x \in ToSet(pgs[c[s]].keys)
    <3>1. CASE q = p
      BY <1>2, <3>1 DEF Halved
    <3>2. CASE q # p
      <4>1. q \in DOMAIN pgs /\ x \in ToSet(pgs[q].keys) /\ ChainOf(pgs, c)
        BY <1>3, <3>2 DEF Chain
      <4> QED BY <4>1 DEF ChainOf
    <3> QED BY <3>1, <3>2
  <2>2. PICK s \in DOMAIN c : x \in ToSet(pgs[c[s]].keys)
    BY <2>1
  <2>3. CASE s = i
    <3>1. x \in ToSet(g[p].keys) \/ x \in ToSet(g[r].keys)
      BY <1>2, <2>2, <2>3 DEF Halved
    <3> QED BY <1>4, <1>5, <3>1
  <2>4. CASE s # i
    <3>1. PICK j \in DOMAIN d : d[j] = c[s]
      BY LongerNew
    <3> QED BY <1>7, <2>2, <2>4, <3>1
  <2> QED BY <2>3, <2>4
<1>13. ChainOf(g, d)
  BY <1>4, <1>5, <1>8, <1>9, <1>11, <1>12 DEF ChainOf
\* The spans.
<1>14. ASSUME NEW j \in DOMAIN d PROVE KeysIn(g, M2, d[j])
  <2>1. CASE j = i + 1
    BY <1>2, <1>4, <2>1 DEF Halved
  <2>2. CASE j # i + 1
    <3>1. PICK s \in DOMAIN c : Old(c, i, d, j, s) /\ d[j] = c[s]
      BY <2>2, LongerOld
    <3>2. CASE s = i
      BY <1>2, <3>1, <3>2 DEF Halved
    <3>3. CASE s # i
      <4>1. KeysIn(pgs, M, c[s]) /\ g[c[s]] = pgs[c[s]] /\ M2[c[s]] = M[c[s]]
        BY <1>1, <1>7, <3>1, <3>3
      <4>2. KeysIn(g, M2, c[s])
        BY <4>1 DEF KeysIn
      <4> QED BY <3>1, <4>2
    <3> QED BY <3>2, <3>3
  <2> QED BY <2>1, <2>2
<1>15. /\ M2[p] = {x \in M[p] : ~Greater(x, k)} /\ M2[r] = {x \in M[p] : Greater(x, k)}
       /\ M2 \in Spans /\ M[p] \subseteq KeyType /\ k \in KeyType
  BY <1>2 DEF Halved
<1>16. \A s \in DOMAIN c : M2[c[s]] \subseteq M[c[s]]
  BY <1>7, <1>15
<1>17. ASSUME NEW j \in DOMAIN d, NEW t \in DOMAIN d, j < t PROVE Apart(M2, d[j], d[t])
  <2>1. CASE j # i + 1 /\ t # i + 1
    <3>1. PICK s \in DOMAIN c : Old(c, i, d, j, s) /\ d[j] = c[s]
      BY <2>1, LongerOld
    <3>2. PICK u \in DOMAIN c : Old(c, i, d, t, u) /\ d[t] = c[u]
      BY <2>1, LongerOld
    <3>3. s < u
      BY <1>17, <3>1, <3>2, LongerOrder
    <3> QED BY <1>1, <1>16, <3>1, <3>2, <3>3 DEF Apart
  <2>2. CASE j = i + 1
    <3>1. t # i + 1
      BY <1>4, <1>17, <2>2, SMT
    <3>2. PICK u \in DOMAIN c : Old(c, i, d, t, u) /\ d[t] = c[u]
      BY <3>1, LongerOld
    <3>3. i < u
      BY <1>17, <2>2, <3>2, LongerOrder, ZenonT(60)
    <3>4. Apart(M, p, c[u])
      BY <1>1, <3>2, <3>3
    <3> QED BY <1>4, <1>15, <1>16, <2>2, <3>2, <3>4 DEF Apart
  <2>3. CASE t = i + 1
    <3>1. j # i + 1
      BY <1>4, <1>17, <2>3, SMT
    <3>2. PICK s \in DOMAIN c : Old(c, i, d, j, s) /\ d[j] = c[s]
      BY <3>1, LongerOld
    <3>3. s < i \/ s = i
      <4>1. j < i + 1
        BY <1>17, <2>3
      <4> QED BY <3>2, <4>1, LongerBefore
    <3>4. CASE s < i
      <4>1. Apart(M, c[s], p)
        BY <1>1, <3>2, <3>4
      <4> QED BY <1>4, <1>15, <1>16, <2>3, <3>2, <4>1 DEF Apart
    <3>5. CASE s = i
      <4>1. \A x \in M2[p], y \in M2[r] : Greater(y, x)
        BY <1>15, GreaterNotSame
      <4> QED BY <1>4, <2>3, <3>2, <3>5, <4>1 DEF Apart
    <3> QED BY <3>3, <3>4, <3>5
  <2> QED BY <2>1, <2>2, <2>3
<1>18. Along(g, d, M2)
  BY <1>14, <1>15, <1>17 DEF Along
<1> QED BY <1>6, <1>13, <1>18 DEF Chain
-----------------------------------------------------------------------------
(* The tree and the file in order                                          *)

\* The page that a split has allocated belongs to the tree before the chain.
Linking == {"writeRight", "writeLeft"}
LeafSpans(M) == IF pc \in Linking THEN Halve(M, leaf.pageId, right, leaf.keys[MinDegree]) ELSE M
Listed(c)    == ToSet(c) \cup (IF pc \in Linking THEN {right} ELSE {})
\* The root has all keys under it.
RootFits(c, N, M) ==
  /\ root.kind = "node" => N[root.at] = KeyType
  /\ root.kind = "leaf" /\ pc \in Splitting => N[at] = KeyType
  /\ root.kind = "leaf" /\ pc \notin Splitting =>
       nodes = <<>> /\ root.leaf.pageId \in ToSet(c) /\ M[root.leaf.pageId] = KeyType
  /\ root.kind = "leaf" /\ pc = "fill" => leaf.pageId = root.leaf.pageId
\* The key belongs to the node or the leaf at hand.
HandFits(c, N, M) ==
  /\ pc = "descend" => key \in N[at]
  /\ pc \in Splitting \cup {"fill"} => leaf.pageId \in ToSet(c) /\ key \in M[leaf.pageId]
  /\ pc \in Splitting => nodes[at].children[slot] = leaf.pageId
  /\ pc \in Linking => nodes[at].keys[slot] = leaf.keys[MinDegree] /\ right \notin ToSet(c)
TreeFits(c, N, M) ==
  /\ Chain(pages, c, M)
  /\ Ordered(nodes, N, LeafSpans(M), Listed(c))
  /\ RootFits(c, N, M) /\ HandFits(c, N, M)
\* There is no page, the first one is allocated, or there is a tree.
NoPages   == root = NoRoot /\ DOMAIN pages = {} /\ nodes = <<>>
FirstPage == pc = "writeRoot" /\ DOMAIN pages = {0} /\ nodes = <<>>
HasTree   == /\ pc \notin {"newRoot", "writeRoot"} /\ root # NoRoot
             /\ \E c, N, M : TreeFits(c, N, M)
OrderInv == NoPages \/ FirstPage \/ HasTree
\* Whatever a dead process has left.
FileFits == 0 \in DOMAIN pages /\ pages[0] # ZeroPage => \E c, M : Chain(pages, c, M)
\* The inductive invariant.
OInv == (Owner => OrderInv) /\ FileFits

LEMMA OrderFileFits ==
  ASSUME IInv, Owner, OrderInv PROVE FileFits
<1>1. CASE NoPages
  BY <1>1 DEF NoPages, FileFits
<1>2. CASE FirstPage
  <2>1. pc = "writeRoot" /\ root.leaf.pageId \in DOMAIN pages /\ DOMAIN pages = {0} /\ PendingInv
    BY <1>2 DEF FirstPage, IInv, OwnerInv, RootInv
  <2>2. pages[0] = ZeroPage
    BY <2>1 DEF PendingInv, Pending
  <2> QED BY <2>2 DEF FileFits
<1>3. CASE HasTree
  BY <1>3 DEF HasTree, TreeFits, FileFits
<1> QED BY <1>1, <1>2, <1>3 DEF OrderInv

\* What the invariant says of an insertion below the root.
LEMMA TreeAtHand ==
  ASSUME IInv, OrderInv, pc \in Inserting \ {"newRoot", "writeRoot"}
  PROVE  \E c, N, M : TreeFits(c, N, M)
<1>1. ~NoPages
  BY DEF IInv, Owner, OwnerInv, RootInv, NoPages, Inserting
<1> QED BY <1>1 DEF OrderInv, FirstPage, HasTree

LEMMA InsertRowOrders ==
  ASSUME ~AppendAfterReload, IInv, OInv, InsertRow PROVE OrderInv'
<1>1. /\ pc = "idle" /\ UNCHANGED <<root, nodes, at, slot, leaf, right, pages>> /\ ~Reloaded
      /\ pc' = IF root = NoRoot THEN "newRoot" ELSE "insert"
  BY DEF InsertRow, Insert, diskVars
<1>2. Owner
  BY <1>1, NumberFacts DEF Owner, IInv
<1>3. CASE NoPages
  BY <1>1, <1>3 DEF OrderInv, NoPages
<1>4. CASE HasTree
  <2>1. PICK c, N, M : TreeFits(c, N, M)
    BY <1>4 DEF HasTree
  <2>2. root # NoRoot /\ pc' = "insert"
    BY <1>1, <1>4 DEF HasTree
  <2>3. LeafSpans(M)' = LeafSpans(M) /\ Listed(c)' = Listed(c)
    BY <1>1, <2>2 DEF LeafSpans, Listed, Linking
  <2>4. /\ Chain(pages', c, M) /\ Ordered(nodes', N, LeafSpans(M)', Listed(c)')
    BY <1>1, <2>1, <2>3 DEF TreeFits
  <2>5. RootFits(c, N, M)'
    BY <1>1, <2>1, <2>2 DEF TreeFits, RootFits, Splitting
  <2>6. HandFits(c, N, M)'
    BY <2>2 DEF HandFits, Splitting, Linking
  <2>7. TreeFits(c, N, M)'
    BY <2>4, <2>5, <2>6 DEF TreeFits
  <2> QED BY <1>1, <2>2, <2>7 DEF OrderInv, HasTree
<1>5. ~FirstPage
  BY <1>1 DEF FirstPage
<1> QED BY <1>2, <1>3, <1>4, <1>5 DEF OInv, OrderInv

LEMMA AllocateRootOrders ==
  ASSUME IInv, OrderInv, AllocateRoot PROVE OrderInv'
<1>1. pc = "newRoot" /\ AllocatePage /\ pc' = "writeRoot" /\ nodes' = nodes
  BY DEF AllocateRoot
<1>2. NoPages
  BY <1>1 DEF OrderInv, FirstPage, HasTree
<1>3. PICK n \in Nat : Numbered(n)
  BY DEF IInv, PagesAreNumbered
<1>4. pageCount = n /\ DOMAIN pages = 0..n - 1 /\ DOMAIN pages = {}
  BY <1>1, <1>2, <1>3 DEF Numbered, Inserting, NoPages
<1>5. pageCount = 0
  BY <1>4, SMT
<1>6. DOMAIN pages' = {0}
  BY <1>1, <1>4, <1>5 DEF AllocatePage
<1> QED BY <1>1, <1>2, <1>6 DEF OrderInv, FirstPage, NoPages

LEMMA WriteRootOrders ==
  ASSUME IInv, OrderInv, WriteRoot PROVE OrderInv'
<1>1. /\ pc = "writeRoot" /\ WritePage(root.leaf.pageId, root.leaf) /\ pc' = "insert"
      /\ UNCHANGED <<root, nodes>>
  BY DEF WriteRoot
<1>2. OwnerInv
  BY <1>1 DEF IInv, Owner, Inserting
<1>3. /\ root.kind = "leaf" /\ root # NoRoot /\ root.leaf = NewPage(root.leaf.pageId)
      /\ root.leaf.pageId \in DOMAIN pages
  BY <1>1, <1>2 DEF OwnerInv, RootInv, Inserting
<1>4. DOMAIN pages = {0} /\ nodes = <<>>
  BY <1>1, <1>3 DEF OrderInv, NoPages, FirstPage, HasTree
<1>5. root.leaf.pageId = 0 /\ DOMAIN pages' = {0} /\ pages'[0] = NewPage(0)
  BY <1>1, <1>3, <1>4, WriteFacts
<1>6. pages'[0].keys = <<>> /\ pages'[0].next = NoPage
  BY <1>5 DEF NewPage
<1> DEFINE c == <<0>>
           M == [n \in Nat |-> KeyType]
<1>7. c \in Seq(Nat) /\ Len(c) = 1 /\ DOMAIN c = {1} /\ c[1] = 0 /\ ToSet(c) = {0}
  BY DEF ToSet
<1>8. M \in Spans /\ M[0] = KeyType
  BY DEF Spans
<1> HIDE DEF c, M
<1>9. ToSet(pages'[0].keys) = {} /\ Rising(pages'[0].keys)
  BY <1>6 DEF ToSet, Rising
<1>10. ChainOf(pages', c)
  <2>1. Len(c) > 0
    BY <1>7, SMT
  <2> QED BY <1>5, <1>6, <1>7, <1>9, <2>1 DEF ChainOf
<1>11. Along(pages', c, M)
  <2>1. ~(1 < 1)
    BY SMT
  <2> QED BY <1>7, <1>8, <1>9, <2>1 DEF Along, KeysIn
<1>12. Ordered(nodes', M, LeafSpans(M)', Listed(c)')
  <2>1. LeafSpans(M)' = M
    BY <1>1 DEF LeafSpans, Linking
  <2>2. DOMAIN nodes' = {}
    BY <1>1, <1>4
  <2> QED BY <1>8, <2>1, <2>2 DEF Ordered
<1>13. RootFits(c, M, M)'
  BY <1>1, <1>3, <1>4, <1>5, <1>7, <1>8 DEF RootFits, Splitting
<1>14. HandFits(c, M, M)'
  BY <1>1 DEF HandFits, Splitting, Linking
<1>15. TreeFits(c, M, M)'
  BY <1>10, <1>11, <1>12, <1>13, <1>14 DEF TreeFits, Chain
<1> QED BY <1>1, <1>3, <1>15 DEF OrderInv, HasTree
-----------------------------------------------------------------------------
(* The steps of an insertion that write no page                            *)

\* A tree before a step that writes no page and links none.
LEMMA QuietTree ==
  ASSUME NEW c, NEW N, NEW M, TreeFits(c, N, M), pc \notin Linking, pc' \notin Linking
  PROVE  /\ LeafSpans(M)' = M /\ Listed(c)' = ToSet(c) /\ N \in Spans /\ M \in Spans
         /\ Ordered(nodes, N, M, ToSet(c)) /\ Chain(pages, c, M)
<1>1. LeafSpans(M) = M /\ Listed(c) = ToSet(c)
  BY DEF LeafSpans, Listed
<1>2. LeafSpans(M)' = M /\ Listed(c)' = ToSet(c)
  BY DEF LeafSpans, Listed
<1>3. Ordered(nodes, N, M, ToSet(c)) /\ Chain(pages, c, M)
  BY <1>1 DEF TreeFits
<1> QED BY <1>2, <1>3 DEF Ordered

LEMMA InsertLeafOrders ==
  ASSUME IInv, OrderInv, InsertLeaf PROVE OrderInv'
<1>1. /\ pc = "insert" /\ root.kind = "leaf" /\ leaf' = root.leaf
      /\ UNCHANGED <<root, key, right, pages>>
      /\ pc' \in {"split", "fill"}
  BY DEF InsertLeaf, diskVars
<1>2. UNCHANGED <<root, key, right, pages>>
  BY <1>1
<1>3. PICK c, N, M : TreeFits(c, N, M)
  BY <1>1, TreeAtHand DEF Inserting
<1>4. OwnerInv /\ key \in KeyType /\ root # NoRoot
  <2>1. OwnerInv
    BY <1>1 DEF IInv, Owner, Inserting
  <2>2. key \in KeyType
    BY <1>1, KeyFacts DEF IInv, Inserting
  <2>3. root # NoRoot
    BY <1>1, <2>1 DEF OwnerInv, RootInv, Inserting
  <2> QED BY <2>1, <2>2, <2>3
<1>5. /\ nodes = <<>> /\ root.leaf.pageId \in ToSet(c) /\ M[root.leaf.pageId] = KeyType
  BY <1>1, <1>3 DEF TreeFits, RootFits, Splitting
<1>6. /\ LeafSpans(M)' = M /\ Listed(c)' = ToSet(c)
      /\ Ordered(nodes, N, M, ToSet(c)) /\ Chain(pages, c, M)
  BY <1>1, <1>3, QuietTree DEF Linking
<1>7. CASE Full(root.leaf)
  <2>1. PICK a : a = Len(nodes) + 1
    OBVIOUS
  <2>2. PICK child : child = root.leaf.pageId
    OBVIOUS
  <2>3. /\ nodes' = Append(nodes, InternalNode(2, <<child>>)) /\ at' = a /\ slot' = 1 /\ pc' = "split"
    BY <1>7, <2>1, <2>2 DEF InsertLeaf
  <2>4. PICK N2 : N2 = [N EXCEPT ![a] = KeyType]
    OBVIOUS
  <2>5. SoundHeap(nodes, OldKeys, DOMAIN pages)
    BY <1>4 DEF OwnerInv
  <2>6. Crowns(nodes, 2, child, N, M, ToSet(c))
    BY <1>5, <2>2 DEF Crowns, HangsNowhere
  <2>7. AppendShape(nodes, 2, child, nodes', a)
    BY <2>1, <2>3, <2>5, AppendHasShape
  <2>8. nodes'[a].children[1] = child /\ N2[a] = KeyType
    <3>1. nodes'[a].children = <<child>> /\ a \in Nat
      BY <2>7 DEF AppendShape
    <3>2. N \in Spans
      BY <1>6 DEF Ordered
    <3> QED BY <2>4, <3>1, <3>2 DEF Spans
  <2>12. Ordered(nodes', N2, M, ToSet(c))
    BY <1>6, <2>4, <2>6, <2>7, AppendOrders
  <2>9. RootFits(c, N2, M)'
    BY <1>1, <1>2, <2>3, <2>8 DEF RootFits, Splitting
  <2>10. HandFits(c, N2, M)'
    BY <1>1, <1>2, <1>4, <1>5, <2>2, <2>3, <2>8 DEF HandFits, Splitting, Linking
  <2>11. TreeFits(c, N2, M)'
    BY <1>2, <1>6, <2>12, <2>9, <2>10 DEF TreeFits
  <2> QED BY <1>2, <1>4, <2>3, <2>11 DEF OrderInv, HasTree
<1>8. CASE ~Full(root.leaf)
  <2>1. nodes' = nodes /\ pc' = "fill"
    BY <1>8 DEF InsertLeaf
  <2>2. RootFits(c, N, M)'
    BY <1>1, <1>2, <1>5, <2>1 DEF RootFits, Splitting
  <2>3. HandFits(c, N, M)'
    BY <1>1, <1>2, <1>4, <1>5, <2>1 DEF HandFits, Splitting, Linking
  <2>4. TreeFits(c, N, M)'
    BY <1>2, <1>6, <2>1, <2>2, <2>3 DEF TreeFits
  <2> QED BY <1>2, <1>4, <2>1, <2>4 DEF OrderInv, HasTree
<1> QED BY <1>7, <1>8

\* insertNonFullInternal: the key goes to its place in the node at hand.
LEMMA PlaceGoes ==
  ASSUME IInv, pc = "descend"
  PROVE  Goes(nodes[at], PlaceOf(nodes[at].keys, key), key)
<1>1. OldKeys \subseteq KeyType /\ key \in KeyType /\ \A k \in OldKeys : k.id # key.id
  BY KeyFacts DEF IInv, Inserting
<1>2. at \in DOMAIN nodes
  BY PlaceIsChild
<1>3. nodes[at] \in NodeType(OldKeys)
  <2>1. SoundHeap(nodes, OldKeys, DOMAIN pages)
    BY DEF IInv, Owner, Inserting, OwnerInv
  <2> QED BY <1>2, <2>1, HeapFacts
<1>4. PICK keys : keys = nodes[at].keys
  OBVIOUS
<1>5. keys \in Seq(OldKeys)
  BY <1>3, <1>4 DEF NodeType
<1>6. PICK i : i = PlaceOf(keys, key)
  OBVIOUS
<1>7. i \in 1..Len(keys) + 1 /\ (i <= Len(keys) => Greater(keys[i], key)) /\ (i > 1 => ~Greater(keys[i - 1], key))
  BY <1>5, <1>6, PlaceFacts
<1>8. Len(keys) \in Nat /\ \A j \in 1..Len(keys) : keys[j] \in OldKeys
  BY <1>5, ElementOfSeq, LenProperties
<1>9. ASSUME i > 1 PROVE Greater(key, keys[i - 1])
  <2>1. i - 1 \in 1..Len(keys)
    BY <1>7, <1>8, <1>9, SMT
  <2>2. keys[i - 1] \in OldKeys
    BY <1>8, <2>1
  <2> QED BY <1>1, <1>7, <1>9, <2>2, OneIsGreater
<1>10. ASSUME i <= Len(keys) PROVE ~Greater(key, keys[i])
  <2>1. i \in 1..Len(keys)
    BY <1>7, <1>8, <1>10, SMT
  <2> QED BY <1>1, <1>7, <1>8, <1>10, <2>1, GreaterOneWay
<1> QED BY <1>4, <1>6, <1>9, <1>10 DEF Goes

LEMMA ReachLeafOrders ==
  ASSUME IInv, OrderInv, ReachLeaf PROVE OrderInv'
<1>1. /\ pc = "descend" /\ nodes[at].type = 2 /\ slot' = PlaceOf(nodes[at].keys, key)
      /\ leaf' = pages[nodes[at].children[slot']] /\ pc' \in {"split", "fill"}
      /\ UNCHANGED <<root, nodes, key, at, right, pages>>
  BY DEF ReachLeaf, diskVars
<1>2. PICK c, N, M : TreeFits(c, N, M)
  BY <1>1, TreeAtHand DEF Inserting
<1>3. OwnerInv
  BY <1>1 DEF IInv, Owner, Inserting
<1>4. root.kind = "node" /\ root # NoRoot
  BY <1>1, <1>3 DEF OwnerInv, RootInv, Inserting
<1>5. /\ LeafSpans(M)' = M /\ Listed(c)' = ToSet(c)
      /\ Ordered(nodes, N, M, ToSet(c)) /\ Chain(pages, c, M)
  BY <1>1, <1>2, QuietTree DEF Linking
<1>6. PICK i : i = PlaceOf(nodes[at].keys, key)
  OBVIOUS
<1>7. PICK p : p = nodes[at].children[i]
  OBVIOUS
<1>8. at \in DOMAIN nodes /\ i \in DOMAIN nodes[at].children
  BY <1>1, <1>6, PlaceIsChild
<1>9. Goes(nodes[at], i, key)
  BY <1>1, <1>6, PlaceGoes
<1>10. key \in N[at]
  BY <1>1, <1>2 DEF TreeFits, HandFits
<1>11. p \in ToSet(c) /\ key \in M[p]
  <2>1. ChildFits(nodes, N, M, ToSet(c), at, i)
    BY <1>5, <1>8, OrderedFacts
  <2>2. ChildSpan(nodes, N, M, at, i) = {x \in N[at] : Goes(nodes[at], i, x)} /\ p \in ToSet(c)
    BY <1>1, <1>7, <2>1 DEF ChildFits
  <2>3. ChildSpan(nodes, N, M, at, i) = M[p]
    BY <1>1, <1>7 DEF ChildSpan
  <2> QED BY <1>9, <1>10, <2>2, <2>3
<1>12. p \in DOMAIN pages /\ pages[p].pageId = p
  <2>1. p \in DOMAIN pages
    BY <1>5, <1>11, ChainFacts DEF ToSet
  <2>2. PendingInv /\ Pending = {}
    BY <1>1, <1>3 DEF OwnerInv, Pending
  <2> QED BY <2>1, <2>2 DEF PendingInv
<1>13. leaf'.pageId = p /\ nodes'[at'].children[slot'] = p
  BY <1>1, <1>6, <1>7, <1>12
<1>14. RootFits(c, N, M)'
  BY <1>1, <1>2, <1>4 DEF TreeFits, RootFits
<1>15. HandFits(c, N, M)'
  BY <1>1, <1>11, <1>13 DEF HandFits, Splitting, Linking
<1>16. TreeFits(c, N, M)'
  BY <1>1, <1>5, <1>14, <1>15 DEF TreeFits
<1> QED BY <1>1, <1>4, <1>16 DEF OrderInv, HasTree
-----------------------------------------------------------------------------
(* Nodes that are split                                                    *)

\* What splitting a full child of a node leaves of the tree: its span is
\* halved, every other span is kept.
SplitTree(heap, p, i, h, fresh, c, k, N, N2, L, P) ==
  /\ Ordered(h, N2, L, P) /\ N \in Spans /\ N2 \in Spans
  /\ k \in KeyType /\ h[p].keys[i] = k /\ h[p].children[i + 1] = fresh
  /\ c \in DOMAIN heap /\ c # p /\ p \in DOMAIN heap /\ fresh \notin DOMAIN heap
  /\ N[c] = {x \in N[p] : Goes(heap[p], i, x)}
  /\ N2[c] = {x \in N[c] : ~Greater(x, k)} /\ N2[fresh] = {x \in N[c] : Greater(x, k)}
  /\ \A d \in DOMAIN heap \ {c} : N2[d] = N[d]

LEMMA TreeSplits ==
  ASSUME NEW K, K \subseteq KeyType, NEW Q, NEW heap, SoundHeap(heap, K, Q),
         NEW p \in Inner(heap), NEW i \in DOMAIN heap[p].children,
         NEW c, c = heap[p].children[i], Full(heap[c]),
         NEW h, h = SplitInternalNode(heap, p, i),
         NEW N, NEW L, NEW P, Ordered(heap, N, L, P)
  PROVE  \E fresh, k, N2 : SplitTree(heap, p, i, h, fresh, c, k, N, N2, L, P)
<1> PICK fresh : fresh = Len(heap) + 1
  OBVIOUS
<1> PICK k : k = heap[c].keys[MinDegree]
  OBVIOUS
<1> PICK N2 : N2 = Halve(N, c, fresh, k)
  OBVIOUS
<1>1. PICK m, l, r : SplitShape(K, heap, p, i, h, fresh, c, m, l, r)
  BY SplitHasShape
<1>2. SplitKey(heap, p, i, c, k, N)
  BY <1>1, SplitKeyFits
<1>3. Ordered(h, N2, L, P)
  BY SplitOrders
<1>4. /\ fresh \notin DOMAIN heap /\ fresh \in Nat
      /\ p \in DOMAIN heap /\ c \in DOMAIN heap /\ c # p /\ c \in Nat /\ h[p] = m
      /\ Adopted(K, heap[p], i, k, fresh, m)
  BY <1>1 DEF SplitShape
<1>5. h[p].keys[i] = k /\ h[p].children[i + 1] = fresh
  BY <1>4 DEF Adopted
<1>6. N \in Spans
  BY DEF Ordered
<1>7. /\ N2 \in Spans /\ N2[c] = {x \in N[c] : ~Greater(x, k)} /\ N2[fresh] = {x \in N[c] : Greater(x, k)}
      /\ \A d \in Nat \ {c, fresh} : N2[d] = N[d]
  BY <1>4, <1>6, HalveFacts
<1>8. \A d \in DOMAIN heap : d \in Nat /\ d # fresh
  <2>1. \A d \in DOMAIN heap : d \in Nat
    BY HeapFacts, SMT
  <2> QED BY <1>4, <2>1
<1>9. k \in KeyType /\ N[c] = {x \in N[p] : Goes(heap[p], i, x)}
  BY <1>2 DEF SplitKey
<1>10. SplitTree(heap, p, i, h, fresh, c, k, N, N2, L, P)
  BY <1>3, <1>4, <1>5, <1>6, <1>7, <1>8, <1>9, Zenon DEF SplitTree
<1> QED BY <1>10

LEMMA DescendOrders ==
  ASSUME IInv, OrderInv, Descend PROVE OrderInv'
<1>1. /\ pc = "descend" /\ nodes[at].type = 1 /\ pc' = "descend"
      /\ UNCHANGED <<root, key, slot, leaf, right, pages>>
  BY DEF Descend, diskVars
<1>2. PICK c, N, M : TreeFits(c, N, M)
  BY <1>1, TreeAtHand DEF Inserting
<1>3. OwnerInv /\ OldKeys \subseteq KeyType /\ key \in KeyType
  BY <1>1, KeyFacts DEF IInv, Owner, Inserting
<1>4. /\ root.kind = "node" /\ root # NoRoot /\ Top(nodes, root.at)
      /\ SoundHeap(nodes, OldKeys, DOMAIN pages)
  BY <1>1, <1>3 DEF OwnerInv, RootInv, Inserting
<1>5. /\ LeafSpans(M)' = M /\ Listed(c)' = ToSet(c)
      /\ Ordered(nodes, N, M, ToSet(c)) /\ Chain(pages, c, M)
  BY <1>1, <1>2, QuietTree DEF Linking
<1>6. PICK i : i = PlaceOf(nodes[at].keys, key)
  OBVIOUS
<1>7. PICK child : child = nodes[at].children[i]
  OBVIOUS
<1>8. at \in Inner(nodes) /\ at \in DOMAIN nodes /\ i \in DOMAIN nodes[at].children
  BY <1>1, <1>6, PlaceIsChild
<1>9. Goes(nodes[at], i, key)
  BY <1>1, <1>6, PlaceGoes
<1>10. key \in N[at] /\ N[root.at] = KeyType
  BY <1>1, <1>2, <1>4 DEF TreeFits, HandFits, RootFits
<1>11. key \in N[child]
  <2>1. ChildFits(nodes, N, M, ToSet(c), at, i)
    BY <1>5, <1>8, OrderedFacts
  <2>2. ChildSpan(nodes, N, M, at, i) = {x \in N[at] : Goes(nodes[at], i, x)}
    BY <2>1 DEF ChildFits
  <2>3. ChildSpan(nodes, N, M, at, i) = N[child]
    BY <1>1, <1>7 DEF ChildSpan
  <2> QED BY <1>9, <1>10, <2>2, <2>3
<1>12. ASSUME NEW N2, Ordered(nodes', N2, M, ToSet(c)), N2[root.at] = KeyType, key \in N2[at']
       PROVE  OrderInv'
  <2>1. RootFits(c, N2, M)'
    BY <1>1, <1>4, <1>12 DEF RootFits
  <2>2. HandFits(c, N2, M)'
    BY <1>1, <1>12 DEF HandFits, Splitting, Linking
  <2>3. TreeFits(c, N2, M)'
    BY <1>1, <1>5, <1>12, <2>1, <2>2 DEF TreeFits
  <2> QED BY <1>1, <1>4, <2>3 DEF OrderInv, HasTree
<1>13. CASE ~Full(nodes[child])
  <2>1. at' = child /\ nodes' = nodes
    BY <1>6, <1>7, <1>13 DEF Descend
  <2> QED BY <1>5, <1>10, <1>11, <1>12, <2>1
<1>14. CASE Full(nodes[child])
  <2>1. /\ nodes' = SplitInternalNode(nodes, at, i)
        /\ at' = IF Greater(key, nodes'[at].keys[i]) THEN nodes'[at].children[i + 1] ELSE child
    BY <1>6, <1>7, <1>14 DEF Descend
  <2>2. PICK fresh, k, N2 : SplitTree(nodes, at, i, nodes', fresh, child, k, N, N2, M, ToSet(c))
    BY <1>3, <1>4, <1>5, <1>7, <1>8, <1>14, <2>1, TreeSplits
  <2>3. /\ Ordered(nodes', N2, M, ToSet(c)) /\ nodes'[at].keys[i] = k /\ nodes'[at].children[i + 1] = fresh
        /\ N2[child] = {x \in N[child] : ~Greater(x, k)} /\ N2[fresh] = {x \in N[child] : Greater(x, k)}
        /\ \A d \in DOMAIN nodes \ {child} : N2[d] = N[d]
    BY <2>2 DEF SplitTree
  <2>4. root.at \in DOMAIN nodes \ {child}
    BY <1>4, <1>7, <1>8 DEF Top, ChildAt
  <2>5. key \in N2[at']
    BY <1>11, <2>1, <2>3
  <2> QED BY <1>10, <1>12, <2>3, <2>4, <2>5
<1> QED BY <1>13, <1>14

LEMMA InsertInternalOrders ==
  ASSUME IInv, OrderInv, InsertInternal PROVE OrderInv'
<1>1. /\ pc = "insert" /\ root.kind = "node" /\ pc' = "descend" /\ at' = root'.at
      /\ UNCHANGED <<key, slot, leaf, right, pages>>
  BY DEF InsertInternal, diskVars
<1>2. PICK c, N, M : TreeFits(c, N, M)
  BY <1>1, TreeAtHand DEF Inserting
<1>3. OwnerInv /\ OldKeys \subseteq KeyType /\ key \in KeyType
  BY <1>1, KeyFacts DEF IInv, Owner, Inserting
<1>4. Top(nodes, root.at) /\ root # NoRoot /\ SoundHeap(nodes, OldKeys, DOMAIN pages)
  BY <1>1, <1>3 DEF OwnerInv, RootInv, Inserting
<1>5. /\ LeafSpans(M)' = M /\ Listed(c)' = ToSet(c) /\ N \in Spans
      /\ Ordered(nodes, N, M, ToSet(c)) /\ Chain(pages, c, M)
  BY <1>1, <1>2, QuietTree DEF Linking
<1>6. N[root.at] = KeyType
  BY <1>1, <1>2 DEF TreeFits, RootFits
<1>7. ASSUME NEW N2, Ordered(nodes', N2, M, ToSet(c)), root'.kind = "node", root' # NoRoot, N2[root'.at] = KeyType
      PROVE  OrderInv'
  <2>1. RootFits(c, N2, M)'
    BY <1>7 DEF RootFits
  <2>2. HandFits(c, N2, M)'
    BY <1>1, <1>3, <1>7 DEF HandFits, Splitting, Linking
  <2>3. TreeFits(c, N2, M)'
    BY <1>1, <1>5, <1>7, <2>1, <2>2 DEF TreeFits
  <2> QED BY <1>1, <1>7, <2>3 DEF OrderInv, HasTree
<1>8. CASE ~Full(nodes[root.at])
  <2>1. nodes' = nodes /\ root' = root
    BY <1>8 DEF InsertInternal
  <2> QED BY <1>1, <1>4, <1>5, <1>6, <1>7, <2>1
<1>9. CASE Full(nodes[root.at])
  <2>1. PICK old : old = root.at
    OBVIOUS
  <2>2. PICK parent : parent = Len(nodes) + 1
    OBVIOUS
  <2>3. PICK g : g = Append(nodes, InternalNode(1, <<old>>))
    OBVIOUS
  <2>4. nodes' = SplitInternalNode(g, parent, 1) /\ root' = NodeRoot(parent)
    BY <1>9, <2>1, <2>2, <2>3 DEF InsertInternal
  <2>5. /\ Top(nodes, old) /\ N[old] = KeyType /\ Full(nodes[old])
    BY <1>4, <1>6, <1>9, <2>1
  <2>6. old \in DOMAIN nodes /\ old \in Nat
    BY <1>4, <2>5, HeapFacts, SMT DEF Top
  <2>7. AppendShape(nodes, 1, old, g, parent)
    BY <1>4, <2>2, <2>3, AppendHasShape
  <2>8. AppendsSound(OldKeys, DOMAIN pages, nodes, 1, old, g, parent)
    BY <1>4, <2>2, <2>3, <2>5, <2>6, SoundAppends
  <2>9. PICK N1 : N1 = [N EXCEPT ![parent] = KeyType]
    OBVIOUS
  <2>10. Ordered(g, N1, M, ToSet(c))
    BY <1>4, <1>5, <2>5, <2>7, <2>9, ParentOrders
  <2>11. /\ SoundHeap(g, OldKeys, DOMAIN pages) /\ parent \in Inner(g) /\ 1 \in DOMAIN g[parent].children
         /\ g[parent].children[1] = old /\ g[old] = nodes[old] /\ parent \in DOMAIN g
    BY <2>6, <2>8 DEF AppendsSound, Top, Inner
  <2>12. N1[parent] = KeyType
    BY <1>5, <2>7, <2>9 DEF AppendShape, Spans
  <2>13. Full(g[old])
    BY <2>5, <2>11
  <2>14. PICK fresh, k, N2 : SplitTree(g, parent, 1, nodes', fresh, old, k, N1, N2, M, ToSet(c))
    BY <1>3, <2>4, <2>10, <2>11, <2>13, TreeSplits
  <2>15. Ordered(nodes', N2, M, ToSet(c)) /\ N2[parent] = KeyType
    BY <2>12, <2>14 DEF SplitTree
  <2>16. root'.kind = "node" /\ root' # NoRoot /\ root'.at = parent
    BY <2>4 DEF NodeRoot, NoRoot
  <2> QED BY <1>7, <2>15, <2>16
<1> QED BY <1>8, <1>9
-----------------------------------------------------------------------------
(* The steps of a split                                                    *)

\* The leaf at hand and its span.
LeafFits(c, N, M) ==
  /\ leaf.pageId \in ToSet(c) /\ leaf.pageId \in Nat /\ leaf.pageId \in DOMAIN pages
  /\ leaf = pages[leaf.pageId] /\ leaf.keys \in Seq(OldKeys) /\ OldKeys \subseteq KeyType
  /\ ToSet(leaf.keys) \subseteq M[leaf.pageId] /\ Rising(leaf.keys) /\ M[leaf.pageId] \subseteq KeyType
  /\ key \in M[leaf.pageId] /\ key \in KeyType
LEMMA LeafHasSpan ==
  ASSUME IInv, NEW c, NEW N, NEW M, TreeFits(c, N, M), pc \in Splitting \cup {"fill"}
  PROVE  LeafFits(c, N, M)
<1>1. /\ leaf.pageId \in DOMAIN pages /\ leaf = pages[leaf.pageId] /\ leaf.keys \in Seq(OldKeys)
      /\ leaf.pageId \in Nat
  BY LeafAtHand
<1>2. OldKeys \subseteq KeyType /\ key \in KeyType
  BY KeyFacts DEF IInv, Inserting, Splitting
<1>3. leaf.pageId \in ToSet(c) /\ key \in M[leaf.pageId] /\ Chain(pages, c, M)
  BY DEF TreeFits, HandFits
<1>4. M \in Spans /\ \A i \in DOMAIN c : KeysIn(pages, M, c[i])
  BY <1>3, ChainFacts
<1>5. KeysIn(pages, M, leaf.pageId)
  BY <1>3, <1>4 DEF ToSet
<1>6. ToSet(leaf.keys) \subseteq M[leaf.pageId] /\ Rising(leaf.keys)
  <2>1. PICK p : p = leaf.pageId
    OBVIOUS
  <2>2. pages[p].keys = leaf.keys /\ KeysIn(pages, M, p)
    BY <1>1, <1>5, <2>1
  <2> QED BY <2>1, <2>2 DEF KeysIn
<1>7. M[leaf.pageId] \subseteq KeyType
  BY <1>1, <1>4 DEF Spans
<1> QED BY <1>1, <1>2, <1>3, <1>6, <1>7 DEF LeafFits

\* The key of a split is in the span, and so is a greater one.
LEMMA SplitKeyInSpan ==
  ASSUME IInv, NEW c, NEW N, NEW M, LeafFits(c, N, M), pc \in Splitting
  PROVE  /\ leaf.keys[MinDegree] \in M[leaf.pageId] /\ leaf.keys[MinDegree] \in OldKeys
         /\ \E x \in M[leaf.pageId] : Greater(x, leaf.keys[MinDegree])
<1>1. /\ Len(leaf.keys) = 2 * MinDegree - 1 /\ leaf.keys[MinDegree] \in OldKeys
      /\ leaf.keys \in Seq(OldKeys)
  BY LeafAtHand
<1>2. PICK s : s = leaf.keys
  OBVIOUS
<1>3. PICK d \in Nat : d = MinDegree /\ d >= 2
  BY BPlusTreeAssumption
<1>4. DOMAIN s = 1..Len(s) /\ Len(s) = 2 * d - 1
  BY <1>1, <1>2, <1>3, LenProperties
<1>5. d \in DOMAIN s /\ d + 1 \in DOMAIN s /\ d < d + 1
  BY <1>3, <1>4, SMT
<1>6. Greater(s[d + 1], s[d]) /\ s[d] \in ToSet(s) /\ s[d + 1] \in ToSet(s)
  BY <1>2, <1>5 DEF LeafFits, Rising, ToSet
<1>7. ToSet(s) \subseteq M[leaf.pageId]
  BY <1>2 DEF LeafFits
<1> QED BY <1>1, <1>2, <1>3, <1>6, <1>7

LEMMA AllocateRightOrders ==
  ASSUME IInv, OrderInv, AllocateRight PROVE OrderInv'
<1>1. /\ pc = "split" /\ AllocatePage /\ right' = pageCount /\ pc' = "writeRight"
      /\ nodes' = [nodes EXCEPT ![at] = Adopt(@, slot, leaf.keys[MinDegree], pageCount)]
      /\ UNCHANGED <<root, key, at, slot, leaf>>
  BY DEF AllocateRight
<1>2. PICK c, N, M : TreeFits(c, N, M)
  BY <1>1, TreeAtHand DEF Inserting
<1>3. OwnerInv /\ PagesAreNumbered /\ OldKeys \subseteq KeyType
  BY <1>1, KeyFacts DEF IInv, Owner, Inserting
<1>4. /\ SoundHeap(nodes, OldKeys, DOMAIN pages) /\ root # NoRoot
      /\ at \in DOMAIN nodes /\ nodes[at].type = 2 /\ slot \in DOMAIN nodes[at].children
  BY <1>1, <1>3 DEF OwnerInv, RootInv, PlaceInv, Splitting, Inserting
<1>5. PICK page : page = pageCount
  OBVIOUS
<1>6. page \in Nat /\ page \notin DOMAIN pages /\ DOMAIN pages \subseteq Nat
  BY <1>1, <1>3, <1>5, NumberFacts DEF Inserting
<1>7. Ordered(nodes, N, M, ToSet(c)) /\ Chain(pages, c, M) /\ RootFits(c, N, M) /\ HandFits(c, N, M)
  BY <1>1, <1>2 DEF TreeFits, LeafSpans, Listed, Linking
<1>8. ToSet(c) \subseteq DOMAIN pages
  BY <1>7, ChainFacts DEF ToSet
<1>9. LeafFits(c, N, M)
  BY <1>1, <1>2, LeafHasSpan DEF Splitting
<1>10. PICK p : p = leaf.pageId
  OBVIOUS
<1>11. PICK k : k = leaf.keys[MinDegree]
  OBVIOUS
<1>12. k \in M[p] /\ k \in OldKeys /\ \E x \in M[p] : Greater(x, k)
  BY <1>1, <1>9, <1>10, <1>11, SplitKeyInSpan DEF Splitting
<1>13. p = nodes[at].children[slot] /\ p \in ToSet(c)
  BY <1>1, <1>7, <1>10 DEF HandFits, Splitting
<1>14. ASSUME slot <= Len(nodes[at].keys) PROVE Greater(nodes[at].keys[slot], k)
  <2>1. PICK x \in M[p] : Greater(x, k)
    BY <1>12
  <2>2. ChildFits(nodes, N, M, ToSet(c), at, slot)
    BY <1>4, <1>7, OrderedFacts
  <2>3. ChildSpan(nodes, N, M, at, slot) = {y \in N[at] : Goes(nodes[at], slot, y)}
    BY <2>2 DEF ChildFits
  <2>4. ChildSpan(nodes, N, M, at, slot) = M[p]
    BY <1>4, <1>13 DEF ChildSpan
  <2>5. ~Greater(x, nodes[at].keys[slot])
    BY <1>14, <2>1, <2>3, <2>4 DEF Goes
  <2>6. nodes[at].keys[slot] \in OldKeys
    <3>1. nodes[at] \in NodeType(OldKeys) /\ NodeLengths(nodes[at])
      BY <1>4, HeapFacts
    <3>2. PICK n : n = nodes[at]
      OBVIOUS
    <3>3. n.keys \in Seq(OldKeys) /\ n.children \in Seq(Nat)
      BY <3>1, <3>2 DEF NodeType
    <3>4. slot \in 1..Len(n.children) /\ Len(n.keys) \in Nat /\ Len(n.children) \in Nat /\ slot <= Len(n.keys)
      BY <1>4, <1>14, <3>2, <3>3, LenProperties
    <3>5. slot \in 1..Len(n.keys)
      BY <3>4, SMT
    <3> QED BY <3>2, <3>3, <3>5, ElementOfSeq
  <2>7. x \in KeyType /\ k \in KeyType /\ nodes[at].keys[slot] \in KeyType
    BY <1>3, <1>9, <1>10, <1>12, <2>1, <2>6 DEF LeafFits
  <2> QED BY <2>1, <2>5, <2>7, GreaterChains
<1>15. PICK L2 : L2 = Halve(M, p, page, k)
  OBVIOUS
<1>16. PICK m : AdoptShape(OldKeys, nodes, at, slot, k, page, nodes', m)
  BY <1>1, <1>4, <1>5, <1>6, <1>11, <1>12, AdoptHasShape
<1>17. Ordered(nodes', N, L2, ToSet(c) \cup {page})
  <2>1. ToSet(c) \subseteq Nat /\ page \notin ToSet(c)
    BY <1>6, <1>8
  <2> QED BY <1>3, <1>4, <1>6, <1>7, <1>12, <1>13, <1>14, <1>15, <1>16, <2>1, ShapeOrders
<1>18. LeafSpans(M)' = L2 /\ Listed(c)' = ToSet(c) \cup {page}
  BY <1>1, <1>5, <1>10, <1>11, <1>15 DEF LeafSpans, Listed, Linking
<1>19. Chain(pages', c, M)
  <2>1. DOMAIN pages \subseteq DOMAIN pages' /\ \A q \in DOMAIN pages : pages'[q] = pages[q]
    BY <1>1, <1>5, <1>6 DEF AllocatePage
  <2>2. \A q \in DOMAIN pages' : q \in DOMAIN pages \/ pages'[q].keys = <<>>
    BY <1>1 DEF AllocatePage, ZeroPage
  <2>3. \A q \in ToSet(c) : pages'[q] = pages[q]
    BY <1>8, <2>1
  <2>4. \A q \in DOMAIN pages' : \A x \in ToSet(pages'[q].keys) :
          \E o \in DOMAIN pages : x \in ToSet(pages[o].keys)
    <3>1. ToSet(<<>>) = {}
      BY DEF ToSet
    <3> QED BY <2>1, <2>2, <3>1
  <2> QED BY <1>7, <2>1, <2>3, <2>4, ChainKept
<1>20. nodes'[at].children[slot] = p /\ nodes'[at].keys[slot] = k
  <2>1. /\ nodes'[at] = m /\ Adopted(OldKeys, nodes[at], slot, k, page, m)
    BY <1>16 DEF AdoptShape
  <2>2. /\ slot \in 1..Len(nodes[at].keys) + 1 /\ Len(nodes[at].keys) \in Nat /\ m.keys[slot] = k
        /\ \A j \in 1..slot : m.children[j] = nodes[at].children[j]
    BY <2>1 DEF Adopted
  <2>3. slot \in 1..slot
    BY <2>2, SMT
  <2> QED BY <1>13, <2>1, <2>2, <2>3
<1>21. RootFits(c, N, M)'
  BY <1>1, <1>7 DEF RootFits, Splitting
<1>22. HandFits(c, N, M)'
  <2>1. right' \notin ToSet(c)
    BY <1>1, <1>5, <1>6, <1>8
  <2>2. leaf.pageId \in ToSet(c) /\ key \in M[leaf.pageId]
    BY <1>9 DEF LeafFits
  <2> QED BY <1>1, <1>10, <1>11, <1>20, <2>1, <2>2 DEF HandFits, Splitting, Linking
<1>23. TreeFits(c, N, M)'
  BY <1>17, <1>18, <1>19, <1>21, <1>22 DEF TreeFits
<1> QED BY <1>1, <1>4, <1>23 DEF OrderInv, HasTree

LEMMA WriteRightOrders ==
  ASSUME IInv, OrderInv, WriteRight PROVE OrderInv'
<1>1. /\ pc = "writeRight" /\ WritePage(right, RightHalf) /\ pc' = "writeLeft"
      /\ UNCHANGED <<root, nodes, key, at, slot, leaf, right>>
  BY DEF WriteRight, callVars
<1>2. PICK c, N, M : TreeFits(c, N, M)
  BY <1>1, TreeAtHand DEF Inserting
<1>3. right \in DOMAIN pages /\ ToSet(LeftHalf.keys) \cup ToSet(RightHalf.keys) = ToSet(leaf.keys)
  BY <1>1, HalfFacts
<1>4. /\ Chain(pages, c, M) /\ Ordered(nodes, N, LeafSpans(M), Listed(c))
      /\ RootFits(c, N, M) /\ HandFits(c, N, M)
  BY <1>2 DEF TreeFits
<1>5. LeafFits(c, N, M)
  BY <1>1, <1>2, LeafHasSpan DEF Splitting
<1>6. right \notin ToSet(c)
  BY <1>1, <1>4 DEF HandFits, Linking
<1>7. /\ DOMAIN pages' = DOMAIN pages /\ pages'[right] = RightHalf
      /\ \A p \in DOMAIN pages : p # right => pages'[p] = pages[p]
  BY <1>1, <1>3, WriteFacts
<1>8. Chain(pages', c, M)
  <2>1. ToSet(c) \subseteq DOMAIN pages
    BY <1>4, ChainFacts DEF ToSet
  <2>2. \A p \in ToSet(c) : pages'[p] = pages[p]
    BY <1>6, <1>7, <2>1
  <2>3. \A q \in DOMAIN pages' : \A x \in ToSet(pages'[q].keys) :
          \E o \in DOMAIN pages : x \in ToSet(pages[o].keys)
    <3>1. ASSUME NEW x \in ToSet(RightHalf.keys) PROVE x \in ToSet(pages[leaf.pageId].keys)
      <4>1. x \in ToSet(leaf.keys)
        BY <1>3
      <4> QED BY <1>5, <4>1 DEF LeafFits
    <3>2. leaf.pageId \in DOMAIN pages
      BY <1>5 DEF LeafFits
    <3> QED BY <1>7, <3>1, <3>2
  <2> QED BY <1>4, <1>7, <2>2, <2>3, ChainKept
<1>9. LeafSpans(M)' = LeafSpans(M) /\ Listed(c)' = Listed(c)
  BY <1>1 DEF LeafSpans, Listed, Linking
<1>10. RootFits(c, N, M)'
  BY <1>1, <1>4 DEF RootFits, Splitting
<1>11. HandFits(c, N, M)'
  BY <1>1, <1>4 DEF HandFits, Splitting, Linking
<1>12. TreeFits(c, N, M)'
  BY <1>1, <1>4, <1>8, <1>9, <1>10, <1>11 DEF TreeFits
<1>13. root # NoRoot
  BY <1>1 DEF IInv, Owner, OwnerInv, RootInv, Inserting
<1> QED BY <1>1, <1>12, <1>13 DEF OrderInv, HasTree

LEMMA WriteLeftOrders ==
  ASSUME IInv, OrderInv, WriteLeft PROVE OrderInv'
<1>1. /\ pc = "writeLeft" /\ WritePage(leaf.pageId, LeftHalf)
      /\ UNCHANGED <<nodes, key, at, slot, right>>
      /\ pc' = IF root.kind = "leaf" THEN "descend" ELSE "fill"
      /\ root.kind = "leaf" => root' = NodeRoot(at)
      /\ root.kind # "leaf" =>
           /\ root' = root
           /\ leaf' = IF Greater(key, nodes[at].keys[slot])
                      THEN pages[nodes[at].children[slot + 1]] ELSE LeftHalf
  BY DEF WriteLeft
<1>2. PICK c, N, M : TreeFits(c, N, M)
  BY <1>1, TreeAtHand DEF Inserting
<1>3. OwnerInv /\ OldKeys \subseteq KeyType /\ key \in KeyType
  BY <1>1, KeyFacts DEF IInv, Owner, Inserting
<1>4. /\ root # NoRoot /\ root.kind \in {"leaf", "node"} /\ right \in DOMAIN pages /\ right # leaf.pageId
      /\ pages[right] = RightHalf /\ nodes[at].children[slot + 1] = right
  BY <1>1, <1>3 DEF OwnerInv, RootInv, PlaceInv, LeafInv, Inserting
<1>5. /\ Chain(pages, c, M) /\ Ordered(nodes, N, LeafSpans(M), Listed(c))
      /\ RootFits(c, N, M) /\ HandFits(c, N, M)
  BY <1>2 DEF TreeFits
<1>6. LeafFits(c, N, M)
  BY <1>1, <1>2, LeafHasSpan DEF Splitting
<1>7. PICK p : p = leaf.pageId
  OBVIOUS
<1>8. PICK k : k = leaf.keys[MinDegree]
  OBVIOUS
<1>9. PICK r : r = right
  OBVIOUS
<1>10. /\ r \notin ToSet(c) /\ nodes[at].keys[slot] = k
  BY <1>1, <1>5, <1>8, <1>9 DEF HandFits, Linking
<1>11. r \in Nat
  BY <1>4, <1>9, NumberFacts DEF IInv
<1>12. /\ p \in ToSet(c) /\ p \in Nat /\ p \in DOMAIN pages /\ leaf = pages[p]
       /\ pages[p].keys \in Seq(OldKeys) /\ k = pages[p].keys[MinDegree] /\ key \in M[p]
  BY <1>6, <1>7, <1>8 DEF LeafFits
<1>13. MinDegree \in DOMAIN pages[p].keys
  <2>1. Len(leaf.keys) = 2 * MinDegree - 1
    BY <1>1, LeafAtHand DEF Splitting
  <2>2. PICK s : s = pages[p].keys
    OBVIOUS
  <2>3. PICK d \in Nat : d = MinDegree /\ d >= 2
    BY BPlusTreeAssumption
  <2>4. DOMAIN s = 1..Len(s) /\ Len(s) = 2 * d - 1
    BY <1>12, <2>1, <2>2, <2>3, LenProperties
  <2>5. d \in DOMAIN s
    BY <2>3, <2>4, SMT
  <2> QED BY <2>2, <2>3, <2>5
<1>14. /\ DOMAIN pages' = DOMAIN pages /\ pages'[p] = LeftHalf
       /\ \A q \in DOMAIN pages : q # p => pages'[q] = pages[q]
  BY <1>1, <1>7, <1>12, WriteFacts
<1>15. SplitPages(pages, pages', p, r)
  <2>1. pages[r].keys = From(leaf.keys, MinDegree + 1) /\ pages[r].next = leaf.next
    BY <1>4, <1>9 DEF RightHalf
  <2>2. pages'[p].keys = Upto(leaf.keys, MinDegree) /\ pages'[p].next = r
    <3>1. leaf \in PageType(OldKeys)
      BY <1>1, LeafAtHand DEF Splitting
    <3> QED BY <1>9, <1>14, <3>1 DEF LeftHalf, PageType
  <2> QED BY <1>4, <1>7, <1>9, <1>12, <1>14, <2>1, <2>2 DEF SplitPages
<1>16. PICK i \in DOMAIN c : c[i] = p
  BY <1>12 DEF ToSet
<1>17. PICK d : d = InsertAt(c, i + 1, r)
  OBVIOUS
<1>18. Longer(c, i, r, d)
  BY <1>5, <1>11, <1>17, ChainFacts, LongerFacts
<1>19. PICK M2 : M2 = Halve(M, p, r, k)
  OBVIOUS
<1>20. Chain(pages', d, M2) /\ ToSet(d) = ToSet(c) \cup {r}
  BY <1>3, <1>5, <1>10, <1>11, <1>12, <1>13, <1>15, <1>16, <1>18, <1>19, ChainSplits
<1>21. LeafSpans(M) = M2 /\ Listed(c) = ToSet(d)
  BY <1>1, <1>7, <1>8, <1>9, <1>19, <1>20 DEF LeafSpans, Listed, Linking
<1>22. LeafSpans(M2)' = M2 /\ Listed(d)' = ToSet(d)
  BY <1>1 DEF LeafSpans, Listed, Linking
<1>23. Ordered(nodes', N, LeafSpans(M2)', Listed(d)')
  BY <1>1, <1>5, <1>21, <1>22
<1>24. /\ M2[p] = {x \in M[p] : ~Greater(x, k)} /\ M2[r] = {x \in M[p] : Greater(x, k)}
  <2>1. M \in Spans /\ r # p
    BY <1>4, <1>5, <1>7, <1>9, ChainFacts
  <2> QED BY <1>11, <1>12, <1>19, <2>1, HalveFacts
<1>25. CASE root.kind = "leaf"
  <2>1. pc' = "descend" /\ root' = NodeRoot(at) /\ at' = at /\ key' = key
    BY <1>1, <1>25
  <2>2. N[at] = KeyType
    BY <1>1, <1>5, <1>25 DEF RootFits, Splitting
  <2>3. root'.kind = "node" /\ root'.at = at /\ root' # NoRoot
    BY <2>1 DEF NodeRoot, NoRoot
  <2>4. RootFits(d, N, M2)'
    BY <2>2, <2>3 DEF RootFits
  <2>5. HandFits(d, N, M2)'
    BY <1>3, <2>1, <2>2 DEF HandFits, Splitting, Linking
  <2>6. TreeFits(d, N, M2)'
    BY <1>20, <1>23, <2>4, <2>5 DEF TreeFits
  <2> QED BY <2>1, <2>3, <2>6 DEF OrderInv, HasTree
<1>26. CASE root.kind = "node"
  <2>1. /\ pc' = "fill" /\ root' = root /\ key' = key
        /\ leaf' = IF Greater(key, k) THEN pages[r] ELSE LeftHalf
    BY <1>1, <1>4, <1>9, <1>10, <1>26
  <2>2. RightHalf.pageId = r /\ LeftHalf.pageId = p
    BY <1>1, <1>7, <1>9, HalfFacts
  <2>3. leaf'.pageId \in ToSet(d) /\ key \in M2[leaf'.pageId]
    <3>1. CASE Greater(key, k)
      <4>1. leaf'.pageId = r
        BY <1>4, <1>9, <2>1, <2>2, <3>1
      <4> QED BY <1>12, <1>20, <1>24, <3>1, <4>1
    <3>2. CASE ~Greater(key, k)
      <4>1. leaf'.pageId = p
        BY <2>1, <2>2, <3>2
      <4> QED BY <1>12, <1>20, <1>24, <3>2, <4>1
    <3> QED BY <3>1, <3>2
  <2>4. RootFits(d, N, M2)'
    BY <1>5, <1>26, <2>1 DEF RootFits
  <2>5. HandFits(d, N, M2)'
    BY <2>1, <2>3 DEF HandFits, Splitting, Linking
  <2>6. TreeFits(d, N, M2)'
    BY <1>20, <1>23, <2>4, <2>5 DEF TreeFits
  <2> QED BY <1>4, <2>1, <2>6 DEF OrderInv, HasTree
<1> QED BY <1>4, <1>25, <1>26

\* insertNonFullLeaf: the keys still ascend.
LEMMA InsertRises ==
  ASSUME NEW K, K \subseteq KeyType, NEW s \in Seq(K), Rising(s), NEW x \in KeyType,
         \A y \in K : y.id # x.id
  PROVE  Rising(InsertAt(s, PlaceOf(s, x), x))
<1>1. PICK n : n = PlaceOf(s, x)
  OBVIOUS
<1>2. n \in 1..Len(s) + 1 /\ (n <= Len(s) => Greater(s[n], x)) /\ (n > 1 => ~Greater(s[n - 1], x))
  BY <1>1, PlaceFacts
<1>3. PICK size \in Nat : size = Len(s)
  BY LenProperties
<1>4. DOMAIN s = 1..size /\ \A i \in 1..size : s[i] \in K /\ s[i] \in KeyType
  BY <1>3, ElementOfSeq, LenProperties
<1>5. PICK w : w = InsertAt(s, n, x)
  OBVIOUS
<1>6. s \in Seq(K \cup {x})
  <2>1. \A i \in 1..size : s[i] \in K \cup {x}
    BY <1>4
  <2> QED BY <1>3, <1>4, <2>1, SMT
<1>7. InsertedAt(K \cup {x}, s, n, x, w)
  <2>1. PICK U : U = K \cup {x}
    OBVIOUS
  <2>2. s \in Seq(U) /\ x \in U
    BY <1>6, <2>1
  <2>3. InsertedAt(U, s, n, x, InsertAt(s, n, x))
    BY <1>2, <2>2, LongerAt
  <2> QED BY <1>5, <2>1, <2>3
<1>8. /\ DOMAIN w = 1..size + 1 /\ n \in 1..size + 1
      /\ \A j \in 1..n - 1 : w[j] = s[j]
      /\ w[n] = x
      /\ \A j \in n + 1..size + 1 : w[j] = s[j - 1]
  BY <1>2, <1>3, <1>7 DEF InsertedAt
\* The keys before the place are less, those behind it are greater.
<1>9. ASSUME NEW j \in 1..n - 1 PROVE Greater(x, s[j]) /\ j \in 1..size
  <2>1. n > 1 /\ n - 1 \in 1..size /\ j \in 1..size /\ (j = n - 1 \/ j < n - 1)
    BY <1>8, SMT
  <2>2. Greater(x, s[n - 1])
    BY <1>2, <1>4, <2>1, OneIsGreater
  <2>3. CASE j < n - 1
    <3>1. Greater(s[n - 1], s[j])
      BY <1>4, <2>1, <2>3 DEF Rising
    <3> QED BY <1>4, <2>1, <2>2, <3>1, GreaterThrough
  <2> QED BY <2>1, <2>2, <2>3
<1>10. ASSUME NEW j \in n..size PROVE Greater(s[j], x) /\ j \in 1..size
  <2>1. n <= size /\ n \in 1..size /\ j \in 1..size /\ (j = n \/ n < j)
    BY <1>8, SMT
  <2>2. Greater(s[n], x)
    BY <1>2, <1>3, <2>1
  <2>3. CASE n < j
    <3>1. Greater(s[j], s[n])
      BY <1>4, <2>1, <2>3 DEF Rising
    <3> QED BY <1>4, <2>1, <2>2, <3>1, GreaterThrough
  <2> QED BY <2>1, <2>2, <2>3
<1>11. ASSUME NEW i \in DOMAIN w, NEW j \in DOMAIN w, i < j PROVE Greater(w[j], w[i])
  <2>1. i \in 1..size + 1 /\ j \in 1..size + 1
    BY <1>8
  <2>2. CASE j \in 1..n - 1
    <3>1. i \in 1..n - 1
      BY <1>8, <1>11, <2>1, <2>2, SMT
    <3> QED BY <1>4, <1>8, <1>9, <1>11, <2>2, <3>1 DEF Rising
  <2>3. CASE j = n
    <3>1. i \in 1..n - 1
      BY <1>8, <1>11, <2>1, <2>3, SMT
    <3> QED BY <1>8, <1>9, <2>3, <3>1
  <2>4. CASE j \in n + 1..size + 1
    <3>1. j - 1 \in n..size
      BY <1>8, <2>4, SMT
    <3>2. w[j] = s[j - 1] /\ Greater(s[j - 1], x) /\ j - 1 \in DOMAIN s /\ s[j - 1] \in KeyType
      BY <1>4, <1>8, <1>10, <2>4, <3>1
    <3>3. CASE i \in 1..n - 1
      <4>1. Greater(x, s[i]) /\ s[i] \in KeyType /\ w[i] = s[i]
        BY <1>4, <1>8, <1>9, <3>3
      <4> QED BY <3>2, <4>1, GreaterThrough
    <3>4. CASE i = n
      BY <1>8, <3>2, <3>4
    <3>5. CASE i \in n + 1..size + 1
      <4>1. i - 1 \in 1..size /\ i - 1 < j - 1
        BY <1>8, <1>11, <2>1, <3>5, SMT
      <4>2. w[i] = s[i - 1] /\ i - 1 \in DOMAIN s
        BY <1>4, <1>8, <3>5, <4>1
      <4> QED BY <3>2, <4>1, <4>2 DEF Rising
    <3> QED BY <1>8, <2>1, <3>3, <3>4, <3>5, SMT
  <2> QED BY <1>8, <2>1, <2>2, <2>3, <2>4, SMT
<1>12. Rising(w)
  BY <1>11 DEF Rising
<1> QED BY <1>1, <1>5, <1>12

LEMMA FillOrders ==
  ASSUME IInv, OrderInv, FillStep PROVE OrderInv'
<1>1. /\ pc = "fill" /\ WritePage(leaf.pageId, Filled) /\ root' = RootAfter(Filled)
      /\ pc' = "idle" /\ nodes' = nodes
  BY DEF FillStep, FillLeaf, Filled
<1>2. PICK c, N, M : TreeFits(c, N, M)
  BY <1>1, TreeAtHand DEF Inserting
<1>3. LeafFits(c, N, M)
  BY <1>1, <1>2, LeafHasSpan
<1>4. /\ Filled.pageId = leaf.pageId /\ ToSet(Filled.keys) = ToSet(leaf.keys) \cup {key}
  BY <1>1, FilledFacts
<1>5. /\ Chain(pages, c, M) /\ Ordered(nodes, N, M, ToSet(c)) /\ RootFits(c, N, M)
      /\ LeafSpans(M)' = M /\ Listed(c)' = ToSet(c)
  BY <1>1, <1>2, QuietTree DEF TreeFits, Linking
<1>6. PICK p : p = leaf.pageId
  OBVIOUS
<1>7. /\ p \in ToSet(c) /\ p \in DOMAIN pages /\ leaf = pages[p]
      /\ leaf.keys \in Seq(OldKeys) /\ OldKeys \subseteq KeyType /\ key \in KeyType
      /\ ToSet(leaf.keys) \subseteq M[p] /\ key \in M[p] /\ Rising(leaf.keys)
  BY <1>3, <1>6 DEF LeafFits
<1>8. /\ Filled.keys = InsertAt(leaf.keys, PlaceOf(leaf.keys, key), key) /\ Filled.next = leaf.next
  <2>1. leaf \in PageType(OldKeys)
    BY <1>1, LeafAtHand
  <2> QED BY <2>1 DEF Filled, PageType
<1>9. Rising(Filled.keys)
  <2>1. \A y \in OldKeys : y.id # key.id
    BY <1>1, KeyFacts DEF IInv, Inserting
  <2> QED BY <1>7, <1>8, <2>1, InsertRises
<1>10. /\ DOMAIN pages' = DOMAIN pages /\ pages'[p] = Filled
       /\ \A q \in DOMAIN pages : q # p => pages'[q] = pages[q]
  BY <1>1, <1>6, <1>7, WriteFacts
<1>11. Chain(pages', c, M)
  <2>1. KeysIn(pages', M, p)
    BY <1>4, <1>7, <1>9, <1>10 DEF KeysIn
  <2>2. pages'[p].next = pages[p].next /\ ToSet(pages[p].keys) \subseteq ToSet(pages'[p].keys)
    BY <1>4, <1>7, <1>8, <1>10
  <2> QED BY <1>5, <1>7, <1>10, <2>1, <2>2, ChainFills
<1>12. /\ root # NoRoot /\ root.kind \in {"leaf", "node"}
  BY <1>1 DEF IInv, Owner, OwnerInv, RootInv, Inserting
<1>13. root' # NoRoot /\ RootFits(c, N, M)'
  <2>1. CASE root.kind = "leaf"
    <3>1. root' = LeafRoot(Filled)
      BY <1>1, <2>1 DEF RootAfter
    <3>2. /\ root'.kind = "leaf" /\ root'.leaf.pageId = leaf.pageId /\ root' # NoRoot
      BY <1>4, <3>1 DEF LeafRoot, NoRoot
    <3>3. nodes = <<>> /\ root.leaf.pageId \in ToSet(c) /\ M[root.leaf.pageId] = KeyType /\ leaf.pageId = root.leaf.pageId
      BY <1>1, <1>5, <2>1 DEF RootFits, Splitting
    <3> QED BY <1>1, <3>2, <3>3 DEF RootFits, Splitting
  <2>2. CASE root.kind = "node"
    <3>1. root' = root
      BY <1>1, <2>2 DEF RootAfter
    <3> QED BY <1>5, <1>12, <2>2, <3>1 DEF RootFits
  <2> QED BY <1>12, <2>1, <2>2
<1>14. HandFits(c, N, M)'
  BY <1>1 DEF HandFits, Splitting, Linking
<1>15. TreeFits(c, N, M)'
  BY <1>1, <1>5, <1>11, <1>13, <1>14 DEF TreeFits
<1> QED BY <1>1, <1>13, <1>15 DEF OrderInv, HasTree
-----------------------------------------------------------------------------
(* Every step                                                              *)

LEMMA InsertOrders ==
  ASSUME ~AppendAfterReload, IInv, OInv,
         InsertRow \/ (InsertStep /\ UNCHANGED clientVars) \/ FillStep
  PROVE  OrderInv'
<1>1. CASE InsertRow
  BY <1>1, InsertRowOrders
<1>2. ASSUME InsertStep \/ FillStep PROVE pc \in Inserting
  BY <1>2 DEF InsertStep, AllocateRoot, WriteRoot, InsertLeaf, InsertInternal, Descend, ReachLeaf,
     AllocateRight, WriteRight, WriteLeft, FillStep, FillLeaf, Inserting
<1>3. CASE InsertStep \/ FillStep
  <2>1. OrderInv
    BY <1>2, <1>3 DEF OInv, Owner
  <2> QED BY <1>3, <2>1, AllocateRootOrders, WriteRootOrders, InsertLeafOrders, InsertInternalOrders,
             DescendOrders, ReachLeafOrders, AllocateRightOrders, WriteRightOrders, WriteLeftOrders,
             FillOrders DEF InsertStep
<1> QED BY <1>1, <1>3

\* A step outside of an insertion changes no page, or starts an empty file.
LEMMA OtherOrders ==
  ASSUME IInv, OInv,
         \/ Open \/ OpenPagesStep
         \/ (Ends \/ LoadStep) /\ UNCHANGED clientVars
  PROVE  OInv'
<1>1. ASSUME pages' = pages PROVE FileFits'
  BY <1>1 DEF OInv, FileFits
<1>2. CASE Open
  <2>1. pages' = pages /\ ~Owner'
    BY <1>2, OpenKeeps DEF Open, OpenTree, OpenContext
  <2> QED BY <1>1, <2>1 DEF OInv
<1>3. CASE OpenPagesStep
  <2>1. /\ pc = "openFile" /\ pc' = (IF kept THEN "load" ELSE "idle")
        /\ pages' = (IF kept THEN pages ELSE <<>>) /\ UNCHANGED <<root, nodes>>
    BY <1>3 DEF OpenPagesStep, OpenPages, OpenFile
  <2>2. root = NoRoot /\ nodes = <<>>
    BY <2>1 DEF IInv, OtherInv
  <2>3. CASE kept
    <3>1. ~Owner'
      BY <2>1, <2>3 DEF Owner, Inserting
    <3> QED BY <1>1, <2>1, <2>3, <3>1 DEF OInv
  <2>4. CASE ~kept
    <3>1. DOMAIN pages' = {}
      BY <2>1, <2>4, SMT
    <3> QED BY <2>1, <2>2, <3>1 DEF OInv, OrderInv, NoPages, FileFits
  <2> QED BY <2>3, <2>4
<1>4. CASE Ends /\ UNCHANGED clientVars
  <2>1. pages' = pages /\ ~Owner'
    BY <1>4, EndsKeeps DEF Ends, diskVars
  <2> QED BY <1>1, <2>1 DEF OInv
<1>5. CASE LoadStep /\ UNCHANGED clientVars
  <2>1. pages' = pages /\ pageCount' = pageCount
    BY <1>5 DEF LoadStep, LoadDies, Ends, NoFile, LoadNothing, LoadLeaves, LoadLevel, LoadRoot, diskVars
  <2>2. ASSUME Owner' PROVE OrderInv'
    <3>1. CASE LoadDies
      BY <1>5, <2>2, <3>1, EndsKeeps DEF LoadDies
    <3>2. CASE LoadNothing
      <4>1. UNCHANGED <<root, nodes, pages>> /\ DOMAIN pages = {} /\ pc = "load"
        BY <3>2, NumberFacts DEF LoadNothing, diskVars, IInv
      <4> QED BY <4>1 DEF IInv, OtherInv, OrderInv, NoPages
    <3>3. CASE LoadRoot
      <4>1. pc = "loadUp" /\ pc' = "idle" /\ pageCount \in DOMAIN pages
        BY <3>3 DEF LoadRoot, IInv, OtherInv
      <4> QED BY <2>1, <2>2, <4>1 DEF Owner, Inserting
    <3>4. CASE NoFile \/ LoadLeaves \/ LoadLevel
      <4>1. pc' \in {"closed", "loadUp"}
        BY <3>4 DEF NoFile, LoadLeaves, LoadLevel, IInv, OtherInv
      <4> QED BY <2>2, <4>1 DEF Owner, Inserting
    <3> QED BY <1>5, <3>1, <3>2, <3>3, <3>4 DEF LoadStep
  <2> QED BY <1>1, <2>1, <2>2 DEF OInv
<1> QED BY <1>2, <1>3, <1>4, <1>5

LEMMA OInvInit == Init => OInv
<1>1. SUFFICES ASSUME Init PROVE OInv
  OBVIOUS
<1>2. pc = "closed" /\ pages = <<>>
  BY <1>1 DEF Init, DiskInit, TreeInit
<1>3. DOMAIN pages = {}
  BY <1>2, SMT
<1> QED BY <1>2, <1>3 DEF OInv, Owner, Inserting, FileFits

LEMMA OInvStays ==
  ASSUME OInv, UNCHANGED vars PROVE OInv'
<1>1. UNCHANGED <<pc, root, nodes, key, at, slot, leaf, right, pages, pageCount>>
  BY DEF vars, diskVars, treeVars
<1>2. (Owner <=> Owner') /\ (FileFits <=> FileFits')
  BY <1>1 DEF Owner, FileFits
<1>3. ASSUME NEW c, NEW N, NEW M, TreeFits(c, N, M) PROVE TreeFits(c, N, M)'
  <2>1. LeafSpans(M)' = LeafSpans(M) /\ Listed(c)' = Listed(c)
    BY <1>1 DEF LeafSpans, Listed
  <2>2. RootFits(c, N, M)' /\ HandFits(c, N, M)'
    BY <1>1, <1>3 DEF TreeFits, RootFits, HandFits
  <2>3. Chain(pages', c, M) /\ Ordered(nodes', N, LeafSpans(M)', Listed(c)')
    BY <1>1, <1>3, <2>1 DEF TreeFits
  <2> QED BY <2>2, <2>3 DEF TreeFits
<1>4. OrderInv => OrderInv'
  <2>1. CASE NoPages \/ FirstPage
    BY <1>1, <2>1 DEF OrderInv, NoPages, FirstPage
  <2>2. CASE HasTree
    BY <1>1, <1>3, <2>2 DEF OrderInv, HasTree
  <2> QED BY <2>1, <2>2 DEF OrderInv
<1> QED BY <1>2, <1>4 DEF OInv

LEMMA OInvNext ==
  ASSUME ~AppendAfterReload, IInv, OInv, [Next]_vars PROVE OInv'
<1>1. IInv'
  BY IInvNext
<1>2. CASE InsertRow \/ (InsertStep /\ UNCHANGED clientVars) \/ FillStep
  <2>1. OrderInv' /\ Owner'
    <3>1. pc' \in Inserting \/ (pc' = "idle" /\ pageCount' \notin DOMAIN pages')
      <4>1. CASE InsertRow \/ (InsertStep /\ UNCHANGED clientVars)
        BY <4>1, InsertRowOwner, AllocateRootOwner, WriteRootOwner, InsertLeafOwner, InsertInternalOwner,
           DescendOwner, ReachLeafOwner, AllocateRightOwner, WriteRightOwner, WriteLeftOwner
           DEF InsertStep
      <4>2. CASE FillStep
        <5>1. pc = "fill" /\ pc' = "idle" /\ pageCount' = pageCount /\ DOMAIN pages' = DOMAIN pages
          BY <4>2 DEF FillStep, FillLeaf, WritePage
        <5>2. pageCount \notin DOMAIN pages
          BY <5>1, NumberFacts DEF IInv, Inserting
        <5> QED BY <5>1, <5>2
      <4> QED BY <1>2, <4>1, <4>2
    <3> QED BY <1>2, <3>1, InsertOrders DEF Owner
  <2>2. (IInv /\ Owner /\ OrderInv => FileFits)'
    BY OrderFileFits, PTL
  <2> QED BY <1>1, <2>1, <2>2 DEF OInv
<1>3. CASE Open \/ OpenPagesStep \/ ((Ends \/ LoadStep) /\ UNCHANGED clientVars)
  BY <1>3, OtherOrders
<1>4. CASE UNCHANGED vars
  BY <1>4, OInvStays
<1> QED BY <1>2, <1>3, <1>4 DEF Next, Step
-----------------------------------------------------------------------------
(* The links from the first page                                           *)

\* A list of pages without repetition is no longer than the file.
LEMMA ChainBound ==
  ASSUME IInv, NEW c, NEW M, Chain(pages, c, M) PROVE TotalPages \in Nat /\ Len(c) \in 1..TotalPages
<1>1. PICK n \in Nat : Numbered(n)
  BY DEF IInv, PagesAreNumbered
<1>2. TotalPages = n /\ DOMAIN pages = 0..n - 1
  BY <1>1, NumberedTotal DEF Numbered
<1>3. c \in Seq(Nat) /\ Len(c) > 0 /\ Len(c) \in Nat /\ DOMAIN c = 1..Len(c)
  BY LenProperties, SMT DEF Chain, ChainOf
<1>4. /\ \A i \in 1..Len(c) : c[i] \in 0..n - 1
      /\ \A i, j \in 1..Len(c) : c[i] = c[j] => i = j
  BY <1>2, <1>3 DEF Chain, ChainOf
<1>5. c \in [1..Len(c) -> 0..n - 1]
  <2>1. c = [i \in 1..Len(c) |-> c[i]]
    BY <1>3, LenProperties, SMT
  <2> QED BY <1>4, <2>1
<1>6. c \in Injection(1..Len(c), 0..n - 1)
  BY <1>4, <1>5 DEF Injection, IsInjective
<1>7. IsFiniteSet(0..n - 1) /\ Cardinality(0..n - 1) = n /\ Cardinality(1..Len(c)) = Len(c)
  <2>1. PICK k \in Nat : k = Len(c) /\ k > 0
    BY <1>3
  <2>2. IsFiniteSet(0..n - 1) /\ Cardinality(0..n - 1) = n
    BY FS_Interval, SMT
  <2>3. Cardinality(1..k) = k
    <3>1. Cardinality(1..k) = IF 1 > k THEN 0 ELSE k - 1 + 1
      <4>1. 1 \in Int /\ k \in Int
        OBVIOUS
      <4> QED BY <4>1, FS_Interval, Zenon
    <3> QED BY <2>1, <3>1
  <2> QED BY <2>1, <2>2, <2>3
<1>8. Cardinality(1..Len(c)) <= Cardinality(0..n - 1)
  BY <1>6, <1>7, FS_Injection
<1> QED BY <1>2, <1>3, <1>7, <1>8, SMT

\* Met follows the links.
Follows(f) == f = [n \in 1..TotalPages + 1 |->
                     IF n = 1 THEN 0
                     ELSE IF f[n - 1] = NoPage THEN NoPage ELSE pages[f[n - 1]].next]

LEMMA MetFollows == ASSUME NEW f, Follows(f) PROVE Follows(Met)
<1>1. Met = CHOOSE g : Follows(g)
  BY DEF Met, Follows
<1> QED BY <1>1

LEMMA MetIs ==
  ASSUME IInv, NEW c, NEW M, Chain(pages, c, M)
  PROVE  Met[Len(c) + 1] = NoPage /\ \A i \in DOMAIN c : Met[i] = c[i]
<1>1. PICK t \in Nat : t = TotalPages /\ Len(c) \in 1..t
  BY ChainBound
<1>2. PICK k \in Nat : k = Len(c) /\ k \in 1..t /\ DOMAIN c = 1..k
  BY <1>1, LenProperties, SMT DEF Chain, ChainOf
<1>3. /\ c[1] = 0 /\ \A i \in 1..k : c[i] \in Nat
      /\ \A i \in 1..k : pages[c[i]].next = IF i = k THEN NoPage ELSE c[i + 1]
  <2>1. /\ c \in Seq(Nat) /\ c[1] = 0
        /\ \A i \in DOMAIN c : pages[c[i]].next = IF i = Len(c) THEN NoPage ELSE c[i + 1]
    BY DEF Chain, ChainOf
  <2>2. \A i \in 1..k : c[i] \in Nat
    BY <1>2, <2>1, ElementOfSeq
  <2> QED BY <1>2, <2>1, <2>2
<1>4. \A i \in 1..k : c[i] # NoPage
  BY <1>3, SMT DEF NoPage
<1>5. PICK f : f = [n \in 1..t + 1 |-> IF n <= k THEN c[n] ELSE NoPage]
  OBVIOUS
<1>6. ASSUME NEW n \in 1..t + 1
      PROVE  f[n] = IF n = 1 THEN 0 ELSE IF f[n - 1] = NoPage THEN NoPage ELSE pages[f[n - 1]].next
  <2>1. CASE n = 1
    BY <1>2, <1>3, <1>5, <2>1, SMT
  <2>2. CASE n # 1
    <3>1. PICK m \in 1..t : n = m + 1 /\ n - 1 = m
      BY <2>2, SMT
    <3>2. /\ f[m] = (IF m <= k THEN c[m] ELSE NoPage) /\ f[n] = (IF m + 1 <= k THEN c[m + 1] ELSE NoPage)
      BY <1>5, <3>1, SMT
    <3>3. CASE m \in 1..k
      <4>1. f[m] = c[m] /\ c[m] # NoPage
        BY <1>4, <3>2, <3>3, SMT
      <4>2. f[n] = pages[c[m]].next
        BY <1>3, <3>2, <3>3, SMT
      <4> QED BY <2>2, <3>1, <4>1, <4>2
    <3>4. CASE m \notin 1..k
      BY <2>2, <3>1, <3>2, <3>4, SMT
    <3> QED BY <3>3, <3>4
  <2> QED BY <2>1, <2>2
<1>7. Follows(f)
  BY <1>1, <1>5, <1>6 DEF Follows
<1>8. Follows(Met)
  BY <1>7, MetFollows
<1>9. \A n \in 1..t + 1 :
        Met[n] = IF n = 1 THEN 0 ELSE IF Met[n - 1] = NoPage THEN NoPage ELSE pages[Met[n - 1]].next
  BY <1>1, <1>8 DEF Follows
<1> DEFINE Wrong == {n \in Nat : n \in 1..t + 1 /\ Met[n] # f[n]}
<1>10. Wrong = {}
  <2>1. SUFFICES ASSUME Wrong # {} PROVE FALSE
    OBVIOUS
  <2>2. PICK n \in Wrong : \A m \in Wrong : n <= m
    BY <2>1, LeastNat
  <2>3. n \in 1..t + 1 /\ Met[n] # f[n]
    OBVIOUS
  <2>4. n # 1
    BY <1>6, <1>9, <2>3
  <2>5. n - 1 \in Nat /\ n - 1 \in 1..t + 1 /\ ~(n <= n - 1)
    BY <2>3, <2>4, SMT
  <2>6. Met[n - 1] = f[n - 1]
    BY <2>2, <2>5
  <2> QED BY <1>6, <1>9, <2>3, <2>6
<1>11. \A n \in 1..t + 1 : Met[n] = f[n]
  BY <1>10, SMT
<1> QED BY <1>2, <1>5, <1>11, SMT

\* A file with its chain is whole.
LEMMA ChainMakesWhole == ASSUME IInv, FileFits PROVE ChainIsWhole
<1>1. SUFFICES ASSUME 0 \in DOMAIN pages, pages[0] # ZeroPage PROVE ChainIsWhole
  BY DEF ChainIsWhole
<1>2. PICK c, M : Chain(pages, c, M)
  BY <1>1 DEF FileFits
<1>3. PICK n \in 1..TotalPages : n = Len(c)
  BY <1>2, ChainBound
<1>4. DOMAIN c = 1..n
  BY <1>2, <1>3, LenProperties DEF Chain, ChainOf
<1>5. Met[n + 1] = NoPage /\ \A i \in 1..n : Met[i] = c[i]
  BY <1>2, <1>3, <1>4, MetIs
<1>6. \A i \in 1..n : Met[i] \in DOMAIN pages
  BY <1>2, <1>4, <1>5 DEF Chain, ChainOf
<1> DEFINE keysOf(i) == pages[Met[i]].keys
<1>7. DiskKeys = UNION {ToSet(keysOf(i)) : i \in 1..n}
  <2>1. ASSUME NEW x \in DiskKeys PROVE \E i \in 1..n : x \in ToSet(keysOf(i))
    <3>1. PICK p \in DOMAIN pages : x \in ToSet(pages[p].keys)
      BY DEF DiskKeys
    <3>2. PICK i \in DOMAIN c : x \in ToSet(pages[c[i]].keys)
      BY <1>2, <3>1 DEF Chain, ChainOf
    <3> QED BY <1>4, <1>5, <3>2
  <2>2. ASSUME NEW i \in 1..n PROVE ToSet(keysOf(i)) \subseteq DiskKeys
    BY <1>6 DEF DiskKeys
  <2> QED BY <2>1, <2>2
<1>8. ASSUME NEW i \in 1..n, NEW j \in 1..n, NEW x \in DOMAIN keysOf(i), NEW y \in DOMAIN keysOf(j),
             i < j \/ (i = j /\ x < y)
      PROVE  Less(keysOf(i)[x], keysOf(j)[y])
  <2>1. /\ KeysIn(pages, M, Met[i]) /\ KeysIn(pages, M, Met[j])
        /\ i < j => Apart(M, Met[i], Met[j])
    BY <1>2, <1>4, <1>5 DEF Chain, Along
  <2>2. keysOf(i)[x] \in M[Met[i]] /\ keysOf(j)[y] \in M[Met[j]]
    BY <2>1 DEF KeysIn, ToSet
  <2>3. Greater(keysOf(j)[y], keysOf(i)[x])
    <3>1. CASE i < j
      BY <2>1, <2>2, <3>1 DEF Apart
    <3>2. CASE i = j /\ x < y
      BY <2>1, <3>2 DEF KeysIn, Rising
    <3> QED BY <1>8, <3>1, <3>2
  <2> QED BY <2>3 DEF Greater
<1>9. \E m \in 1..TotalPages :
         /\ Met[m + 1] = NoPage /\ \A i \in 1..m : Met[i] \in DOMAIN pages
         /\ DiskKeys = UNION {ToSet(keysOf(i)) : i \in 1..m}
         /\ \A i, j \in 1..m : \A x \in DOMAIN keysOf(i), y \in DOMAIN keysOf(j) :
              i < j \/ (i = j /\ x < y) => Less(keysOf(i)[x], keysOf(j)[y])
  BY <1>3, <1>5, <1>6, <1>7, <1>8
<1> QED BY <1>9 DEF ChainIsWhole

\* BPlusTree.cpp insert and splitLeaf write the halves of a leaf one page at a
\* time: for every degree and table, in the middle of a split and whatever a
\* dead process has left, the links from the first page meet every key of the
\* file once and in order.
THEOREM ChainStaysWhole == ASSUME ~AppendAfterReload PROVE Spec => []ChainIsWhole
<1>1. IInv /\ OInv /\ [Next]_vars => OInv'
  BY OInvNext
<1>2. IInv /\ OInv => ChainIsWhole
  BY ChainMakesWhole DEF OInv
<1> QED BY IInvInvariant, OInvInit, <1>1, <1>2, PTL DEF Spec
-----------------------------------------------------------------------------
(* The levels of the tree                                                  *)

\* Nodes over leaves are on level 1, every other node is one above its children.
LevelFits(heap, H, a, i) ==
  heap[a].type = 1 => heap[a].children[i] \in DOMAIN heap /\ H[a] = H[heap[a].children[i]] + 1
Leveled(heap, H) ==
  /\ H \in [Nat -> Nat] /\ NatHeap(heap)
  /\ \A a \in DOMAIN heap : H[a] > 0 /\ (heap[a].type = 2 => H[a] = 1)
  /\ \A a \in DOMAIN heap : \A i \in DOMAIN heap[a].children : LevelFits(heap, H, a, i)

\* insertLeaf and insertInternal: the new parent is above its child.
LEMMA AppendLevels ==
  ASSUME NEW heap, NEW type \in {1, 2}, NEW child, NEW h, NEW a, AppendShape(heap, type, child, h, a),
         type = 1 => child \in DOMAIN heap,
         NEW H, Leveled(heap, H)
  PROVE  \E H2 : Leveled(h, H2)
<1>1. /\ a \in Nat /\ a \notin DOMAIN heap /\ DOMAIN h = DOMAIN heap \cup {a}
      /\ \A b \in DOMAIN heap : b \in Nat /\ h[b] = heap[b]
      /\ h[a].type = type /\ h[a].children = <<child>>
  BY DEF AppendShape
<1>2. PICK H2 : H2 = [H EXCEPT ![a] = IF type = 1 THEN H[child] + 1 ELSE 1]
  OBVIOUS
<1>3. H \in [Nat -> Nat] /\ (type = 1 => H[child] \in Nat /\ H[child] + 1 \in Nat)
  <2>1. H \in [Nat -> Nat]
    BY DEF Leveled
  <2>2. type = 1 => child \in Nat
    BY <1>1
  <2> QED BY <2>1, <2>2, SMT
<1>4. /\ H2 \in [Nat -> Nat] /\ H2[a] = (IF type = 1 THEN H[child] + 1 ELSE 1)
      /\ \A b \in DOMAIN heap : H2[b] = H[b]
  BY <1>1, <1>2, <1>3
<1>5. ASSUME NEW b \in DOMAIN h PROVE H2[b] > 0 /\ (h[b].type = 2 => H2[b] = 1)
  <2>1. CASE b = a
    <3>1. H2[b] = (IF type = 1 THEN H[child] + 1 ELSE 1) /\ h[b].type = type
      BY <1>1, <1>4, <2>1
    <3> QED BY <1>3, <3>1, SMT
  <2>2. CASE b \in DOMAIN heap
    BY <1>1, <1>4, <2>2 DEF Leveled
  <2> QED BY <1>1, <2>1, <2>2
<1>6. ASSUME NEW b \in DOMAIN h, NEW i \in DOMAIN h[b].children PROVE LevelFits(h, H2, b, i)
  <2>1. CASE b = a
    <3>1. h[b].children[i] = child
      BY <1>1, <2>1
    <3> QED BY <1>1, <1>4, <2>1, <3>1 DEF LevelFits
  <2>2. CASE b \in DOMAIN heap
    <3>1. h[b] = heap[b] /\ LevelFits(heap, H, b, i)
      BY <1>1, <2>2 DEF Leveled
    <3> QED BY <1>1, <1>4, <2>2, <3>1 DEF LevelFits
  <2> QED BY <1>1, <2>1, <2>2
<1>7. NatHeap(h)
  BY <1>1 DEF NatHeap
<1> QED BY <1>4, <1>5, <1>6, <1>7 DEF Leveled

\* splitInternalNode: the right half is on the level of the left one.
LEMMA SplitLevels ==
  ASSUME NEW K, NEW heap, NEW p, NEW i, NEW h, NEW fresh, NEW c, NEW m, NEW l, NEW r,
         SplitShape(K, heap, p, i, h, fresh, c, m, l, r),
         NEW H, Leveled(heap, H)
  PROVE  \E H2 : Leveled(h, H2)
<1>1. /\ DOMAIN h = DOMAIN heap \cup {fresh} /\ fresh \notin DOMAIN heap /\ fresh \in Nat
      /\ p \in DOMAIN heap /\ c \in DOMAIN heap /\ c # p /\ c \in Nat /\ p \in Nat
      /\ heap[p].type = 1 /\ i \in DOMAIN heap[p].children /\ heap[p].children[i] = c
      /\ h[p] = m /\ h[c] = l /\ h[fresh] = r
      /\ \A b \in DOMAIN heap \ {p, c} : h[b] = heap[b]
  BY DEF SplitShape
<1>2. m.type = heap[p].type /\ m.children[i + 1] = fresh /\ l.type = heap[c].type /\ r.type = heap[c].type
  BY DEF SplitShape, Adopted, Parted
<1>3. PICK H2 : H2 = [H EXCEPT ![fresh] = H[c]]
  OBVIOUS
<1>4. H \in [Nat -> Nat] /\ NatHeap(heap)
  BY DEF Leveled
<1>5. H2 \in [Nat -> Nat] /\ H2[fresh] = H[c] /\ \A b \in DOMAIN heap : H2[b] = H[b]
  BY <1>1, <1>3, <1>4 DEF NatHeap
<1>6. ASSUME NEW b \in DOMAIN h PROVE H2[b] > 0 /\ (h[b].type = 2 => H2[b] = 1)
  <2>1. PICK d \in DOMAIN heap : H2[b] = H[d] /\ h[b].type = heap[d].type
    BY <1>1, <1>2, <1>5
  <2> QED BY <2>1 DEF Leveled
<1>7. ASSUME NEW a \in DOMAIN h, NEW j \in DOMAIN h[a].children PROVE LevelFits(h, H2, a, j)
  <2>1. CASE a = p /\ j = i + 1
    <3>1. h[a].children[j] = fresh /\ H2[a] = H[p]
      BY <1>1, <1>2, <1>5, <2>1
    <3>2. LevelFits(heap, H, p, i)
      BY <1>1 DEF Leveled
    <3>3. H[p] = H[c] + 1
      BY <1>1, <3>2 DEF LevelFits
    <3> QED BY <1>1, <1>5, <3>1, <3>3 DEF LevelFits
  <2>2. CASE ~(a = p /\ j = i + 1)
    <3>1. PICK b \in DOMAIN heap : \E s \in DOMAIN heap[b].children :
            /\ MovedFrom(heap, p, i, fresh, c, r, a, j, b, s)
            /\ h[a].children[j] = heap[b].children[s] /\ h[a].type = heap[b].type
      BY <2>2, PlaceMoved
    <3>2. PICK s \in DOMAIN heap[b].children :
            /\ MovedFrom(heap, p, i, fresh, c, r, a, j, b, s)
            /\ h[a].children[j] = heap[b].children[s] /\ h[a].type = heap[b].type
      BY <3>1
    <3>3. H2[a] = H[b]
      <4>1. a = b \/ (a = fresh /\ b = c)
        BY <3>2 DEF MovedFrom
      <4> QED BY <1>5, <4>1
    <3>4. LevelFits(heap, H, b, s)
      BY DEF Leveled
    <3> QED BY <1>1, <1>5, <3>2, <3>3, <3>4 DEF LevelFits
  <2> QED BY <2>1, <2>2
<1>8. NatHeap(h)
  BY <1>1, <1>4 DEF NatHeap
<1> QED BY <1>5, <1>6, <1>7, <1>8 DEF Leveled

\* splitLeafNode: only a node over leaves takes one more.
LEMMA AdoptLevels ==
  ASSUME NEW K, NEW heap, NEW a, NEW i, NEW k, NEW page, NEW h, NEW m,
         AdoptShape(K, heap, a, i, k, page, h, m),
         NEW H, Leveled(heap, H)
  PROVE  Leveled(h, H)
<1>1. /\ DOMAIN h = DOMAIN heap /\ h[a] = m /\ m.type = 2 /\ heap[a].type = 2
      /\ \A b \in DOMAIN heap \ {a} : h[b] = heap[b]
  BY DEF AdoptShape
<1>2. \A b \in DOMAIN h : h[b].type = heap[b].type
  BY <1>1
<1>3. ASSUME NEW b \in DOMAIN h, NEW j \in DOMAIN h[b].children PROVE LevelFits(h, H, b, j)
  <2>1. CASE b = a
    BY <1>1, <2>1 DEF LevelFits
  <2>2. CASE b # a
    BY <1>1, <2>2 DEF Leveled, LevelFits
  <2> QED BY <2>1, <2>2
<1> QED BY <1>1, <1>2, <1>3 DEF Leveled, NatHeap

\* A process that has allocated all pages has built such a tree.
HasLevels == \E H : Leveled(nodes, H)
LevelInv == Owner => HasLevels

LEMMA NoLevels == ASSUME nodes = <<>> PROVE HasLevels
<1>1. DOMAIN nodes = {}
  OBVIOUS
<1>2. [n \in Nat |-> 0] \in [Nat -> Nat]
  OBVIOUS
<1> QED BY <1>1, <1>2 DEF HasLevels, Leveled, NatHeap

LEMMA InsertLeafLevels ==
  ASSUME IInv, HasLevels, InsertLeaf PROVE HasLevels'
<1>1. SoundHeap(nodes, OldKeys, DOMAIN pages)
  BY DEF InsertLeaf, IInv, Owner, Inserting, OwnerInv
<1>2. CASE Full(root.leaf)
  <2>1. PICK h : h = nodes'
    OBVIOUS
  <2>2. h = Append(nodes, InternalNode(2, <<root.leaf.pageId>>))
    BY <1>2, <2>1 DEF InsertLeaf
  <2>3. AppendShape(nodes, 2, root.leaf.pageId, h, Len(nodes) + 1)
    BY <1>1, <2>2, AppendHasShape
  <2>4. PICK H : Leveled(nodes, H)
    BY DEF HasLevels
  <2>5. \E H2 : Leveled(h, H2)
    BY <2>3, <2>4, AppendLevels
  <2> QED BY <2>1, <2>5 DEF HasLevels
<1>3. CASE ~Full(root.leaf)
  <2>1. nodes' = nodes
    BY <1>3 DEF InsertLeaf
  <2> QED BY <2>1 DEF HasLevels
<1> QED BY <1>2, <1>3

LEMMA DescendLevels ==
  ASSUME IInv, HasLevels, Descend PROVE HasLevels'
<1>1. pc = "descend" /\ nodes[at].type = 1
  BY DEF Descend
<1>2. SoundHeap(nodes, OldKeys, DOMAIN pages)
  BY <1>1 DEF IInv, Owner, Inserting, OwnerInv
<1>3. PICK i : i = PlaceOf(nodes[at].keys, key)
  OBVIOUS
<1>4. PICK child : child = nodes[at].children[i]
  OBVIOUS
<1>5. at \in Inner(nodes) /\ i \in DOMAIN nodes[at].children
  BY <1>1, <1>3, PlaceIsChild
<1>6. CASE Full(nodes[child])
  <2>1. PICK h : h = nodes'
    OBVIOUS
  <2>2. h = SplitInternalNode(nodes, at, i)
    BY <1>3, <1>4, <1>6, <2>1 DEF Descend
  <2>3. PICK m, l, r : SplitShape(OldKeys, nodes, at, i, h, Len(nodes) + 1, child, m, l, r)
    BY <1>2, <1>4, <1>5, <1>6, <2>2, SplitHasShape
  <2>4. PICK H : Leveled(nodes, H)
    BY DEF HasLevels
  <2>5. \E H2 : Leveled(h, H2)
    BY <2>3, <2>4, SplitLevels
  <2> QED BY <2>1, <2>5 DEF HasLevels
<1>7. CASE ~Full(nodes[child])
  <2>1. nodes' = nodes
    BY <1>3, <1>4, <1>7 DEF Descend
  <2> QED BY <2>1 DEF HasLevels
<1> QED BY <1>6, <1>7

LEMMA InsertInternalLevels ==
  ASSUME IInv, HasLevels, InsertInternal PROVE HasLevels'
<1>1. pc = "insert" /\ root.kind = "node"
  BY DEF InsertInternal
<1>2. SoundHeap(nodes, OldKeys, DOMAIN pages) /\ Top(nodes, root.at)
  BY <1>1 DEF IInv, Owner, Inserting, OwnerInv, RootInv
<1>3. PICK old : old = root.at
  OBVIOUS
<1>4. CASE Full(nodes[old])
  <2>1. PICK h : h = nodes'
    OBVIOUS
  <2>2. PICK parent : parent = Len(nodes) + 1
    OBVIOUS
  <2>3. PICK g : g = Append(nodes, InternalNode(1, <<old>>))
    OBVIOUS
  <2>4. h = SplitInternalNode(g, parent, 1)
    BY <1>3, <1>4, <2>1, <2>2, <2>3 DEF InsertInternal
  <2>5. old \in DOMAIN nodes /\ old \in Nat /\ Top(nodes, old)
    BY <1>2, <1>3, HeapFacts, SMT DEF Top
  <2>6. AppendShape(nodes, 1, old, g, parent)
    BY <1>2, <2>2, <2>3, AppendHasShape
  <2>7. AppendsSound(OldKeys, DOMAIN pages, nodes, 1, old, g, parent)
    BY <1>2, <2>2, <2>3, <2>5, SoundAppends
  <2>8. /\ SoundHeap(g, OldKeys, DOMAIN pages) /\ parent \in Inner(g) /\ 1 \in DOMAIN g[parent].children
        /\ g[parent].children[1] = old /\ g[old] = nodes[old]
    BY <2>5, <2>7 DEF AppendsSound, Top, Inner
  <2>9. PICK H : Leveled(nodes, H)
    BY DEF HasLevels
  <2>10. PICK H1 : Leveled(g, H1)
    BY <2>5, <2>6, <2>9, AppendLevels
  <2>11. PICK m, l, r : SplitShape(OldKeys, g, parent, 1, h, Len(g) + 1, old, m, l, r)
    BY <1>4, <2>4, <2>8, SplitHasShape
  <2>12. \E H2 : Leveled(h, H2)
    BY <2>10, <2>11, SplitLevels
  <2> QED BY <2>1, <2>12 DEF HasLevels
<1>5. CASE ~Full(nodes[old])
  <2>1. nodes' = nodes
    BY <1>3, <1>5 DEF InsertInternal
  <2> QED BY <2>1 DEF HasLevels
<1> QED BY <1>4, <1>5

LEMMA AllocateRightLevels ==
  ASSUME IInv, HasLevels, AllocateRight PROVE HasLevels'
<1>1. /\ pc = "split"
      /\ nodes' = [nodes EXCEPT ![at] = Adopt(@, slot, leaf.keys[MinDegree], pageCount)]
  BY DEF AllocateRight
<1>2. OwnerInv /\ PagesAreNumbered
  BY <1>1 DEF IInv, Owner, Inserting
<1>3. /\ SoundHeap(nodes, OldKeys, DOMAIN pages)
      /\ at \in DOMAIN nodes /\ nodes[at].type = 2 /\ slot \in DOMAIN nodes[at].children
  BY <1>1, <1>2 DEF OwnerInv, PlaceInv, Splitting
<1>4. pageCount \in Nat /\ leaf.keys[MinDegree] \in OldKeys
  BY <1>1, <1>2, NumberFacts, LeafAtHand DEF Splitting
<1>5. PICK h : h = nodes'
  OBVIOUS
<1>6. PICK m : AdoptShape(OldKeys, nodes, at, slot, leaf.keys[MinDegree], pageCount, h, m)
  BY <1>1, <1>3, <1>4, <1>5, AdoptHasShape
<1>7. PICK H : Leveled(nodes, H)
  BY DEF HasLevels
<1>8. Leveled(h, H)
  BY <1>6, <1>7, AdoptLevels
<1> QED BY <1>5, <1>8 DEF HasLevels

LEMMA LevelInvInit == Init => LevelInv
<1>1. Init => ~Owner
  BY DEF Init, TreeInit, Owner, Inserting
<1> QED BY <1>1 DEF LevelInv

LEMMA LevelsKept ==
  ASSUME HasLevels, nodes' = nodes PROVE HasLevels'
  BY DEF HasLevels

LEMMA LevelInvNext ==
  ASSUME ~AppendAfterReload, IInv, LevelInv, [Next]_vars PROVE LevelInv'
<1>1. (nodes = <<>> => HasLevels)'
  BY NoLevels, PTL
<1>2. CASE UNCHANGED vars
  <2>1. (Owner <=> Owner') /\ nodes' = nodes
    BY <1>2 DEF vars, diskVars, treeVars, Owner
  <2> QED BY <2>1, LevelsKept DEF LevelInv
<1>3. CASE InsertRow
  <2>1. pc = "idle" /\ ~Reloaded /\ nodes' = nodes
    BY <1>3 DEF InsertRow, Insert
  <2>2. Owner
    BY <2>1, NumberFacts DEF Owner, IInv
  <2> QED BY <2>1, <2>2, LevelsKept DEF LevelInv
<1>4. CASE InsertStep \/ FillStep
  <2>1. pc \in Inserting
    BY <1>4 DEF InsertStep, AllocateRoot, WriteRoot, InsertLeaf, InsertInternal, Descend, ReachLeaf,
       AllocateRight, WriteRight, WriteLeft, FillStep, FillLeaf, Inserting
  <2>2. HasLevels
    BY <2>1 DEF LevelInv, Owner
  <2>3. CASE AllocateRoot \/ WriteRoot \/ ReachLeaf \/ WriteRight \/ WriteLeft \/ FillStep
    <3>1. nodes' = nodes
      BY <2>3 DEF AllocateRoot, WriteRoot, ReachLeaf, WriteRight, WriteLeft, FillStep, FillLeaf
    <3> QED BY <2>2, <3>1, LevelsKept DEF LevelInv
  <2>4. CASE InsertLeaf \/ InsertInternal \/ Descend \/ AllocateRight
    BY <2>2, <2>4, InsertLeafLevels, InsertInternalLevels, DescendLevels, AllocateRightLevels DEF LevelInv
  <2> QED BY <1>4, <2>3, <2>4 DEF InsertStep
<1>5. CASE Open \/ (Ends /\ UNCHANGED clientVars)
  BY <1>5, OpenKeeps, EndsKeeps DEF LevelInv
<1>6. CASE OpenPagesStep
  <2>1. pc = "openFile" /\ pc' = (IF kept THEN "load" ELSE "idle") /\ nodes' = nodes
    BY <1>6 DEF OpenPagesStep, OpenPages
  <2>2. nodes = <<>>
    BY <2>1 DEF IInv, OtherInv
  <2> QED BY <1>1, <2>1, <2>2 DEF LevelInv
<1>7. CASE LoadStep /\ UNCHANGED clientVars
  <2>1. CASE LoadDies
    BY <1>7, <2>1, EndsKeeps DEF LoadDies, LevelInv
  <2>2. CASE LoadNothing
    <3>1. nodes' = nodes /\ pc = "load"
      BY <2>2 DEF LoadNothing
    <3>2. nodes = <<>>
      BY <3>1 DEF IInv, OtherInv
    <3> QED BY <1>1, <3>1, <3>2 DEF LevelInv
  <2>3. CASE LoadRoot
    <3>1. pc = "loadUp" /\ pc' = "idle" /\ pageCount \in DOMAIN pages /\ pageCount' = pageCount /\ pages' = pages
      BY <2>3 DEF LoadRoot, IInv, OtherInv, diskVars
    <3> QED BY <3>1 DEF LevelInv, Owner, Inserting
  <2>4. CASE NoFile \/ LoadLeaves \/ LoadLevel
    <3>1. pc' \in {"closed", "loadUp"}
      BY <2>4 DEF NoFile, LoadLeaves, LoadLevel, IInv, OtherInv
    <3> QED BY <3>1 DEF LevelInv, Owner, Inserting
  <2> QED BY <1>7, <2>1, <2>2, <2>3, <2>4 DEF LoadStep
<1> QED BY <1>2, <1>3, <1>4, <1>5, <1>6, <1>7 DEF Next, Step

-----------------------------------------------------------------------------
(* What the file holds                                                     *)

\* The keys of the file are those whose insertion has returned.
FileHolds == DiskKeys = inserted

LEMMA FileHoldsInit == Init => FileHolds
  BY DEF Init, DiskInit, DiskKeys, FileHolds

LEMMA FileHoldsNext ==
  ASSUME IInv, FileHolds, [Next]_vars PROVE FileHolds'
<1>1. ASSUME UNCHANGED <<pages, inserted>> PROVE FileHolds'
  BY <1>1 DEF FileHolds, DiskKeys
<1>2. CASE UNCHANGED vars \/ Open \/ InsertRow \/ (Ends /\ UNCHANGED clientVars)
  <2>1. UNCHANGED <<pages, inserted>>
    BY <1>2 DEF vars, diskVars, clientVars, Open, OpenTree, OpenContext, InsertRow, Insert, Ends
  <2> QED BY <1>1, <2>1
<1>3. CASE OpenPagesStep
  <2>1. pages' = (IF kept THEN pages ELSE <<>>) /\ inserted' = IF kept THEN inserted ELSE {}
    BY <1>3 DEF OpenPagesStep, OpenPages, OpenFile
  <2>2. CASE kept
    BY <1>1, <2>1, <2>2
  <2>3. CASE ~kept
    <3>1. DOMAIN pages' = {} /\ inserted' = {}
      BY <2>1, <2>3
    <3> QED BY <3>1 DEF FileHolds, DiskKeys
  <2> QED BY <2>2, <2>3
<1>4. CASE Step /\ UNCHANGED clientVars
  <2>1. DiskKeys' = DiskKeys /\ inserted' = inserted
    BY <1>4, StepKeepsKeys DEF clientVars
  <2> QED BY <2>1 DEF FileHolds
<1>5. CASE FillStep
  <2>1. DiskKeys' = DiskKeys \cup {key} /\ inserted' = inserted \cup {key}
    BY <1>5, FillAddsKey DEF FillStep
  <2> QED BY <2>1 DEF FileHolds
<1> QED BY <1>2, <1>3, <1>4, <1>5 DEF Next
-----------------------------------------------------------------------------
(* The way to a leaf                                                       *)

\* findLeafNode, the place of a key among keys.
LEMMA FirstFacts ==
  ASSUME NEW S, NEW keys \in Seq(S), NEW k, NEW i, i = FirstNotLess(keys, k)
  PROVE  /\ i \in 1..Len(keys) + 1 /\ (i <= Len(keys) => ~Greater(k, keys[i]))
         /\ \A j \in DOMAIN keys : j < i => Greater(k, keys[j])
<1> DEFINE T == {j \in DOMAIN keys : ~Less(keys[j], k)} \cup {Len(keys) + 1}
<1>1. DOMAIN keys = 1..Len(keys) /\ Len(keys) \in Nat
  BY LenProperties, SMT
<1>2. T \subseteq 1..Len(keys) + 1 /\ T # {}
  BY <1>1, SMT
<1>3. T \subseteq Nat
  BY <1>2, SMT
<1>4. i = Min(T)
  BY DEF FirstNotLess
<1>5. \A j \in DOMAIN keys : j \notin T => Less(keys[j], k)
  OBVIOUS
<1>6. \A j \in T : j = Len(keys) + 1 \/ ~Less(keys[j], k)
  OBVIOUS
<1> HIDE DEF T
<1>7. i \in T /\ \A j \in T : i <= j
  BY <1>2, <1>3, <1>4, LeastNat DEF Min
<1>8. i \in 1..Len(keys) + 1
  BY <1>2, <1>7
<1>9. ASSUME i <= Len(keys) PROVE ~Greater(k, keys[i])
  <2>1. i # Len(keys) + 1
    BY <1>1, <1>8, <1>9, SMT
  <2> QED BY <1>6, <1>7, <2>1 DEF Greater
<1>10. ASSUME NEW j \in DOMAIN keys, j < i PROVE Greater(k, keys[j])
  <2>1. ~(i <= j)
    BY <1>1, <1>8, <1>10, SMT
  <2> QED BY <1>5, <1>7, <2>1 DEF Greater
<1> QED BY <1>8, <1>9, <1>10

\* Numbers of a list have a bound.
LEMMA LevelsBounded ==
  ASSUME NEW H \in [Nat -> Nat], NEW n \in Nat
  PROVE  \E t \in Nat : \A a \in 1..n : H[a] <= t
<1> DEFINE Bad == {m \in Nat : ~\E t \in Nat : \A a \in 1..m : H[a] <= t}
<1>1. ASSUME Bad # {} PROVE FALSE
  <2>1. PICK m \in Bad : \A j \in Bad : m <= j
    BY <1>1, LeastNat
  <2>2. m # 0
    <3>1. \A a \in 1..0 : H[a] <= 0
      BY SMT
    <3> QED BY <3>1
  <2>3. m - 1 \in Nat /\ ~(m <= m - 1)
    BY <2>2, SMT
  <2>4. PICK t \in Nat : \A a \in 1..m - 1 : H[a] <= t
    BY <2>1, <2>3
  <2>5. PICK u \in Nat : u = H[m]
    OBVIOUS
  <2>6. PICK v \in Nat : v >= t /\ v >= u
    <3>1. t + u \in Nat /\ t + u >= t /\ t + u >= u
      BY SMT
    <3> QED BY <3>1
  <2>7. ASSUME NEW a \in 1..m PROVE H[a] <= v
    <3>1. CASE a = m
      BY <2>5, <2>6, <3>1
    <3>2. CASE a # m
      <4>1. a \in 1..m - 1
        BY <2>3, <3>2, SMT
      <4>2. H[a] <= t /\ H[a] \in Nat
        BY <2>4, <4>1, SMT
      <4> QED BY <2>6, <4>2, SMT
    <3> QED BY <3>1, <3>2
  <2> QED BY <2>7
<1> QED BY <1>1

\* The recursion of findLeafNode at a node.
FindStep(f, k, a) ==
  LET n == nodes[a]
      i == FirstNotLess(n.keys, k)
  IN  IF i > Len(n.children) THEN [page |-> NoPage, nodes |-> 1]
      ELSE IF n.type = 2 THEN [page |-> n.children[i], nodes |-> 1]
      ELSE [f[n.children[i]] EXCEPT !.nodes = @ + 1]
Finds(f, k) == f = [a \in DOMAIN nodes |-> FindStep(f, k, a)]
Find(k) == CHOOSE f : Finds(f, k)

LEMMA FindLeafIs ==
  ASSUME NEW k, root.kind # "leaf" PROVE FindLeaf(k) = Find(k)[root.at]
  BY DEF FindLeaf, Find, Finds, FindStep

\* A step of the recursion looks at the level below only.
LEMMA FindStepBelow ==
  ASSUME NEW K, NEW Q, SoundHeap(nodes, K, Q), NEW H, Leveled(nodes, H), NEW k,
         NEW a \in DOMAIN nodes, NEW f, NEW g,
         \A d \in DOMAIN nodes : H[a] = H[d] + 1 => f[d] = g[d]
  PROVE  FindStep(f, k, a) = FindStep(g, k, a)
<1>1. PICK n : n = nodes[a]
  OBVIOUS
<1>2. n \in NodeType(K)
  BY <1>1, HeapFacts
<1>3. PICK i : i = FirstNotLess(n.keys, k)
  OBVIOUS
<1>4. n.keys \in Seq(K) /\ n.children \in Seq(Nat) /\ n.type \in {1, 2}
  BY <1>2 DEF NodeType
<1>5. i \in 1..Len(n.keys) + 1
  BY <1>3, <1>4, FirstFacts
<1>6. CASE i > Len(n.children) \/ n.type = 2
  BY <1>1, <1>3, <1>6 DEF FindStep
<1>7. CASE ~(i > Len(n.children)) /\ n.type # 2
  <2>1. i \in DOMAIN n.children
    BY <1>4, <1>5, <1>7, SMT
  <2>2. LevelFits(nodes, H, a, i)
    BY <1>1, <2>1 DEF Leveled
  <2>3. f[n.children[i]] = g[n.children[i]]
    BY <1>1, <1>4, <1>7, <2>2 DEF LevelFits
  <2> QED BY <1>1, <1>3, <1>7, <2>3 DEF FindStep
<1> QED BY <1>6, <1>7

\* Up to a level.
FindsUpto(f, k, H, t) ==
  DOMAIN f = DOMAIN nodes /\ \A a \in DOMAIN nodes : H[a] <= t => f[a] = FindStep(f, k, a)

LEMMA FindExists ==
  ASSUME NEW K, NEW Q, SoundHeap(nodes, K, Q), NEW H, Leveled(nodes, H), NEW k
  PROVE  Finds(Find(k), k)
<1>1. DOMAIN nodes = 1..Len(nodes) /\ Len(nodes) \in Nat
  BY HeapFacts
<1>2. H \in [Nat -> Nat] /\ \A a \in DOMAIN nodes : a \in Nat /\ H[a] > 0
  BY DEF Leveled, NatHeap
<1>3. \A a \in DOMAIN nodes : H[a] \in Nat
  BY <1>2
<1> DEFINE Bad == {t \in Nat : ~\E f : FindsUpto(f, k, H, t)}
<1>4. ASSUME Bad # {} PROVE FALSE
  <2>1. PICK t \in Bad : \A u \in Bad : t <= u
    BY <1>4, LeastNat
  <2>2. t # 0
    <3>1. \A a \in DOMAIN nodes : ~(H[a] <= 0)
      BY <1>2, <1>3, SMT
    <3>2. FindsUpto([a \in DOMAIN nodes |-> 0], k, H, 0)
      BY <3>1 DEF FindsUpto
    <3> QED BY <3>2
  <2>3. t - 1 \in Nat /\ ~(t <= t - 1)
    BY <2>2, SMT
  <2>4. PICK f : FindsUpto(f, k, H, t - 1)
    BY <2>1, <2>3
  <2>5. PICK g : g = [a \in DOMAIN nodes |-> IF H[a] = t THEN FindStep(f, k, a) ELSE f[a]]
    OBVIOUS
  <2>6. ASSUME NEW a \in DOMAIN nodes, H[a] <= t PROVE g[a] = FindStep(g, k, a)
    <3>1. ASSUME NEW d \in DOMAIN nodes, H[a] = H[d] + 1 PROVE f[d] = g[d]
      <4>1. H[d] # t
        BY <1>3, <2>6, <3>1, SMT
      <4> QED BY <2>5, <4>1
    <3>2. FindStep(f, k, a) = FindStep(g, k, a)
      BY <3>1, FindStepBelow
    <3>3. CASE H[a] = t
      BY <2>5, <3>2, <3>3
    <3>4. CASE H[a] # t
      <4>1. H[a] <= t - 1
        BY <1>3, <2>6, <3>4, SMT
      <4>2. f[a] = FindStep(f, k, a)
        BY <2>4, <4>1 DEF FindsUpto
      <4> QED BY <2>5, <3>2, <3>4, <4>2
    <3> QED BY <3>3, <3>4
  <2>7. FindsUpto(g, k, H, t)
    BY <2>5, <2>6 DEF FindsUpto
  <2> QED BY <2>7
<1>5. PICK t \in Nat : \A a \in DOMAIN nodes : H[a] <= t
  BY <1>1, <1>2, LevelsBounded
<1>6. PICK f : FindsUpto(f, k, H, t)
  BY <1>4
<1>7. PICK g : g = [a \in DOMAIN nodes |-> f[a]]
  OBVIOUS
<1>8. ASSUME NEW a \in DOMAIN nodes PROVE g[a] = FindStep(g, k, a)
  <2>1. FindStep(f, k, a) = FindStep(g, k, a)
    BY <1>7, FindStepBelow
  <2> QED BY <1>5, <1>6, <1>7, <2>1 DEF FindsUpto
<1>9. Finds(g, k)
  BY <1>7, <1>8 DEF Finds
<1> QED BY <1>9 DEF Find

\* A short node has no keys under it beyond its last.
Roomy(N, a) == Short(nodes[a]) => \A x \in N[a] : ~Greater(x, Last(nodes[a].keys))
\* What is found for a key of the span of a node: a leaf with the key in its span.
Lands(f, k, H, L, P, a) ==
  /\ f[a] \in [page : P, nodes : Nat] /\ f[a].nodes = H[a]
  /\ k \in L[f[a].page]

\* The child that a key goes to.
LEMMA ChildTakes ==
  ASSUME NEW K, K \subseteq KeyType, NEW Q, SoundHeap(nodes, K, Q),
         NEW N, NEW L, NEW P, Ordered(nodes, N, L, P),
         NEW a \in DOMAIN nodes, Roomy(N, a), NEW k \in N[a], k \in KeyType,
         NEW i, i = FirstNotLess(nodes[a].keys, k)
  PROVE  /\ i \in DOMAIN nodes[a].children /\ ~(i > Len(nodes[a].children)) /\ Goes(nodes[a], i, k)
         /\ k \in ChildSpan(nodes, N, L, a, i)
<1>1. PICK n : n = nodes[a]
  OBVIOUS
<1>2. n \in NodeType(K) /\ NodeLengths(n)
  BY <1>1, HeapFacts
<1>3. n.keys \in Seq(K) /\ n.children \in Seq(Nat)
  BY <1>2 DEF NodeType
<1>4. PICK s \in Nat, t \in Nat : /\ s = Len(n.keys) /\ t = Len(n.children)
                                  /\ DOMAIN n.keys = 1..s /\ DOMAIN n.children = 1..t
  BY <1>3, SMT
<1>5. t \in {s, s + 1} /\ t > 0
  BY <1>2, <1>4 DEF NodeLengths
<1>6. /\ i \in 1..s + 1 /\ (i <= s => ~Greater(k, n.keys[i]))
      /\ \A j \in 1..s : j < i => Greater(k, n.keys[j])
  BY <1>1, <1>3, <1>4, FirstFacts
<1>7. Goes(n, i, k)
  <2>1. i > 1 => i - 1 \in 1..s /\ i - 1 < i
    BY <1>4, <1>6, SMT
  <2> QED BY <1>4, <1>6, <2>1 DEF Goes
<1>8. i \in 1..t
  <2>1. SUFFICES ASSUME t = s, i = s + 1 PROVE FALSE
    BY <1>4, <1>5, <1>6, SMT
  <2>2. Short(n) /\ Last(n.keys) = n.keys[s] /\ s \in 1..s /\ s < i
    BY <1>4, <1>5, <2>1, SMT DEF Short, Last
  <2> QED BY <1>1, <1>6, <2>2 DEF Roomy
<1>9. ChildFits(nodes, N, L, P, a, i)
  BY <1>1, <1>4, <1>8, OrderedFacts
<1>10. k \in ChildSpan(nodes, N, L, a, i)
  BY <1>1, <1>7, <1>9 DEF ChildFits
<1>11. ~(i > t)
  BY <1>4, <1>8, SMT
<1> QED BY <1>1, <1>4, <1>7, <1>8, <1>10, <1>11

\* The children of a node are roomy.
LEMMA ChildRoomy ==
  ASSUME NEW K, K \subseteq KeyType, NEW Q, SoundHeap(nodes, K, Q),
         NEW N, NEW L, NEW P, Ordered(nodes, N, L, P),
         NEW a \in Inner(nodes), NEW i \in DOMAIN nodes[a].children
  PROVE  Roomy(N, nodes[a].children[i]) /\ nodes[a].children[i] \in DOMAIN nodes
<1>1. PICK d : d = nodes[a].children[i]
  OBVIOUS
<1>2. d \in DOMAIN nodes /\ Bounded(nodes, a, i) /\ a \in DOMAIN nodes /\ nodes[a].type = 1
  BY <1>1 DEF SoundHeap, ChildAt, Inner
<1>3. ASSUME Short(nodes[d]), NEW x \in N[d] PROVE ~Greater(x, Last(nodes[d].keys))
  <2>1. i <= Len(nodes[a].keys) /\ ~Greater(nodes[a].keys[i], Last(nodes[d].keys))
    BY <1>1, <1>2, <1>3 DEF Bounded, ChildAt
  <2>2. ChildFits(nodes, N, L, P, a, i) /\ N \in Spans
    BY <1>2, OrderedFacts
  <2>3. N[d] = {y \in N[a] : Goes(nodes[a], i, y)}
    BY <1>1, <1>2, <2>2 DEF ChildFits, ChildSpan
  <2>4. ~Greater(x, nodes[a].keys[i])
    BY <1>3, <2>1, <2>3 DEF Goes
  <2>5. nodes[a] \in NodeType(K) /\ NodeLengths(nodes[a]) /\ nodes[d] \in NodeType(K) /\ NodeLengths(nodes[d])
    BY <1>2, HeapFacts
  <2>6. nodes[a].keys[i] \in KeyType
    <3>1. nodes[a].keys \in Seq(K) /\ nodes[a].children \in Seq(Nat)
      BY <2>5 DEF NodeType
    <3>2. i \in DOMAIN nodes[a].keys
      BY <2>1, <3>1, SMT
    <3> QED BY <3>1, <3>2, ElementOfSeq
  <2>7. Last(nodes[d].keys) \in KeyType
    <3>1. nodes[d].keys \in Seq(K) /\ Len(nodes[d].keys) > 0
      BY <1>3, <2>5 DEF NodeType, NodeLengths, Short
    <3>2. Len(nodes[d].keys) \in DOMAIN nodes[d].keys
      BY <3>1, SMT
    <3> QED BY <3>1, <3>2, ElementOfSeq DEF Last
  <2>8. x \in KeyType
    <3>1. a \in Nat
      BY <1>2, HeapFacts, SMT
    <3> QED BY <1>3, <2>2, <2>3, <3>1 DEF Spans
  <2> QED BY <2>1, <2>4, <2>6, <2>7, <2>8, GreaterChains
<1> QED BY <1>1, <1>2, <1>3 DEF Roomy

LEMMA FindLands ==
  ASSUME NEW K, K \subseteq KeyType, NEW Q, SoundHeap(nodes, K, Q), NEW H, Leveled(nodes, H),
         NEW N, NEW L, NEW P, Ordered(nodes, N, L, P), NEW k \in KeyType,
         NEW f, Finds(f, k)
  PROVE  \A a \in DOMAIN nodes : Roomy(N, a) /\ k \in N[a] => Lands(f, k, H, L, P, a)
<1> DEFINE Lost(a) == Roomy(N, a) /\ k \in N[a] /\ ~Lands(f, k, H, L, P, a)
           Bad == {t \in Nat : \E a \in DOMAIN nodes : H[a] = t /\ Lost(a)}
<1>1. \A a \in DOMAIN nodes : H[a] \in Nat
  BY DEF Leveled, NatHeap
<1>2. ASSUME Bad # {} PROVE FALSE
  <2>1. PICK t \in Bad : \A u \in Bad : t <= u
    BY <1>2, LeastNat
  <2>2. PICK a \in DOMAIN nodes : H[a] = t /\ Lost(a)
    OBVIOUS
  <2>3. PICK i : i = FirstNotLess(nodes[a].keys, k)
    OBVIOUS
  <2>4. /\ i \in DOMAIN nodes[a].children /\ ~(i > Len(nodes[a].children))
        /\ k \in ChildSpan(nodes, N, L, a, i)
    BY <2>2, <2>3, ChildTakes
  <2>5. PICK d : d = nodes[a].children[i]
    OBVIOUS
  <2>6. f[a] = FindStep(f, k, a)
    BY DEF Finds
  <2>7. CASE nodes[a].type = 2
    <3>1. f[a] = [page |-> d, nodes |-> 1]
      BY <2>3, <2>4, <2>5, <2>6, <2>7 DEF FindStep
    <3>2. d \in P
      BY <2>4, <2>5, <2>7, OrderedFacts DEF ChildFits
    <3>3. k \in L[d]
      BY <2>4, <2>5, <2>7 DEF ChildSpan
    <3>4. H[a] = 1
      BY <2>7 DEF Leveled
    <3> QED BY <2>2, <3>1, <3>2, <3>3, <3>4 DEF Lands
  <2>8. CASE nodes[a].type # 2
    <3>1. nodes[a].type = 1 /\ a \in Inner(nodes)
      <4>1. nodes[a] \in NodeType(K)
        BY HeapFacts
      <4> QED BY <2>8, <4>1 DEF NodeType, Inner
    <3>2. Roomy(N, d) /\ d \in DOMAIN nodes
      BY <2>4, <2>5, <3>1, ChildRoomy
    <3>3. k \in N[d]
      BY <2>4, <2>5, <3>1 DEF ChildSpan
    <3>4. H[a] = H[d] + 1
      BY <2>4, <2>5, <3>1 DEF Leveled, LevelFits
    <3>5. H[d] \in Nat /\ ~(t <= H[d])
      BY <1>1, <2>2, <3>2, <3>4, SMT
    <3>6. Lands(f, k, H, L, P, d)
      BY <2>1, <3>2, <3>3, <3>5
    <3>7. f[a] = [f[d] EXCEPT !.nodes = @ + 1]
      BY <2>3, <2>4, <2>5, <2>6, <2>8 DEF FindStep
    <3>8. f[d] \in [page : P, nodes : Nat] /\ f[d].nodes = H[d] /\ k \in L[f[d].page]
      BY <3>6 DEF Lands
    <3>9. f[a] \in [page : P, nodes : Nat] /\ f[a].page = f[d].page /\ f[a].nodes = f[d].nodes + 1
      BY <3>7, <3>8
    <3>10. Lands(f, k, H, L, P, a)
      BY <3>4, <3>8, <3>9 DEF Lands
    <3> QED BY <2>2, <3>10
  <2> QED BY <2>7, <2>8
<1> QED BY <1>1, <1>2

-----------------------------------------------------------------------------
(* What a search finds                                                     *)

\* A page with a key in its span has the key, if any page has it.
LEMMA SpanHasKey ==
  ASSUME NEW c, NEW M, Chain(pages, c, M), NEW p \in ToSet(c), NEW k \in M[p]
  PROVE  k \in DiskKeys <=> k \in ToSet(pages[p].keys)
<1>1. PICK i \in DOMAIN c : c[i] = p
  BY DEF ToSet
<1>2. \A j \in DOMAIN c : c[j] \in DOMAIN pages /\ ToSet(pages[c[j]].keys) \subseteq M[c[j]]
  BY DEF Chain, ChainOf, Along, KeysIn
<1>3. ASSUME k \in DiskKeys PROVE k \in ToSet(pages[p].keys)
  <2>1. PICK q \in DOMAIN pages : k \in ToSet(pages[q].keys)
    BY <1>3 DEF DiskKeys
  <2>2. PICK j \in DOMAIN c : k \in ToSet(pages[c[j]].keys)
    BY <2>1 DEF Chain, ChainOf
  <2>3. k \in M[c[j]] /\ k \in M[c[i]]
    BY <1>1, <1>2, <2>2
  <2>4. k \in KeyType
    <3>1. M \in Spans /\ c[i] \in Nat
      BY <1>1, ChainFacts
    <3> QED BY <2>3, <3>1 DEF Spans
  <2>5. ~(i < j) /\ ~(j < i)
    BY <2>3, <2>4, GreaterIsStrict DEF Chain, Along, Apart
  <2>6. i = j
    <3>1. DOMAIN c \subseteq Int
      <4>1. c \in Seq(Nat)
        BY DEF Chain, ChainOf
      <4> QED BY <4>1, SMT
    <3> QED BY <2>5, <3>1, SMT
  <2> QED BY <1>1, <2>2, <2>6
<1> QED BY <1>1, <1>2, <1>3 DEF DiskKeys

\* The first key that is not less is the key, if it is there.
LEMMA FirstIsKey ==
  ASSUME NEW K, K \subseteq KeyType, NEW keys \in Seq(K), Rising(keys), NEW k \in KeyType,
         NEW i, i = FirstNotLess(keys, k)
  PROVE  (i <= Len(keys) /\ keys[i] = k) <=> k \in ToSet(keys)
<1>1. PICK n \in Nat : n = Len(keys) /\ DOMAIN keys = 1..n
  BY LenProperties, SMT
<1>2. /\ i \in 1..n + 1 /\ (i <= n => ~Greater(k, keys[i]))
      /\ \A j \in 1..n : j < i => Greater(k, keys[j])
  BY <1>1, FirstFacts
<1>3. ASSUME i <= n, keys[i] = k PROVE k \in ToSet(keys)
  <2>1. i \in 1..n
    BY <1>1, <1>2, <1>3, SMT
  <2> QED BY <1>1, <1>3, <2>1 DEF ToSet
<1>4. ASSUME k \in ToSet(keys) PROVE i <= n /\ keys[i] = k
  <2>1. PICK j \in 1..n : keys[j] = k
    BY <1>1, <1>4 DEF ToSet
  <2>2. ~(j < i)
    BY <1>2, <2>1, GreaterIsStrict
  <2>3. i \in 1..n /\ i <= n /\ (i = j \/ i < j)
    BY <1>1, <1>2, <2>1, <2>2, SMT
  <2>4. i < j => Greater(keys[j], keys[i])
    BY <1>1, <2>3 DEF Rising
  <2> QED BY <1>2, <2>1, <2>3, <2>4
<1> QED BY <1>1, <1>3, <1>4

\* The tree between two calls.
LEMMA TreeAtRest ==
  ASSUME IInv, OInv, Owner, Answers
  PROVE  /\ OwnerInv /\ OldKeys \subseteq KeyType /\ root.kind \in {"leaf", "node"}
         /\ \E c, N, M : /\ Chain(pages, c, M) /\ Ordered(nodes, N, M, ToSet(c))
                         /\ RootFits(c, N, M)
<1>1. pc = "idle" /\ root # NoRoot
  BY DEF Answers
<1>2. OwnerInv /\ RowsInv
  BY DEF IInv
<1>3. row \in 0..Len(table) /\ OldKeys = KeysUpto(row)
  BY <1>1, <1>2 DEF RowsInv, OldKeys, Inserting
<1>4. OldKeys \subseteq KeyType
  BY <1>2, <1>3, RowFacts
<1>5. HasTree
  BY <1>1 DEF OInv, OrderInv, NoPages, FirstPage
<1>6. PICK c, N, M : TreeFits(c, N, M)
  BY <1>5 DEF HasTree
<1>7. LeafSpans(M) = M /\ Listed(c) = ToSet(c)
  BY <1>1 DEF LeafSpans, Listed, Linking
<1> QED BY <1>1, <1>2, <1>4, <1>6, <1>7 DEF TreeFits, OwnerInv, RootInv

\* findLeafNode from the root: a page of the chain that the key belongs to.
LEMMA LeafFound ==
  ASSUME IInv, OInv, LevelInv, Owner, Answers, NEW c, NEW N, NEW M,
         Chain(pages, c, M), Ordered(nodes, N, M, ToSet(c)), RootFits(c, N, M),
         NEW k \in KeyType
  PROVE  FindLeaf(k).page \in ToSet(c) /\ k \in M[FindLeaf(k).page]
<1>1. pc = "idle" /\ OwnerInv /\ OldKeys \subseteq KeyType
  BY TreeAtRest DEF Answers
<1>2. CASE root.kind = "leaf"
  <2>1. FindLeaf(k).page = root.leaf.pageId
    BY <1>2 DEF FindLeaf
  <2> QED BY <1>1, <1>2, <2>1 DEF RootFits, Splitting
<1>3. CASE root.kind # "leaf"
  <2>1. root.kind = "node"
    BY <1>3, TreeAtRest
  <2>2. SoundHeap(nodes, OldKeys, DOMAIN pages) /\ Top(nodes, root.at) /\ N[root.at] = KeyType
    BY <1>1, <2>1 DEF OwnerInv, RootInv, RootFits
  <2>3. PICK H : Leveled(nodes, H)
    BY DEF LevelInv, HasLevels
  <2>4. Finds(Find(k), k)
    BY <2>2, <2>3, FindExists
  <2>5. root.at \in DOMAIN nodes /\ Roomy(N, root.at)
    BY <2>2 DEF Top, Roomy
  <2>6. Lands(Find(k), k, H, M, ToSet(c), root.at)
    BY <1>1, <2>2, <2>3, <2>4, <2>5, FindLands
  <2>7. FindLeaf(k) = Find(k)[root.at]
    BY <1>3, FindLeafIs
  <2> QED BY <2>6, <2>7 DEF Lands
<1> QED BY <1>2, <1>3

LEMMA SearchFinds ==
  ASSUME IInv, OInv, LevelInv, Owner, Answers, NEW k \in KeyType
  PROVE  Search(k) = IF k \in DiskKeys THEN "found" ELSE "missed"
<1>1. PICK c, N, M : /\ Chain(pages, c, M) /\ Ordered(nodes, N, M, ToSet(c)) /\ RootFits(c, N, M)
  BY TreeAtRest
<1>2. pc = "idle" /\ OwnerInv /\ OldKeys \subseteq KeyType
  BY TreeAtRest DEF Answers
<1>3. PICK p : p = FindLeaf(k).page
  OBVIOUS
<1>4. p \in ToSet(c) /\ k \in M[p]
  BY <1>1, <1>3, LeafFound
<1>5. p \in DOMAIN pages /\ p # NoPage /\ Rising(pages[p].keys)
  <2>1. PICK i \in DOMAIN c : c[i] = p
    BY <1>4 DEF ToSet
  <2>2. p \in DOMAIN pages /\ p \in Nat /\ Rising(pages[p].keys)
    BY <1>1, <2>1, ChainFacts DEF KeysIn
  <2> QED BY <2>2, SMT DEF NoPage
<1>6. PICK keys : keys = pages[p].keys
  OBVIOUS
<1>7. root.kind = "leaf" => root.leaf.keys = keys
  <2>1. SUFFICES ASSUME root.kind = "leaf" PROVE root.leaf.keys = keys
    OBVIOUS
  <2>2. p = root.leaf.pageId
    BY <1>3, <2>1 DEF FindLeaf
  <2>3. root.leaf = pages[root.leaf.pageId]
    BY <1>2, <2>1 DEF OwnerInv, RootInv
  <2> QED BY <1>6, <2>2, <2>3
<1>8. keys \in Seq(OldKeys)
  <2>1. pages[p] \in PageType(OldKeys)
    BY <1>5 DEF IInv, PagesInv
  <2> QED BY <1>6, <2>1 DEF PageType
<1>9. PICK i : i = FirstNotLess(keys, k)
  OBVIOUS
<1>10. (i <= Len(keys) /\ keys[i] = k) <=> k \in ToSet(keys)
  BY <1>2, <1>5, <1>6, <1>8, <1>9, FirstIsKey
<1>11. k \in DiskKeys <=> k \in ToSet(keys)
  BY <1>1, <1>4, <1>6, SpanHasKey
<1>12. Search(k) = IF i <= Len(keys) /\ keys[i] = k THEN "found" ELSE "missed"
  BY <1>3, <1>5, <1>6, <1>7, <1>9 DEF Search
<1> QED BY <1>10, <1>11, <1>12

\* BPlusTree.cpp search: for every degree and table, a process that has
\* allocated all pages of its file finds a key if and only if an insertion of
\* it has returned, in whatever shape the splits have left the tree.
THEOREM SearchFindsInsertions ==
  ASSUME ~AppendAfterReload PROVE Spec => [](~Reloaded => SearchIsExact)
<1>1. ASSUME IInv, OInv, LevelInv, FileHolds, ~Reloaded PROVE SearchIsExact
  <2>1. SUFFICES ASSUME Answers, NEW k \in Asked
                 PROVE  Search(k) = IF k \in inserted THEN "found" ELSE "missed"
    BY DEF SearchIsExact
  <2>2. Owner
    BY <1>1, <2>1, NumberFacts DEF IInv, Answers, Owner
  <2>3. k \in KeyType
    <3>1. table \in Seq(Nat)
      BY <1>1, TablesAssumption DEF IInv, RowsInv
    <3>2. PICK n \in DOMAIN table : k = RowKey(n) \/ k = Key(table[n], 0)
      BY DEF Asked, RowKeys
    <3>3. table[n] \in Nat /\ n \in Nat
      BY <3>1, ElementOfSeq, SMT
    <3> QED BY <3>2, <3>3 DEF RowKey, Key, KeyType
  <2>4. Search(k) = IF k \in DiskKeys THEN "found" ELSE "missed"
    BY <1>1, <2>1, <2>2, <2>3, SearchFinds
  <2> QED BY <1>1, <2>4 DEF FileHolds
<1>2. IInv /\ OInv /\ [Next]_vars => OInv'
  BY OInvNext
<1>3. IInv /\ LevelInv /\ [Next]_vars => LevelInv'
  BY LevelInvNext
<1>4. IInv /\ FileHolds /\ [Next]_vars => FileHolds'
  BY FileHoldsNext
<1>5. IInv /\ OInv /\ LevelInv /\ FileHolds => (~Reloaded => SearchIsExact)
  BY <1>1
<1> QED BY IInvInvariant, OInvInit, LevelInvInit, FileHoldsInit, <1>2, <1>3, <1>4, <1>5, PTL DEF Spec
-----------------------------------------------------------------------------
(* Leaves with keys                                                        *)

\* A leaf below a node has keys, unless it is the page just allocated.
HasKeys(pgs, heap, a, i, blank) ==
  heap[a].type = 2 => heap[a].children[i] \in blank \/ pgs[heap[a].children[i]].keys # <<>>
LeavesHaveKeys(pgs, heap, blank) ==
  \A a \in DOMAIN heap : \A i \in DOMAIN heap[a].children : HasKeys(pgs, heap, a, i, blank)
Blank == IF pc = "writeRight" THEN {right} ELSE {}
HasFilled == LeavesHaveKeys(pages, nodes, Blank)
FilledInv == Owner => HasFilled

LEMMA NothingToFill == ASSUME nodes = <<>> PROVE HasFilled
  BY DEF HasFilled, LeavesHaveKeys

\* Splitting a node moves leaves.
LEMMA SplitHasKeys ==
  ASSUME NEW K, NEW heap, NEW p, NEW i, NEW h, NEW fresh, NEW c, NEW m, NEW l, NEW r,
         SplitShape(K, heap, p, i, h, fresh, c, m, l, r),
         NEW pgs, LeavesHaveKeys(pgs, heap, {})
  PROVE  LeavesHaveKeys(pgs, h, {})
<1>1. ASSUME NEW a \in DOMAIN h, NEW j \in DOMAIN h[a].children PROVE HasKeys(pgs, h, a, j, {})
  <2>1. CASE a = p
    BY <2>1 DEF SplitShape, Adopted, HasKeys
  <2>2. CASE a # p
    <3>1. PICK b \in DOMAIN heap : \E s \in DOMAIN heap[b].children :
            h[a].children[j] = heap[b].children[s] /\ h[a].type = heap[b].type
      BY <2>2, PlaceMoved
    <3>2. PICK s \in DOMAIN heap[b].children :
            h[a].children[j] = heap[b].children[s] /\ h[a].type = heap[b].type
      BY <3>1
    <3> QED BY <3>2 DEF LeavesHaveKeys, HasKeys
  <2> QED BY <2>1, <2>2
<1> QED BY <1>1 DEF LeavesHaveKeys

LEMMA AppendHasKeys ==
  ASSUME NEW heap, NEW type, NEW child, NEW h, NEW a, AppendShape(heap, type, child, h, a),
         NEW pgs, LeavesHaveKeys(pgs, heap, {}), type = 2 => pgs[child].keys # <<>>
  PROVE  LeavesHaveKeys(pgs, h, {})
<1>1. /\ a \notin DOMAIN heap /\ DOMAIN h = DOMAIN heap \cup {a}
      /\ \A b \in DOMAIN heap : h[b] = heap[b]
      /\ h[a].type = type /\ h[a].children = <<child>>
  BY DEF AppendShape
<1>2. ASSUME NEW b \in DOMAIN h, NEW j \in DOMAIN h[b].children PROVE HasKeys(pgs, h, b, j, {})
  <2>1. CASE b = a
    <3>1. h[b].children[j] = child
      BY <1>1, <2>1
    <3> QED BY <1>1, <2>1, <3>1 DEF HasKeys
  <2>2. CASE b \in DOMAIN heap
    BY <1>1, <2>2 DEF LeavesHaveKeys, HasKeys
  <2> QED BY <1>1, <2>1, <2>2
<1> QED BY <1>2 DEF LeavesHaveKeys

LEMMA AdoptHasKeys ==
  ASSUME NEW K, NEW heap, NEW a, NEW i, NEW k, NEW page, NEW h, NEW m,
         AdoptShape(K, heap, a, i, k, page, h, m),
         NEW pgs, LeavesHaveKeys(pgs, heap, {})
  PROVE  LeavesHaveKeys(pgs, h, {page})
<1>1. DOMAIN h = DOMAIN heap /\ \A b \in DOMAIN h : h[b].type = heap[b].type
  BY DEF AdoptShape
<1>2. h[a].children[i + 1] = page
  BY DEF AdoptShape, Adopted
<1>3. ASSUME NEW b \in DOMAIN h, NEW j \in DOMAIN h[b].children PROVE HasKeys(pgs, h, b, j, {page})
  <2>1. CASE b = a /\ j = i + 1
    BY <1>2, <2>1 DEF HasKeys
  <2>2. CASE ~(b = a /\ j = i + 1)
    <3>1. PICK s \in DOMAIN heap[b].children : h[b].children[j] = heap[b].children[s]
      BY <2>2, PlaceKept
    <3> QED BY <1>1, <3>1 DEF LeavesHaveKeys, HasKeys
  <2> QED BY <2>1, <2>2
<1> QED BY <1>3 DEF LeavesHaveKeys

\* A page of the file gets keys.
LEMMA WriteHasKeys ==
  ASSUME NEW pgs, NEW heap, NEW blank, LeavesHaveKeys(pgs, heap, blank),
         NEW id, NEW g, \A p \in DOMAIN pgs : p # id => g[p] = pgs[p],
         g[id].keys # <<>>,
         \A a \in DOMAIN heap : heap[a].type = 2 =>
           \A i \in DOMAIN heap[a].children : heap[a].children[i] \in DOMAIN pgs
  PROVE  LeavesHaveKeys(g, heap, blank \ {id})
<1>1. ASSUME NEW a \in DOMAIN heap, NEW i \in DOMAIN heap[a].children
      PROVE  HasKeys(g, heap, a, i, blank \ {id})
  BY DEF LeavesHaveKeys, HasKeys
<1> QED BY <1>1 DEF LeavesHaveKeys

LEMMA ChildrenArePages ==
  ASSUME NEW K, NEW P, NEW heap, SoundHeap(heap, K, P)
  PROVE  \A a \in DOMAIN heap : heap[a].type = 2 =>
           \A i \in DOMAIN heap[a].children : heap[a].children[i] \in P
  BY DEF SoundHeap, SoundNode

LEMMA FullHasKeys == ASSUME NEW page, Full(page) PROVE page.keys # <<>>
<1>1. MinDegree \in Nat /\ MinDegree >= 2
  BY BPlusTreeAssumption
<1> QED BY <1>1, SMT DEF Full

LEMMA InsertLeafFilled ==
  ASSUME IInv, HasFilled, InsertLeaf PROVE HasFilled'
<1>1. /\ pc = "insert" /\ root.kind = "leaf" /\ pages' = pages
      /\ pc' \in {"split", "fill"}
  BY DEF InsertLeaf, diskVars
<1>2. SoundHeap(nodes, OldKeys, DOMAIN pages) /\ root.leaf = pages[root.leaf.pageId]
  BY <1>1 DEF IInv, Owner, Inserting, OwnerInv, RootInv
<1>3. Blank = {} /\ Blank' = {}
  BY <1>1 DEF Blank
<1>4. LeavesHaveKeys(pages, nodes, {})
  BY <1>3 DEF HasFilled
<1>5. LeavesHaveKeys(pages, nodes', {})
  <2>1. CASE Full(root.leaf)
    <3>1. PICK h : h = nodes'
      OBVIOUS
    <3>2. h = Append(nodes, InternalNode(2, <<root.leaf.pageId>>))
      BY <2>1, <3>1 DEF InsertLeaf
    <3>3. AppendShape(nodes, 2, root.leaf.pageId, h, Len(nodes) + 1)
      BY <1>2, <3>2, AppendHasShape
    <3>4. pages[root.leaf.pageId].keys # <<>>
      BY <1>2, <2>1, FullHasKeys
    <3>5. LeavesHaveKeys(pages, h, {})
      BY <1>4, <3>3, <3>4, AppendHasKeys
    <3> QED BY <3>1, <3>5
  <2>2. CASE ~Full(root.leaf)
    BY <1>4, <2>2 DEF InsertLeaf
  <2> QED BY <2>1, <2>2
<1> QED BY <1>1, <1>3, <1>5 DEF HasFilled

LEMMA DescendFilled ==
  ASSUME IInv, HasFilled, Descend PROVE HasFilled'
<1>1. pc = "descend" /\ nodes[at].type = 1 /\ pc' = "descend" /\ pages' = pages
  BY DEF Descend, diskVars
<1>2. SoundHeap(nodes, OldKeys, DOMAIN pages)
  BY <1>1 DEF IInv, Owner, Inserting, OwnerInv
<1>3. Blank = {} /\ Blank' = {}
  BY <1>1 DEF Blank
<1>4. LeavesHaveKeys(pages, nodes, {})
  BY <1>3 DEF HasFilled
<1>5. PICK i : i = PlaceOf(nodes[at].keys, key)
  OBVIOUS
<1>6. PICK child : child = nodes[at].children[i]
  OBVIOUS
<1>7. at \in Inner(nodes) /\ i \in DOMAIN nodes[at].children
  BY <1>1, <1>5, PlaceIsChild
<1>8. LeavesHaveKeys(pages, nodes', {})
  <2>1. CASE Full(nodes[child])
    <3>1. PICK h : h = nodes'
      OBVIOUS
    <3>2. h = SplitInternalNode(nodes, at, i)
      BY <1>5, <1>6, <2>1, <3>1 DEF Descend
    <3>3. PICK m, l, r : SplitShape(OldKeys, nodes, at, i, h, Len(nodes) + 1, child, m, l, r)
      BY <1>2, <1>6, <1>7, <2>1, <3>2, SplitHasShape
    <3>4. LeavesHaveKeys(pages, h, {})
      BY <1>4, <3>3, SplitHasKeys
    <3> QED BY <3>1, <3>4
  <2>2. CASE ~Full(nodes[child])
    <3>1. nodes' = nodes
      BY <1>5, <1>6, <2>2 DEF Descend
    <3> QED BY <1>4, <3>1
  <2> QED BY <2>1, <2>2
<1> QED BY <1>1, <1>3, <1>8 DEF HasFilled

LEMMA InsertInternalFilled ==
  ASSUME IInv, HasFilled, InsertInternal PROVE HasFilled'
<1>1. pc = "insert" /\ root.kind = "node" /\ pc' = "descend" /\ pages' = pages
  BY DEF InsertInternal, diskVars
<1>2. SoundHeap(nodes, OldKeys, DOMAIN pages) /\ Top(nodes, root.at)
  BY <1>1 DEF IInv, Owner, Inserting, OwnerInv, RootInv
<1>3. Blank = {} /\ Blank' = {}
  BY <1>1 DEF Blank
<1>4. LeavesHaveKeys(pages, nodes, {})
  BY <1>3 DEF HasFilled
<1>5. PICK old : old = root.at
  OBVIOUS
<1>6. LeavesHaveKeys(pages, nodes', {})
  <2>1. CASE Full(nodes[old])
    <3>1. PICK h : h = nodes'
      OBVIOUS
    <3>2. PICK parent : parent = Len(nodes) + 1
      OBVIOUS
    <3>3. PICK g : g = Append(nodes, InternalNode(1, <<old>>))
      OBVIOUS
    <3>4. h = SplitInternalNode(g, parent, 1)
      BY <1>5, <2>1, <3>1, <3>2, <3>3 DEF InsertInternal
    <3>5. old \in DOMAIN nodes /\ old \in Nat /\ Top(nodes, old)
      BY <1>2, <1>5, HeapFacts, SMT DEF Top
    <3>6. AppendShape(nodes, 1, old, g, parent)
      BY <1>2, <3>2, <3>3, AppendHasShape
    <3>7. AppendsSound(OldKeys, DOMAIN pages, nodes, 1, old, g, parent)
      BY <1>2, <3>2, <3>3, <3>5, SoundAppends
    <3>8. /\ SoundHeap(g, OldKeys, DOMAIN pages) /\ parent \in Inner(g) /\ 1 \in DOMAIN g[parent].children
          /\ g[parent].children[1] = old /\ g[old] = nodes[old]
      BY <3>5, <3>7 DEF AppendsSound, Top, Inner
    <3>9. LeavesHaveKeys(pages, g, {})
      BY <1>4, <3>6, AppendHasKeys
    <3>10. PICK m, l, r : SplitShape(OldKeys, g, parent, 1, h, Len(g) + 1, old, m, l, r)
      BY <2>1, <3>4, <3>8, SplitHasShape
    <3>11. LeavesHaveKeys(pages, h, {})
      BY <3>9, <3>10, SplitHasKeys
    <3> QED BY <3>1, <3>11
  <2>2. CASE ~Full(nodes[old])
    <3>1. nodes' = nodes
      BY <1>5, <2>2 DEF InsertInternal
    <3> QED BY <1>4, <3>1
  <2> QED BY <2>1, <2>2
<1> QED BY <1>1, <1>3, <1>6 DEF HasFilled

LEMMA AllocateRightFilled ==
  ASSUME IInv, HasFilled, AllocateRight PROVE HasFilled'
<1>1. /\ pc = "split" /\ pc' = "writeRight" /\ right' = pageCount /\ AllocatePage
      /\ nodes' = [nodes EXCEPT ![at] = Adopt(@, slot, leaf.keys[MinDegree], pageCount)]
  BY DEF AllocateRight
<1>2. OwnerInv /\ PagesAreNumbered
  BY <1>1 DEF IInv, Owner, Inserting
<1>3. /\ SoundHeap(nodes, OldKeys, DOMAIN pages)
      /\ at \in DOMAIN nodes /\ nodes[at].type = 2 /\ slot \in DOMAIN nodes[at].children
  BY <1>1, <1>2 DEF OwnerInv, PlaceInv, Splitting
<1>4. pageCount \in Nat /\ leaf.keys[MinDegree] \in OldKeys
  BY <1>1, <1>2, NumberFacts, LeafAtHand DEF Splitting
<1>5. PICK h : h = nodes'
  OBVIOUS
<1>6. PICK m : AdoptShape(OldKeys, nodes, at, slot, leaf.keys[MinDegree], pageCount, h, m)
  BY <1>1, <1>3, <1>4, <1>5, AdoptHasShape
<1>7. LeavesHaveKeys(pages, nodes, {})
  BY <1>1 DEF HasFilled, Blank
<1>8. \A p \in DOMAIN pages : pages'[p] = pages[p]
  <2>1. PICK n \in Nat : Numbered(n)
    BY <1>2 DEF PagesAreNumbered
  <2> QED BY <1>1, <2>1, NumberedAllocates DEF Inserting
<1>9. LeavesHaveKeys(pages', nodes, {})
  BY <1>3, <1>7, <1>8, ChildrenArePages DEF LeavesHaveKeys, HasKeys
<1>10. LeavesHaveKeys(pages', h, {pageCount})
  BY <1>6, <1>9, AdoptHasKeys
<1> QED BY <1>1, <1>5, <1>10 DEF HasFilled, Blank

\* The pages that a split and an insertion write have keys.
LEMMA WritesHaveKeys ==
  ASSUME IInv
  PROVE  /\ pc \in {"writeRight", "writeLeft"} => LeftHalf.keys # <<>> /\ RightHalf.keys # <<>>
         /\ pc = "fill" => Filled.keys # <<>>
<1>1. ASSUME pc \in {"writeRight", "writeLeft"} PROVE LeftHalf.keys # <<>> /\ RightHalf.keys # <<>>
  <2>1. /\ leaf.keys \in Seq(OldKeys) /\ Len(leaf.keys) = 2 * MinDegree - 1
        /\ MinDegree \in 0..Len(leaf.keys)
    BY <1>1, LeafAtHand DEF Splitting
  <2>2. MinDegree \in Nat /\ MinDegree >= 2
    BY BPlusTreeAssumption
  <2>3. Len(Upto(leaf.keys, MinDegree)) = MinDegree
    BY <2>1, UptoFacts
  <2>4. Len(From(leaf.keys, MinDegree + 1)) = Len(leaf.keys) - MinDegree
    <3>1. PICK f : f = From(leaf.keys, MinDegree + 1)
      OBVIOUS
    <3>2. f \in Seq(OldKeys) /\ DOMAIN f = 1..Len(leaf.keys) - MinDegree
      BY <2>1, <3>1, FromFacts
    <3> QED BY <2>1, <2>2, <3>1, <3>2, LenProperties, SMT
  <2>5. PICK u, f : u = Upto(leaf.keys, MinDegree) /\ f = From(leaf.keys, MinDegree + 1)
    OBVIOUS
  <2>6. u # <<>> /\ f # <<>>
    <3>1. Len(u) # 0 /\ Len(f) # 0
      BY <2>1, <2>2, <2>3, <2>4, <2>5, SMT
    <3> QED BY <3>1
  <2>7. LeftHalf.keys = u /\ RightHalf.keys = f
    <3>1. leaf \in PageType(OldKeys)
      BY <1>1, LeafAtHand DEF Splitting
    <3> QED BY <2>5, <3>1 DEF LeftHalf, RightHalf, PageType
  <2> QED BY <2>6, <2>7
<1>2. ASSUME pc = "fill" PROVE Filled.keys # <<>>
  <2>1. ToSet(Filled.keys) = ToSet(leaf.keys) \cup {key}
    BY <1>2, FilledFacts
  <2>2. ToSet(<<>>) = {}
    BY DEF ToSet
  <2> QED BY <2>1, <2>2
<1> QED BY <1>1, <1>2

LEMMA WriteFilled ==
  ASSUME IInv, HasFilled, WriteRight \/ WriteLeft \/ FillStep PROVE HasFilled'
<1>1. /\ nodes' = nodes /\ pc' # "writeRight"
      /\ pc \in {"writeRight", "writeLeft", "fill"}
  BY DEF WriteRight, WriteLeft, FillStep, FillLeaf
<1>2. SoundHeap(nodes, OldKeys, DOMAIN pages)
  BY <1>1 DEF IInv, Owner, Inserting, OwnerInv
<1>3. PICK id, page : /\ WritePage(id, page) /\ page.keys # <<>> /\ id \in DOMAIN pages
                      /\ Blank \ {id} = {}
  <2>1. CASE WriteRight
    <3>1. pc = "writeRight" /\ WritePage(right, RightHalf)
      BY <2>1 DEF WriteRight
    <3> QED BY <3>1, WritesHaveKeys, HalfFacts DEF Blank
  <2>2. CASE WriteLeft
    <3>1. pc = "writeLeft" /\ WritePage(leaf.pageId, LeftHalf)
      BY <2>2 DEF WriteLeft
    <3>2. leaf.pageId \in DOMAIN pages
      BY <3>1, LeafAtHand DEF Splitting
    <3> QED BY <3>1, <3>2, WritesHaveKeys DEF Blank
  <2>3. CASE FillStep
    <3>1. pc = "fill" /\ WritePage(leaf.pageId, Filled)
      BY <2>3 DEF FillStep, FillLeaf, Filled
    <3>2. leaf.pageId \in DOMAIN pages
      BY <3>1, LeafAtHand
    <3> QED BY <3>1, <3>2, WritesHaveKeys DEF Blank
  <2> QED BY <2>1, <2>2, <2>3
<1>4. /\ \A p \in DOMAIN pages : p # id => pages'[p] = pages[p]
      /\ pages'[id] = page
  BY <1>3, WriteFacts
<1>5. LeavesHaveKeys(pages', nodes, Blank \ {id})
  BY <1>2, <1>3, <1>4, ChildrenArePages, WriteHasKeys DEF HasFilled
<1>6. Blank' = {}
  BY <1>1 DEF Blank
<1> QED BY <1>1, <1>3, <1>5, <1>6 DEF HasFilled

LEMMA FilledInvInit == Init => FilledInv
<1>1. Init => ~Owner
  BY DEF Init, TreeInit, Owner, Inserting
<1> QED BY <1>1 DEF FilledInv

LEMMA FilledKept ==
  ASSUME HasFilled, nodes' = nodes, pages' = pages, pc # "writeRight", pc' # "writeRight"
  PROVE  HasFilled'
  BY DEF HasFilled, Blank

LEMMA FilledInvNext ==
  ASSUME ~AppendAfterReload, IInv, OInv, FilledInv, [Next]_vars PROVE FilledInv'
<1>1. (nodes = <<>> => HasFilled)'
  BY NothingToFill, PTL
<1>2. CASE UNCHANGED vars
  <2>1. (Owner <=> Owner') /\ (HasFilled <=> HasFilled')
    BY <1>2 DEF vars, diskVars, treeVars, callVars, Owner, HasFilled, Blank
  <2> QED BY <2>1 DEF FilledInv
<1>3. CASE InsertRow
  <2>1. pc = "idle" /\ ~Reloaded /\ nodes' = nodes /\ pages' = pages /\ pc' # "writeRight"
    BY <1>3 DEF InsertRow, Insert, diskVars
  <2>2. Owner
    BY <2>1, NumberFacts DEF Owner, IInv
  <2> QED BY <2>1, <2>2, FilledKept DEF FilledInv
<1>4. CASE InsertStep \/ FillStep
  <2>1. pc \in Inserting
    BY <1>4 DEF InsertStep, AllocateRoot, WriteRoot, InsertLeaf, InsertInternal, Descend, ReachLeaf,
       AllocateRight, WriteRight, WriteLeft, FillStep, FillLeaf, Inserting
  <2>2. HasFilled /\ OrderInv
    BY <2>1 DEF FilledInv, OInv, Owner
  <2>3. CASE AllocateRoot \/ WriteRoot
    <3>1. nodes' = nodes /\ pc \in {"newRoot", "writeRoot"}
      BY <2>3 DEF AllocateRoot, WriteRoot
    <3>2. nodes = <<>>
      BY <2>2, <3>1 DEF OrderInv, NoPages, FirstPage, HasTree
    <3> QED BY <1>1, <3>1, <3>2 DEF FilledInv
  <2>4. CASE ReachLeaf
    <3>1. nodes' = nodes /\ pages' = pages /\ pc = "descend" /\ pc' \in {"split", "fill"}
      BY <2>4 DEF ReachLeaf, diskVars
    <3> QED BY <2>2, <3>1, FilledKept DEF FilledInv
  <2>5. CASE InsertLeaf \/ InsertInternal \/ Descend \/ AllocateRight
    BY <2>2, <2>5, InsertLeafFilled, InsertInternalFilled, DescendFilled, AllocateRightFilled DEF FilledInv
  <2>6. CASE WriteRight \/ WriteLeft \/ FillStep
    BY <2>2, <2>6, WriteFilled DEF FilledInv
  <2> QED BY <1>4, <2>3, <2>4, <2>5, <2>6 DEF InsertStep
<1>5. CASE Open \/ (Ends /\ UNCHANGED clientVars)
  BY <1>5, OpenKeeps, EndsKeeps DEF FilledInv
<1>6. CASE OpenPagesStep
  <2>1. pc = "openFile" /\ nodes' = nodes
    BY <1>6 DEF OpenPagesStep, OpenPages
  <2>2. nodes = <<>>
    BY <2>1 DEF IInv, OtherInv
  <2> QED BY <1>1, <2>1, <2>2 DEF FilledInv
<1>7. CASE LoadStep /\ UNCHANGED clientVars
  <2>1. CASE LoadDies
    BY <1>7, <2>1, EndsKeeps DEF LoadDies, FilledInv
  <2>2. CASE LoadNothing
    <3>1. nodes' = nodes /\ pc = "load"
      BY <2>2 DEF LoadNothing
    <3>2. nodes = <<>>
      BY <3>1 DEF IInv, OtherInv
    <3> QED BY <1>1, <3>1, <3>2 DEF FilledInv
  <2>3. CASE LoadRoot
    <3>1. pc = "loadUp" /\ pc' = "idle" /\ pageCount \in DOMAIN pages /\ pageCount' = pageCount /\ pages' = pages
      BY <2>3 DEF LoadRoot, IInv, OtherInv, diskVars
    <3> QED BY <3>1 DEF FilledInv, Owner, Inserting
  <2>4. CASE NoFile \/ LoadLeaves \/ LoadLevel
    <3>1. pc' \in {"closed", "loadUp"}
      BY <2>4 DEF NoFile, LoadLeaves, LoadLevel, IInv, OtherInv
    <3> QED BY <3>1 DEF FilledInv, Owner, Inserting
  <2> QED BY <1>7, <2>1, <2>2, <2>3, <2>4 DEF LoadStep
<1> QED BY <1>2, <1>3, <1>4, <1>5, <1>6, <1>7 DEF Next, Step

-----------------------------------------------------------------------------
(* The shape of the tree                                                   *)

\* The recursions of Height, Depth and Under at a node.
HeightStep(f, a) ==
  IF nodes[a].type = 2 THEN {1}
  ELSE UNION {{h + 1 : h \in f[b]} : b \in ToSet(nodes[a].children)}
BelowStep(f, a) == IF nodes[a].type = 1 THEN 1 + f[nodes[a].children[1]] ELSE 1
UnderStep(f, a) ==
  IF nodes[a].type = 2
  THEN UNION {ToSet(pages[p].keys) : p \in ToSet(nodes[a].children)}
  ELSE UNION {f[b] : b \in ToSet(nodes[a].children)}
Heights(f) == f = [a \in DOMAIN nodes |-> HeightStep(f, a)]
Belows(f)  == f = [a \in DOMAIN nodes |-> BelowStep(f, a)]
Unders(f)  == f = [a \in DOMAIN nodes |-> UnderStep(f, a)]
Below == CHOOSE f : Belows(f)

LEMMA ShapesAre ==
  /\ Height = CHOOSE f : Heights(f)
  /\ Under = CHOOSE f : Unders(f)
  /\ root.kind = "node" => Depth = 1 + Below[root.at]
<1>1. Height = CHOOSE f : Heights(f)
  BY DEF Height, Heights, HeightStep
<1>2. Under = CHOOSE f : Unders(f)
  BY DEF Under, Unders, UnderStep
<1>3. root.kind = "node" => Depth = 1 + Below[root.at]
  BY DEF Depth, Below, Belows, BelowStep
<1> QED BY <1>1, <1>2, <1>3

\* The children of a node.
LEMMA ChildrenFacts ==
  ASSUME NEW K, NEW Q, SoundHeap(nodes, K, Q), NEW H, Leveled(nodes, H), NEW a \in DOMAIN nodes
  PROVE  /\ nodes[a].type \in {1, 2} /\ H[a] \in Nat /\ H[a] > 0 /\ (nodes[a].type = 2 => H[a] = 1)
         /\ 1 \in DOMAIN nodes[a].children
         /\ nodes[a].type = 1 => \A b \in ToSet(nodes[a].children) : b \in DOMAIN nodes /\ H[a] = H[b] + 1
<1>1. nodes[a] \in NodeType(K) /\ NodeLengths(nodes[a])
  BY HeapFacts
<1>2. nodes[a].type \in {1, 2} /\ nodes[a].children \in Seq(Nat) /\ Len(nodes[a].children) > 0
  BY <1>1 DEF NodeType, NodeLengths
<1>3. 1 \in DOMAIN nodes[a].children
  BY <1>2, SMT
<1>4. H[a] \in Nat /\ H[a] > 0 /\ (nodes[a].type = 2 => H[a] = 1)
  BY DEF Leveled, NatHeap
<1>5. ASSUME nodes[a].type = 1, NEW b \in ToSet(nodes[a].children)
      PROVE  b \in DOMAIN nodes /\ H[a] = H[b] + 1
  <2>1. PICK i \in DOMAIN nodes[a].children : nodes[a].children[i] = b
    BY DEF ToSet
  <2> QED BY <1>5, <2>1 DEF Leveled, LevelFits
<1> QED BY <1>2, <1>3, <1>4, <1>5

\* Each node is as far from its leaves as its level says.
LEMMA HeightStepIs ==
  ASSUME NEW K, NEW Q, SoundHeap(nodes, K, Q), NEW H, Leveled(nodes, H), NEW a \in DOMAIN nodes,
         NEW f, \A b \in DOMAIN nodes : H[a] = H[b] + 1 => f[b] = {H[b]}
  PROVE  HeightStep(f, a) = {H[a]}
<1>1. CASE nodes[a].type = 2
  BY <1>1, ChildrenFacts DEF HeightStep
<1>2. CASE nodes[a].type # 2
  <2>1. /\ nodes[a].type = 1 /\ nodes[a].children[1] \in ToSet(nodes[a].children)
        /\ \A b \in ToSet(nodes[a].children) : b \in DOMAIN nodes /\ H[a] = H[b] + 1
    BY <1>2, ChildrenFacts DEF ToSet
  <2>2. \A b \in ToSet(nodes[a].children) : {h + 1 : h \in f[b]} = {H[a]}
    BY <2>1
  <2>3. UNION {{h + 1 : h \in f[b]} : b \in ToSet(nodes[a].children)} = {H[a]}
    BY <2>1, <2>2
  <2> QED BY <1>2, <2>3 DEF HeightStep
<1> QED BY <1>1, <1>2

LEMMA HeightIs ==
  ASSUME NEW K, NEW Q, SoundHeap(nodes, K, Q), NEW H, Leveled(nodes, H)
  PROVE  \A a \in DOMAIN nodes : Height[a] = {H[a]}
<1>1. PICK g : g = [a \in DOMAIN nodes |-> {H[a]}]
  OBVIOUS
<1>2. \A a \in DOMAIN nodes : HeightStep(g, a) = {H[a]}
  BY <1>1, HeightStepIs
<1>3. Heights(g)
  BY <1>1, <1>2 DEF Heights
<1>4. Heights(Height)
  BY <1>3, ShapesAre
<1>5. \A a \in DOMAIN nodes : H[a] \in Nat
  BY DEF Leveled, NatHeap
<1> DEFINE Bad == {t \in Nat : \E a \in DOMAIN nodes : H[a] = t /\ Height[a] # {H[a]}}
<1>6. ASSUME Bad # {} PROVE FALSE
  <2>1. PICK t \in Bad : \A u \in Bad : t <= u
    BY <1>6, LeastNat
  <2>2. PICK a \in DOMAIN nodes : H[a] = t /\ Height[a] # {H[a]}
    OBVIOUS
  <2>3. ASSUME NEW b \in DOMAIN nodes, H[a] = H[b] + 1 PROVE Height[b] = {H[b]}
    <3>1. H[b] \in Nat /\ ~(t <= H[b])
      BY <1>5, <2>2, <2>3, SMT
    <3> QED BY <2>1, <3>1
  <2>4. HeightStep(Height, a) = {H[a]}
    BY <2>3, HeightStepIs
  <2>5. Height[a] = HeightStep(Height, a)
    BY <1>4 DEF Heights
  <2> QED BY <2>2, <2>4, <2>5
<1> QED BY <1>5, <1>6

LEMMA BelowStepIs ==
  ASSUME NEW K, NEW Q, SoundHeap(nodes, K, Q), NEW H, Leveled(nodes, H), NEW a \in DOMAIN nodes,
         NEW f, \A b \in DOMAIN nodes : H[a] = H[b] + 1 => f[b] = H[b]
  PROVE  BelowStep(f, a) = H[a]
<1>1. CASE nodes[a].type = 2
  BY <1>1, ChildrenFacts DEF BelowStep
<1>2. CASE nodes[a].type # 2
  <2>1. PICK b : b = nodes[a].children[1]
    OBVIOUS
  <2>2. nodes[a].type = 1 /\ b \in DOMAIN nodes /\ H[a] = H[b] + 1
    BY <1>2, <2>1, ChildrenFacts DEF ToSet
  <2>3. H[b] \in Nat
    BY <2>2, ChildrenFacts
  <2>4. BelowStep(f, a) = 1 + H[b]
    BY <2>1, <2>2 DEF BelowStep
  <2> QED BY <2>2, <2>3, <2>4, SMT
<1> QED BY <1>1, <1>2

LEMMA BelowIs ==
  ASSUME NEW K, NEW Q, SoundHeap(nodes, K, Q), NEW H, Leveled(nodes, H)
  PROVE  \A a \in DOMAIN nodes : Below[a] = H[a]
<1>1. PICK g : g = [a \in DOMAIN nodes |-> H[a]]
  OBVIOUS
<1>2. \A a \in DOMAIN nodes : BelowStep(g, a) = H[a]
  BY <1>1, BelowStepIs
<1>3. Belows(g)
  BY <1>1, <1>2 DEF Belows
<1>4. Belows(Below)
  BY <1>3 DEF Below
<1>5. \A a \in DOMAIN nodes : H[a] \in Nat
  BY DEF Leveled, NatHeap
<1> DEFINE Bad == {t \in Nat : \E a \in DOMAIN nodes : H[a] = t /\ Below[a] # H[a]}
<1>6. ASSUME Bad # {} PROVE FALSE
  <2>1. PICK t \in Bad : \A u \in Bad : t <= u
    BY <1>6, LeastNat
  <2>2. PICK a \in DOMAIN nodes : H[a] = t /\ Below[a] # H[a]
    OBVIOUS
  <2>3. ASSUME NEW b \in DOMAIN nodes, H[a] = H[b] + 1 PROVE Below[b] = H[b]
    <3>1. H[b] \in Nat /\ ~(t <= H[b])
      BY <1>5, <2>2, <2>3, SMT
    <3> QED BY <2>1, <3>1
  <2>4. BelowStep(Below, a) = H[a]
    BY <2>3, BelowStepIs
  <2>5. Below[a] = BelowStep(Below, a)
    BY <1>4 DEF Belows
  <2> QED BY <2>2, <2>4, <2>5
<1> QED BY <1>5, <1>6

\* The keys under a node depend on those of the level below only.
LEMMA UnderStepBelow ==
  ASSUME NEW K, NEW Q, SoundHeap(nodes, K, Q), NEW H, Leveled(nodes, H), NEW a \in DOMAIN nodes,
         NEW f, NEW g, \A d \in DOMAIN nodes : H[a] = H[d] + 1 => f[d] = g[d]
  PROVE  UnderStep(f, a) = UnderStep(g, a)
<1>1. CASE nodes[a].type = 2
  BY <1>1 DEF UnderStep
<1>2. CASE nodes[a].type # 2
  <2>1. \A b \in ToSet(nodes[a].children) : b \in DOMAIN nodes /\ H[a] = H[b] + 1
    BY <1>2, ChildrenFacts
  <2>2. \A b \in ToSet(nodes[a].children) : f[b] = g[b]
    BY <2>1
  <2>3. UNION {f[b] : b \in ToSet(nodes[a].children)} = UNION {g[b] : b \in ToSet(nodes[a].children)}
    BY <2>2
  <2> QED BY <1>2, <2>3 DEF UnderStep
<1> QED BY <1>1, <1>2

UndersUpto(f, H, t) ==
  DOMAIN f = DOMAIN nodes /\ \A a \in DOMAIN nodes : H[a] <= t => f[a] = UnderStep(f, a)

LEMMA UnderExists ==
  ASSUME NEW K, NEW Q, SoundHeap(nodes, K, Q), NEW H, Leveled(nodes, H)
  PROVE  Unders(Under)
<1>1. DOMAIN nodes = 1..Len(nodes) /\ Len(nodes) \in Nat
  BY HeapFacts
<1>2. H \in [Nat -> Nat] /\ \A a \in DOMAIN nodes : H[a] > 0
  BY DEF Leveled
<1>3. \A a \in DOMAIN nodes : H[a] \in Nat
  BY ChildrenFacts
<1> DEFINE Bad == {t \in Nat : ~\E f : UndersUpto(f, H, t)}
<1>4. ASSUME Bad # {} PROVE FALSE
  <2>1. PICK t \in Bad : \A u \in Bad : t <= u
    BY <1>4, LeastNat
  <2>2. t # 0
    <3>1. \A a \in DOMAIN nodes : ~(H[a] <= 0)
      BY <1>2, <1>3, SMT
    <3>2. UndersUpto([a \in DOMAIN nodes |-> 0], H, 0)
      BY <3>1 DEF UndersUpto
    <3> QED BY <3>2
  <2>3. t - 1 \in Nat /\ ~(t <= t - 1)
    BY <2>2, SMT
  <2>4. PICK f : UndersUpto(f, H, t - 1)
    BY <2>1, <2>3
  <2>5. PICK g : g = [a \in DOMAIN nodes |-> IF H[a] = t THEN UnderStep(f, a) ELSE f[a]]
    OBVIOUS
  <2>6. ASSUME NEW a \in DOMAIN nodes, H[a] <= t PROVE g[a] = UnderStep(g, a)
    <3>1. ASSUME NEW d \in DOMAIN nodes, H[a] = H[d] + 1 PROVE f[d] = g[d]
      <4>1. H[d] # t
        BY <1>3, <2>6, <3>1, SMT
      <4> QED BY <2>5, <4>1
    <3>2. UnderStep(f, a) = UnderStep(g, a)
      BY <3>1, UnderStepBelow
    <3>3. CASE H[a] = t
      BY <2>5, <3>2, <3>3
    <3>4. CASE H[a] # t
      <4>1. H[a] <= t - 1
        BY <1>3, <2>6, <3>4, SMT
      <4>2. f[a] = UnderStep(f, a)
        BY <2>4, <4>1 DEF UndersUpto
      <4> QED BY <2>5, <3>2, <3>4, <4>2
    <3> QED BY <3>3, <3>4
  <2>7. UndersUpto(g, H, t)
    BY <2>5, <2>6 DEF UndersUpto
  <2> QED BY <2>7
<1>5. PICK t \in Nat : \A a \in DOMAIN nodes : H[a] <= t
  BY <1>1, <1>2, LevelsBounded
<1>6. PICK f : UndersUpto(f, H, t)
  BY <1>4
<1>7. PICK g : g = [a \in DOMAIN nodes |-> f[a]]
  OBVIOUS
<1>8. ASSUME NEW a \in DOMAIN nodes PROVE g[a] = UnderStep(g, a)
  <2>1. UnderStep(f, a) = UnderStep(g, a)
    BY <1>7, UnderStepBelow
  <2> QED BY <1>5, <1>6, <1>7, <2>1 DEF UndersUpto
<1>9. Unders(g)
  BY <1>7, <1>8 DEF Unders
<1> QED BY <1>9, ShapesAre

\* The keys under the child of a node at a place.
KeysBelow(a, i) ==
  IF nodes[a].type = 1 THEN Under[nodes[a].children[i]] ELSE ToSet(pages[nodes[a].children[i]].keys)

LEMMA UnderIs ==
  ASSUME NEW K, NEW Q, SoundHeap(nodes, K, Q), NEW H, Leveled(nodes, H), NEW a \in DOMAIN nodes
  PROVE  \A x : x \in Under[a] <=> \E i \in DOMAIN nodes[a].children : x \in KeysBelow(a, i)
<1>1. Under[a] = UnderStep(Under, a)
  BY UnderExists DEF Unders
<1>2. nodes[a].type \in {1, 2}
  BY ChildrenFacts
<1>3. ASSUME NEW x, x \in Under[a] PROVE \E i \in DOMAIN nodes[a].children : x \in KeysBelow(a, i)
  BY <1>1, <1>2, <1>3 DEF UnderStep, KeysBelow, ToSet
<1>4. ASSUME NEW i \in DOMAIN nodes[a].children, NEW x, x \in KeysBelow(a, i) PROVE x \in Under[a]
  <2>1. nodes[a].children[i] \in ToSet(nodes[a].children)
    BY DEF ToSet
  <2> QED BY <1>1, <1>2, <1>4, <2>1 DEF UnderStep, KeysBelow
<1> QED BY <1>3, <1>4

\* The keys under a child are of its span, and there is one.
BelowFits(N, M, a, i) ==
  KeysBelow(a, i) # {} /\ KeysBelow(a, i) \subseteq ChildSpan(nodes, N, M, a, i)

LEMMA KeysBelowFit ==
  ASSUME IInv, NEW K, NEW Q, SoundHeap(nodes, K, Q), NEW H, Leveled(nodes, H),
         NEW c, NEW N, NEW M, Chain(pages, c, M), Ordered(nodes, N, M, ToSet(c)),
         LeavesHaveKeys(pages, nodes, {})
  PROVE  \A a \in DOMAIN nodes : \A i \in DOMAIN nodes[a].children : BelowFits(N, M, a, i)
<1> DEFINE Wrong(a) == \E i \in DOMAIN nodes[a].children : ~BelowFits(N, M, a, i)
           Bad == {t \in Nat : \E a \in DOMAIN nodes : H[a] = t /\ Wrong(a)}
<1>1. \A a \in DOMAIN nodes : H[a] \in Nat
  BY ChildrenFacts
<1>2. ASSUME Bad # {} PROVE FALSE
  <2>1. PICK t \in Bad : \A u \in Bad : t <= u
    BY <1>2, LeastNat
  <2>2. PICK a \in DOMAIN nodes : H[a] = t /\ Wrong(a)
    OBVIOUS
  <2>3. PICK i \in DOMAIN nodes[a].children : ~BelowFits(N, M, a, i)
    BY <2>2
  <2>4. PICK d : d = nodes[a].children[i]
    OBVIOUS
  <2>5. d \in ToSet(nodes[a].children)
    BY <2>4 DEF ToSet
  <2>6. CASE nodes[a].type = 2
    <3>1. KeysBelow(a, i) = ToSet(pages[d].keys) /\ ChildSpan(nodes, N, M, a, i) = M[d]
      BY <2>4, <2>6 DEF KeysBelow, ChildSpan
    <3>2. d \in ToSet(c)
      BY <2>4, <2>6, OrderedFacts DEF ChildFits
    <3>3. ToSet(pages[d].keys) \subseteq M[d] /\ d \in DOMAIN pages
      <4>1. PICK j \in DOMAIN c : c[j] = d
        BY <3>2 DEF ToSet
      <4> QED BY <4>1, ChainFacts DEF KeysIn
    <3>4. pages[d].keys # <<>>
      BY <2>4, <2>6 DEF LeavesHaveKeys, HasKeys
    <3>5. pages[d].keys \in Seq(OldKeys)
      BY <3>3 DEF IInv, PagesInv, PageType
    <3>6. 1 \in DOMAIN pages[d].keys
      BY <3>4, <3>5, SMT
    <3>7. ToSet(pages[d].keys) # {}
      BY <3>6 DEF ToSet
    <3> QED BY <2>3, <3>1, <3>3, <3>7 DEF BelowFits
  <2>7. CASE nodes[a].type # 2
    <3>1. nodes[a].type = 1 /\ d \in DOMAIN nodes /\ H[a] = H[d] + 1
      BY <2>5, <2>7, ChildrenFacts
    <3>2. KeysBelow(a, i) = Under[d] /\ ChildSpan(nodes, N, M, a, i) = N[d]
      BY <2>4, <3>1 DEF KeysBelow, ChildSpan
    <3>3. H[d] \in Nat /\ ~(t <= H[d])
      BY <1>1, <2>2, <3>1, SMT
    <3>4. \A j \in DOMAIN nodes[d].children : BelowFits(N, M, d, j)
      BY <2>1, <3>1, <3>3
    <3>5. Under[d] # {}
      <4>1. 1 \in DOMAIN nodes[d].children
        BY <3>1, ChildrenFacts
      <4>2. PICK x : x \in KeysBelow(d, 1)
        BY <3>4, <4>1 DEF BelowFits
      <4> QED BY <3>1, <4>1, <4>2, UnderIs
    <3>6. ASSUME NEW x \in Under[d] PROVE x \in N[d]
      <4>1. PICK j \in DOMAIN nodes[d].children : x \in KeysBelow(d, j)
        BY <3>1, UnderIs
      <4>2. x \in ChildSpan(nodes, N, M, d, j)
        BY <3>4, <4>1 DEF BelowFits
      <4>3. ChildFits(nodes, N, M, ToSet(c), d, j)
        BY <3>1, OrderedFacts
      <4> QED BY <4>2, <4>3 DEF ChildFits
    <3> QED BY <2>3, <3>2, <3>5, <3>6 DEF BelowFits
  <2> QED BY <2>6, <2>7
<1> QED BY <1>1, <1>2

\* Every key of the file that belongs to a node is under it.
LEMMA SpanIsUnder ==
  ASSUME NEW K, K \subseteq KeyType, NEW Q, SoundHeap(nodes, K, Q), NEW H, Leveled(nodes, H),
         NEW c, NEW N, NEW M, Chain(pages, c, M), Ordered(nodes, N, M, ToSet(c)),
         NEW k \in DiskKeys, k \in KeyType
  PROVE  \A a \in DOMAIN nodes : Roomy(N, a) /\ k \in N[a] => k \in Under[a]
<1> DEFINE Lost(a) == Roomy(N, a) /\ k \in N[a] /\ k \notin Under[a]
           Bad == {t \in Nat : \E a \in DOMAIN nodes : H[a] = t /\ Lost(a)}
<1>1. \A a \in DOMAIN nodes : H[a] \in Nat
  BY ChildrenFacts
<1>2. ASSUME Bad # {} PROVE FALSE
  <2>1. PICK t \in Bad : \A u \in Bad : t <= u
    BY <1>2, LeastNat
  <2>2. PICK a \in DOMAIN nodes : H[a] = t /\ Lost(a)
    OBVIOUS
  <2>3. PICK i : i = FirstNotLess(nodes[a].keys, k)
    OBVIOUS
  <2>4. i \in DOMAIN nodes[a].children /\ k \in ChildSpan(nodes, N, M, a, i)
    BY <2>2, <2>3, ChildTakes
  <2>5. PICK d : d = nodes[a].children[i]
    OBVIOUS
  <2>6. k \notin KeysBelow(a, i)
    BY <2>2, <2>4, UnderIs
  <2>7. CASE nodes[a].type = 2
    <3>1. k \in M[d] /\ d \in ToSet(c)
      BY <2>4, <2>5, <2>7, OrderedFacts DEF ChildFits, ChildSpan
    <3>2. k \in ToSet(pages[d].keys)
      BY <3>1, SpanHasKey
    <3> QED BY <2>5, <2>6, <2>7, <3>2 DEF KeysBelow
  <2>8. CASE nodes[a].type # 2
    <3>1. nodes[a].type = 1 /\ a \in Inner(nodes)
      BY <2>8, ChildrenFacts DEF Inner
    <3>2. Roomy(N, d) /\ d \in DOMAIN nodes
      BY <2>4, <2>5, <3>1, ChildRoomy
    <3>3. k \in N[d]
      BY <2>4, <2>5, <3>1 DEF ChildSpan
    <3>4. H[a] = H[d] + 1
      BY <2>4, <2>5, <3>1 DEF Leveled, LevelFits
    <3>5. H[d] \in Nat /\ ~(t <= H[d])
      BY <1>1, <2>2, <3>2, <3>4, SMT
    <3>6. k \in Under[d]
      BY <2>1, <3>2, <3>3, <3>5
    <3> QED BY <2>5, <2>6, <3>1, <3>6 DEF KeysBelow
  <2> QED BY <2>7, <2>8
<1> QED BY <1>1, <1>2

LEMMA TreeHasShape ==
  ASSUME IInv, OInv, LevelInv, FilledInv, Owner, Answers, root.kind = "node"
  PROVE  TreeIsSound
<1>1. PICK c, N, M : /\ Chain(pages, c, M) /\ Ordered(nodes, N, M, ToSet(c)) /\ RootFits(c, N, M)
  BY TreeAtRest
<1>2. /\ pc = "idle" /\ SoundHeap(nodes, OldKeys, DOMAIN pages) /\ OldKeys \subseteq KeyType
      /\ Top(nodes, root.at) /\ N[root.at] = KeyType
  BY <1>1, TreeAtRest DEF Answers, OwnerInv, RootInv, RootFits
<1>3. PICK H : Leveled(nodes, H)
  BY DEF LevelInv, HasLevels
<1>4. LeavesHaveKeys(pages, nodes, {})
  BY <1>2 DEF FilledInv, HasFilled, Blank
<1>5. root.at \in DOMAIN nodes /\ Roomy(N, root.at)
  BY <1>2 DEF Top, Roomy
<1>6. \A a \in DOMAIN nodes : \A i \in DOMAIN nodes[a].children : BelowFits(N, M, a, i)
  BY <1>1, <1>2, <1>3, <1>4, KeysBelowFit
<1>7. Under[root.at] = DiskKeys
  <2>1. ASSUME NEW k \in DiskKeys PROVE k \in Under[root.at]
    <3>1. k \in OldKeys
      BY OldKeysOnDisk
    <3> QED BY <1>1, <1>2, <1>3, <1>5, <3>1, SpanIsUnder
  <2>2. ASSUME NEW t \in Nat, NEW a \in DOMAIN nodes, H[a] = t, ~(Under[a] \subseteq DiskKeys) PROVE FALSE
    <3> DEFINE Bad == {u \in Nat : \E b \in DOMAIN nodes : H[b] = u /\ ~(Under[b] \subseteq DiskKeys)}
    <3>1. t \in Bad
      BY <2>2
    <3>2. PICK u \in Bad : \A v \in Bad : u <= v
      BY <3>1, LeastNat
    <3>3. PICK b \in DOMAIN nodes : H[b] = u /\ ~(Under[b] \subseteq DiskKeys)
      OBVIOUS
    <3>4. PICK x \in Under[b] : x \notin DiskKeys
      BY <3>3
    <3>5. PICK i \in DOMAIN nodes[b].children : x \in KeysBelow(b, i)
      BY <1>2, <1>3, UnderIs
    <3>6. PICK d : d = nodes[b].children[i]
      OBVIOUS
    <3>7. CASE nodes[b].type = 2
      <4>1. d \in DOMAIN pages
        BY <1>2, <3>6, <3>7, ChildrenArePages
      <4> QED BY <3>4, <3>5, <3>6, <3>7, <4>1 DEF KeysBelow, DiskKeys
    <3>8. CASE nodes[b].type # 2
      <4>1. nodes[b].type = 1 /\ d \in DOMAIN nodes /\ H[b] = H[d] + 1
        BY <1>2, <1>3, <3>6, <3>8, ChildrenFacts DEF ToSet
      <4>2. x \in Under[d]
        BY <3>5, <3>6, <4>1 DEF KeysBelow
      <4>3. H[d] \in Nat
        BY <1>2, <1>3, <4>1, ChildrenFacts
      <4>4. ~(u <= H[d])
        BY <3>3, <4>1, <4>3, SMT
      <4>5. H[d] \in Bad
        BY <3>4, <4>1, <4>2, <4>3
      <4> QED BY <3>2, <4>4, <4>5
    <3> QED BY <3>7, <3>8
  <2>3. H[root.at] \in Nat
    BY <1>2, <1>3, <1>5, ChildrenFacts
  <2> QED BY <1>5, <2>1, <2>2, <2>3
<1>8. Height[root.at] = {Depth - 1}
  <2>1. Height[root.at] = {H[root.at]}
    BY <1>2, <1>3, <1>5, HeightIs
  <2>2. Depth = 1 + H[root.at]
    BY <1>2, <1>3, <1>5, BelowIs, ShapesAre
  <2>3. H[root.at] \in Nat
    BY <1>2, <1>3, <1>5, ChildrenFacts
  <2>4. Depth - 1 = H[root.at]
    BY <2>2, <2>3, SMT
  <2> QED BY <2>1, <2>4
<1>9. ASSUME NEW a \in DOMAIN nodes
      PROVE  Len(nodes[a].children) \in {Len(nodes[a].keys), Len(nodes[a].keys) + 1}
  BY <1>2, HeapFacts DEF NodeLengths
<1>10. ASSUME NEW a \in DOMAIN nodes, NEW i \in DOMAIN nodes[a].children
       PROVE  /\ KeysBelow(a, i) # {}
              /\ \A k \in KeysBelow(a, i) :
                   /\ i <= Len(nodes[a].keys) => ~Greater(k, nodes[a].keys[i])
                   /\ i > 1 => Greater(k, nodes[a].keys[i - 1])
  <2>1. BelowFits(N, M, a, i)
    BY <1>6
  <2>2. ChildFits(nodes, N, M, ToSet(c), a, i)
    BY <1>1, OrderedFacts
  <2>3. \A k \in KeysBelow(a, i) : Goes(nodes[a], i, k)
    BY <2>1, <2>2 DEF BelowFits, ChildFits
  <2> QED BY <2>1, <2>3 DEF BelowFits, Goes
<1> QED BY <1>7, <1>8, <1>9, <1>10 DEF TreeIsSound, KeysBelow

\* BPlusTree.cpp insert, splitLeafNode and splitInternalNode: for every degree
\* and table, between the insertions of a process that has allocated all pages
\* of its file, the nodes in memory are a search tree over its keys, with a
\* child for each key or one more, and all leaves equally deep.
THEOREM InsertionsKeepTree ==
  ASSUME ~AppendAfterReload PROVE Spec => [](~Reloaded => TreeIsSound)
<1>1. ASSUME IInv, OInv, LevelInv, FilledInv, ~Reloaded PROVE TreeIsSound
  <2>1. SUFFICES ASSUME Answers, root.kind = "node" PROVE TreeIsSound
    BY DEF TreeIsSound
  <2>2. Owner
    BY <1>1, <2>1, NumberFacts DEF IInv, Answers, Owner
  <2> QED BY <1>1, <2>1, <2>2, TreeHasShape
<1>2. IInv /\ OInv /\ [Next]_vars => OInv'
  BY OInvNext
<1>3. IInv /\ LevelInv /\ [Next]_vars => LevelInv'
  BY LevelInvNext
<1>4. IInv /\ OInv /\ FilledInv /\ [Next]_vars => FilledInv'
  BY FilledInvNext
<1>5. IInv /\ OInv /\ LevelInv /\ FilledInv => (~Reloaded => TreeIsSound)
  BY <1>1
<1> QED BY IInvInvariant, OInvInit, LevelInvInit, FilledInvInit, <1>2, <1>3, <1>4, <1>5, PTL DEF Spec
=============================================================================
