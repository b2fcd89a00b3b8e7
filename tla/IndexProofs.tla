---------------------------- MODULE IndexProofs ----------------------------
(***************************************************************************)
(* Lemmas about project1's B+tree index: its nodes, what bulk_load makes   *)
(* of them, and what a lookup finds in them.                               *)
(***************************************************************************)
EXTENDS BTree, StoreProofs, FiniteSetTheorems

-----------------------------------------------------------------------------
(* Nodes that a query can go through.                                      *)

\* A node without pointers is new; any other has one pointer more than keys.
NodeType == [kind : {"btree"}, leaf : BOOLEAN, keys : Seq(Int), pointers : Seq(BlockIds)]
Whole(n) == n \in NodeType /\ Len(n.pointers) = Len(n.keys) + 1
Growing(n) == (n \in NodeType /\ n.keys = <<>> /\ n.pointers = <<>>) \/ Whole(n)

LEMMA NewNode == \A leaf \in BOOLEAN : Growing(EmptyNode(leaf)) /\ EmptyNode(leaf).pointers = <<>>
<1>1. <<>> \in Seq(Int) /\ <<>> \in Seq(BlockIds)
  BY EmptySeq
<1> QED BY <1>1 DEF Growing, NodeType, EmptyNode

\* The first insertion makes a node whole, and it stays so.
LEMMA InsertWhole ==
  ASSUME NEW n, Growing(n), NEW key \in Int, NEW p \in BlockIds
  PROVE  Whole(NodeInsert(n, key, p))
<1> DEFINE keys == n.keys
           ps == n.pointers
           at == UpperBound(keys, key)
           new == InsertAt(keys, at, key)
<1>1. n \in NodeType /\ keys \in Seq(Int) /\ ps \in Seq(BlockIds) /\ Len(keys) \in Nat
  BY DEF Growing, Whole, NodeType
<1>2. at \in 1..Len(keys) + 1
  BY <1>1, LowerBoundIsRight DEF UpperBound
<1>3. new \in Seq(Int) /\ Len(new) = Len(keys) + 1
  <2> HIDE DEF at, keys
  <2> QED BY <1>1, <1>2, InsertAtFacts
<1>4. BlockNull \in BlockIds /\ Len(<<>>) = 0
  BY BlocksAssumption, SMT DEF BlockIds
<1>5. CASE n.leaf
  <2> DEFINE links == IF ps = <<>> THEN <<BlockNull>> ELSE ps
  <2>1. NodeInsert(n, key, p) = [n EXCEPT !.keys = new, !.pointers = InsertAt(links, at, p)]
    BY <1>5 DEF NodeInsert, LeafInsert
  <2>2. links \in Seq(BlockIds) /\ Len(links) = Len(keys) + 1
    <3>1. CASE ps = <<>>
      <4>1. keys = <<>>
        <5>1. Whole(n) => FALSE
          BY <1>1, <1>4, <3>1, SMT DEF Whole
        <5> QED BY <5>1 DEF Growing
      <4>2. links = <<BlockNull>> /\ Len(keys) = 0
        BY <1>4, <3>1, <4>1
      <4>3. <<BlockNull>> \in Seq(BlockIds) /\ Len(<<BlockNull>>) = 1
        BY <1>4, SMT
      <4> QED BY <4>2, <4>3
    <3>2. CASE ps # <<>>
      BY <1>1, <3>2 DEF Growing, Whole
    <3> QED BY <3>1, <3>2
  <2> DEFINE more == InsertAt(links, at, p)
  <2> HIDE DEF links, at
  <2>3. at \in 1..Len(links) + 1
    BY <1>1, <1>2, <2>2, SMT
  <2>4. more \in Seq(BlockIds) /\ Len(more) = Len(links) + 1
    BY <2>2, <2>3, InsertAtFacts
  <2> HIDE DEF more, new, keys
  <2>5. /\ [n EXCEPT !.keys = new, !.pointers = more] \in NodeType
        /\ [n EXCEPT !.keys = new, !.pointers = more].keys = new
        /\ [n EXCEPT !.keys = new, !.pointers = more].pointers = more
    BY <1>1, <1>3, <2>4 DEF NodeType
  <2>6. NodeInsert(n, key, p) = [n EXCEPT !.keys = new, !.pointers = more]
    BY <2>1 DEF more
  <2> QED BY <1>3, <2>2, <2>4, <2>5, <2>6 DEF Whole
<1>6. CASE ~n.leaf /\ ps = <<>>
  <2>1. keys = <<>>
    <3>1. Whole(n) => FALSE
      BY <1>1, <1>4, <1>6, SMT DEF Whole
    <3> QED BY <3>1 DEF Growing
  <2>2. NodeInsert(n, key, p) = [n EXCEPT !.pointers = <<p>>]
    BY <1>6 DEF NodeInsert, InternalInsert
  <2>3. <<p>> \in Seq(BlockIds) /\ Len(<<p>>) = 1
    BY SMT
  <2> DEFINE one == <<p>>
  <2>4. Len(keys) = 0 /\ one \in Seq(BlockIds) /\ Len(one) = 1
    BY <1>4, <2>1, <2>3
  <2> HIDE DEF one
  <2>5. /\ [n EXCEPT !.pointers = one] \in NodeType
        /\ [n EXCEPT !.pointers = one].keys = keys
        /\ [n EXCEPT !.pointers = one].pointers = one
    BY <1>1, <2>4 DEF NodeType
  <2>6. Len(one) = Len(keys) + 1
    BY <2>4, SMT
  <2> QED BY <2>2, <2>5, <2>6 DEF Whole, one
<1>7. CASE ~n.leaf /\ ps # <<>>
  <2>1. Len(ps) = Len(keys) + 1
    BY <1>7 DEF Growing, Whole
  <2>2. NodeInsert(n, key, p) = [n EXCEPT !.keys = new, !.pointers = InsertAt(ps, at + 1, p)]
    BY <1>7 DEF NodeInsert, InternalInsert
  <2> DEFINE more == InsertAt(ps, at + 1, p)
  <2> HIDE DEF at, ps
  <2>3. at + 1 \in 1..Len(ps) + 1
    BY <1>1, <1>2, <2>1, SMT
  <2>4. more \in Seq(BlockIds) /\ Len(more) = Len(ps) + 1
    BY <1>1, <2>3, InsertAtFacts
  <2> HIDE DEF more, new, keys
  <2>5. /\ [n EXCEPT !.keys = new, !.pointers = more] \in NodeType
        /\ [n EXCEPT !.keys = new, !.pointers = more].keys = new
        /\ [n EXCEPT !.keys = new, !.pointers = more].pointers = more
    BY <1>1, <1>3, <2>4 DEF NodeType
  <2>6. NodeInsert(n, key, p) = [n EXCEPT !.keys = new, !.pointers = more]
    BY <2>2 DEF more
  <2> QED BY <1>3, <2>1, <2>4, <2>5, <2>6 DEF Whole
<1> QED BY <1>5, <1>6, <1>7

LEMMA LinkWhole ==
  ASSUME NEW n, Whole(n), NEW id \in BlockIds
  PROVE  Whole(LinkTo(n, id))
<1> DEFINE ps == n.pointers
           new == ReplaceAt(ps, Len(ps), id)
<1>1. n \in NodeType /\ ps \in Seq(BlockIds) /\ Len(ps) = Len(n.keys) + 1
  BY DEF Whole, NodeType
<1>2. new = [ps EXCEPT ![Len(ps)] = id]
  BY DEF ReplaceAt
<1>3. new \in Seq(BlockIds) /\ Len(new) = Len(ps)
  BY <1>1, <1>2, ExceptSeq
<1> HIDE DEF new
<1>4. LinkTo(n, id) = [n EXCEPT !.pointers = new]
  BY DEF LinkTo, new
<1> QED BY <1>1, <1>3, <1>4 DEF Whole, NodeType

\* A search in a whole node ends at a place that has a pointer.
LEMMA PlaceInNode ==
  ASSUME NEW n, Whole(n), NEW x
  PROVE  /\ LowerBound(n.keys, x) \in 1..Len(n.keys) + 1
         /\ \A i \in 1..Len(n.keys) + 1 : n.pointers[i] \in BlockIds
         /\ Last(n.pointers) \in BlockIds
<1> DEFINE keys == n.keys
           ps == n.pointers
<1>1. keys \in Seq(Int) /\ ps \in Seq(BlockIds) /\ Len(ps) = Len(keys) + 1 /\ Len(keys) \in Nat
  BY DEF Whole, NodeType
<1>2. LowerBound(keys, x) \in 1..Len(keys) + 1
  BY <1>1, LowerBoundIsRight
<1> HIDE DEF keys, ps
<1>3. \A i \in 1..Len(keys) + 1 : ps[i] \in BlockIds
  BY <1>1, ElementOfSeq
<1>4. Len(ps) \in 1..Len(keys) + 1 /\ Last(ps) = ps[Len(ps)]
  BY <1>1, SMT DEF Last
<1> QED BY <1>2, <1>3, <1>4 DEF keys, ps

LEMMA ChildIsId ==
  ASSUME NEW n, Whole(n), NEW key
  PROVE  Child(n, key) \in BlockIds
<1> DEFINE at == LowerBound(n.keys, key)
           m == Len(n.keys)
<1>1. /\ at \in 1..m + 1 /\ m \in Nat /\ Last(n.pointers) \in BlockIds
      /\ \A i \in 1..m + 1 : n.pointers[i] \in BlockIds
  <2>1. n.keys \in Seq(Int)
    BY DEF Whole, NodeType
  <2>2. m \in Nat
    BY <2>1, LenProperties
  <2> QED BY <2>2, PlaceInNode
<1>2. Child(n, key) = IF at > m THEN Last(n.pointers)
                      ELSE IF key >= n.keys[at] THEN n.pointers[at + 1] ELSE n.pointers[at]
  BY Zenon DEF Child
<1> HIDE DEF at, m
<1>3. ~(at > m) => at + 1 \in 1..m + 1
  BY <1>1, SMT
<1> QED BY <1>1, <1>2, <1>3

\* range takes pointers of the node it is at.
LEMMA TakenAreIds ==
  ASSUME NEW n, Whole(n), NEW from \in 1..Len(n.keys) + 1
  PROVE  SubSeq(n.pointers, from, from + Cardinality(Taken(n, from)) - 1) \in Seq(BlockIds)
<1> DEFINE m == Len(n.keys)
           ps == n.pointers
           c == Cardinality(Taken(n, from))
<1>1. ps \in Seq(BlockIds) /\ Len(ps) = m + 1 /\ m \in Nat /\ from \in 1..m + 1
  <2>1. n.keys \in Seq(Int) /\ ps \in Seq(BlockIds) /\ Len(ps) = m + 1
    BY DEF Whole, NodeType
  <2> QED BY <2>1, LenProperties
<1>2. Taken(n, from) \in SUBSET (from..m)
  BY DEF Taken
<1> HIDE DEF m, ps
<1>3. IsFiniteSet(from..m) /\ Cardinality(from..m) = (IF from > m THEN 0 ELSE m - from + 1)
  <2>1. from \in Int /\ m \in Int
    BY <1>1, SMT
  <2> QED BY <2>1, FS_Interval
<1>4. IsFiniteSet(Taken(n, from)) /\ c <= Cardinality(from..m)
  BY <1>2, <1>3, FS_Subset
<1>5. c \in Nat
  BY <1>4, FS_CardinalityType
<1> HIDE DEF c
<1>6. from + c - 1 <= m /\ from + c - 1 \in Int
  BY <1>1, <1>3, <1>4, <1>5, SMT
<1> DEFINE to == from + c - 1
<1>7. to \in Int /\ to <= m + 1 /\ from \in Nat /\ from >= 1
  BY <1>1, <1>6, SMT
<1> HIDE DEF to
<1>8. SubSeq(ps, from, to) \in Seq(BlockIds)
  BY <1>1, <1>7, SMT
<1> QED BY <1>8 DEF to, c, ps

\* The keys of a map: each has its place, found by counting the smaller ones.
LEMMA KeysInOrder ==
  ASSUME NEW keys \in SUBSET Int, IsFiniteSet(keys)
  PROVE  /\ InOrder(keys) \in Seq(keys) /\ Len(InOrder(keys)) = Cardinality(keys)
         /\ ToSet(InOrder(keys)) = keys
         /\ \A i, j \in 1..Cardinality(keys) : i < j => InOrder(keys)[i] < InOrder(keys)[j]
<1> DEFINE n == Cardinality(keys)
           Below(key) == {k \in keys : k < key}
           rank == [key \in keys |-> Cardinality(Below(key))]
           t == InOrder(keys)
<1>1. n \in Nat
  BY FS_CardinalityType
<1>2. ASSUME NEW key \in keys
      PROVE  /\ IsFiniteSet(Below(key)) /\ Cardinality(Below(key)) \in Nat
             /\ Cardinality(Below(key)) < n
  <2>1. Below(key) \in SUBSET keys
    OBVIOUS
  <2>2. key \in Int /\ ~(key < key)
    BY SMT
  <2>3. key \notin Below(key)
    BY <2>2
  <2>4. Below(key) # keys
    BY <2>3
  <2> HIDE DEF Below
  <2>5. /\ IsFiniteSet(Below(key)) /\ Cardinality(Below(key)) <= n
        /\ n = Cardinality(Below(key)) => keys = Below(key)
    BY <2>1, FS_Subset
  <2>6. Cardinality(Below(key)) \in Nat
    BY <2>5, FS_CardinalityType
  <2> QED BY <1>1, <2>4, <2>5, <2>6, SMT
<1>3. ASSUME NEW a \in keys, NEW b \in keys, a < b
      PROVE  rank[a] < rank[b]
  <2>1. a \in Int /\ b \in Int /\ \A k \in keys : k \in Int
    OBVIOUS
  <2>2. \A k \in keys : k < a => k < b
    BY <1>3, <2>1, SMT
  <2>3. Below(a) \in SUBSET Below(b) /\ a \in Below(b)
    BY <1>3, <2>2
  <2>4. a \notin Below(a)
    BY <2>1, SMT
  <2>5. IsFiniteSet(Below(b)) /\ Cardinality(Below(a)) \in Nat /\ Cardinality(Below(b)) \in Nat
    BY <1>2
  <2>6. rank[a] = Cardinality(Below(a)) /\ rank[b] = Cardinality(Below(b))
    OBVIOUS
  <2> HIDE DEF Below, rank
  <2>7. /\ Cardinality(Below(a)) <= Cardinality(Below(b))
        /\ Cardinality(Below(b)) = Cardinality(Below(a)) => Below(b) = Below(a)
    BY <2>3, <2>5, FS_Subset
  <2> QED BY <2>3, <2>4, <2>5, <2>6, <2>7, SMT
<1>4. rank \in Injection(keys, 0..n - 1)
  <2>1. rank \in [keys -> 0..n - 1]
    <3>1. \A key \in keys : Cardinality(Below(key)) \in 0..n - 1
      <4> HIDE DEF Below
      <4> QED BY <1>1, <1>2, SMT
    <3> HIDE DEF Below
    <3> QED BY <3>1
  <2>2. ASSUME NEW a \in keys, NEW b \in keys, rank[a] = rank[b] PROVE a = b
    <3>1. a \in Int /\ b \in Int /\ rank[a] \in Int /\ rank[b] \in Int
      BY <1>1, <2>1, SMT
    <3>2. ~(rank[a] < rank[b]) /\ ~(rank[b] < rank[a])
      BY <2>2, <3>1, SMT
    <3>3. ~(a < b) /\ ~(b < a)
      BY <1>3, <3>2
    <3> QED BY <3>1, <3>3, SMT
  <2> HIDE DEF rank
  <2> QED BY <2>1, <2>2 DEF Injection, IsInjective
<1>5. IsFiniteSet(0..n - 1) /\ Cardinality(0..n - 1) = n
  <2>1. 0 \in Int /\ n - 1 \in Int /\ (IF 0 > n - 1 THEN 0 ELSE n - 1 - 0 + 1) = n
    BY <1>1, SMT
  <2> QED BY <2>1, FS_Interval
<1>6. rank \in Surjection(keys, 0..n - 1)
  <2> HIDE DEF rank
  <2> QED BY <1>4, <1>5, FS_Injection
<1>7. ASSUME NEW i \in 1..n PROVE t[i] \in keys /\ rank[t[i]] = i - 1
  <2>1. i - 1 \in 0..n - 1
    BY <1>1, SMT
  <2>2. PICK key \in keys : rank[key] = i - 1
    <3> HIDE DEF rank
    <3> QED BY <1>6, <2>1 DEF Surjection
  <2>3. \E k \in keys : Cardinality({j \in keys : j < k}) = i - 1
    BY <2>2
  <2>4. t[i] = CHOOSE k \in keys : Cardinality({j \in keys : j < k}) = i - 1
    BY DEF InOrder
  <2>5. t[i] \in keys /\ Cardinality({j \in keys : j < t[i]}) = i - 1
    BY <2>3, <2>4, Zenon
  <2> QED BY <2>5
<1>8. t \in Seq(keys) /\ Len(t) = n /\ DOMAIN t = 1..n
  <2>1. DOMAIN t = 1..n /\ t = [i \in 1..n |-> t[i]]
    BY DEF InOrder
  <2> HIDE DEF t
  <2>2. t \in [1..n -> keys]
    BY <1>7, <2>1
  <2>3. t \in Seq(keys)
    BY <1>1, <2>2, SeqDef
  <2> QED BY <1>1, <2>1, <2>3, LenProperties, SMT
<1>9. ASSUME NEW i \in 1..n, NEW j \in 1..n, i < j PROVE t[i] < t[j]
  <2>1. t[i] \in keys /\ t[j] \in keys /\ rank[t[i]] = i - 1 /\ rank[t[j]] = j - 1
    BY <1>7
  <2> HIDE DEF t, rank
  <2>2. ~(t[j] < t[i]) /\ t[i] # t[j]
    <3>1. ~(rank[t[j]] < rank[t[i]]) /\ rank[t[i]] # rank[t[j]]
      BY <1>1, <1>9, <2>1, SMT
    <3> QED BY <1>3, <2>1, <3>1
  <2>3. t[i] \in Int /\ t[j] \in Int
    BY <2>1
  <2> QED BY <2>2, <2>3, SMT
<1>10. ASSUME NEW key \in keys PROVE key \in ToSet(t)
  <2>1. rank[key] \in 0..n - 1
    <3> HIDE DEF rank
    <3> QED BY <1>4 DEF Injection
  <2> DEFINE i == rank[key] + 1
  <2>2. i \in 1..n /\ i - 1 = rank[key]
    <3> HIDE DEF rank
    <3> QED BY <1>1, <2>1, SMT
  <2> HIDE DEF i
  <2>3. t[i] \in keys /\ rank[t[i]] = rank[key]
    BY <1>7, <2>2
  <2> HIDE DEF rank, t
  <2>4. t[i] = key
    BY <1>4, <2>3 DEF Injection, IsInjective
  <2> QED BY <1>8, <2>2, <2>4 DEF ToSet
<1> HIDE DEF t
<1>11. ToSet(t) = keys
  BY <1>7, <1>8, <1>10 DEF ToSet
<1> QED BY <1>8, <1>9, <1>11 DEF t

Started(n) == n.pointers # <<>>

\* A key greater than all goes behind them.
LEMMA PlaceBehind ==
  ASSUME NEW s \in Seq(Int), NEW k \in Int, \A j \in 1..Len(s) : s[j] < k
  PROVE  UpperBound(s, k) = Len(s) + 1
<1> PICK at : at = LowerBound(s, k + 1)
  OBVIOUS
<1>1. \A j \in 1..Len(s) : s[j] \in Int
  BY ElementOfSeq
<1>2. AscendsFrom(s, k + 1)
  BY <1>1, SMT DEF AscendsFrom
<1>3. k + 1 \in Int /\ Len(s) \in Nat
  BY LenProperties, SMT
<1>4. at \in 1..Len(s) + 1 /\ \A i \in at..Len(s) : s[i] >= k + 1
  BY <1>2, <1>3, LowerBoundIsRight
<1>5. ~(at \in 1..Len(s))
  <2> SUFFICES ASSUME at \in 1..Len(s) PROVE FALSE
    OBVIOUS
  <2>1. at \in at..Len(s)
    BY <1>3, SMT
  <2>2. s[at] >= k + 1 /\ s[at] < k /\ s[at] \in Int
    BY <1>1, <1>4, <2>1
  <2> QED BY <2>2, SMT
<1>6. at = Len(s) + 1
  BY <1>3, <1>4, <1>5, SMT
<1> QED BY <1>6 DEF UpperBound

\* t is s with x inserted at position n.
Inserted(t, s, n, x, S) ==
  /\ t \in Seq(S) /\ Len(t) = Len(s) + 1 /\ t[n] = x
  /\ \A i \in 1..n - 1 : t[i] = s[i]
  /\ \A i \in n + 1..Len(s) + 1 : t[i] = s[i - 1]

LEMMA InsertAtInserts ==
  ASSUME NEW S, NEW s, s \in Seq(S), NEW n, n \in 1..Len(s) + 1, NEW x, x \in S
  PROVE  Inserted(InsertAt(s, n, x), s, n, x, S)
<1>1. InsertAt(s, n, x) \in Seq(S) /\ Len(InsertAt(s, n, x)) = Len(s) + 1 /\ InsertAt(s, n, x)[n] = x
  BY InsertAtFacts
<1>2. \A i \in 1..n - 1 : InsertAt(s, n, x)[i] = s[i]
  BY InsertAtFacts
<1>3. \A i \in n + 1..Len(s) + 1 : InsertAt(s, n, x)[i] = s[i - 1]
  BY InsertAtFacts
<1> QED BY <1>1, <1>2, <1>3, Zenon DEF Inserted

\* t is s with k behind it.
AllBelow(s, k) == \A j \in 1..Len(s) : s[j] < k
Longer(s, k, t) ==
  Len(t) = Len(s) + 1 /\ t[Len(s) + 1] = k /\ \A j \in 1..Len(s) : t[j] = s[j]

\* What a node becomes when a key greater than all of its own goes into it.
LeafGrows(n, k, p, m) ==
  /\ Longer(n.keys, k, m.keys)
  /\ m.pointers[Len(n.keys) + 1] = p /\ \A j \in 1..Len(n.keys) : m.pointers[j] = n.pointers[j]
  /\ Last(m.pointers) = IF Started(n) THEN Last(n.pointers) ELSE BlockNull
InnerGrows(n, k, p, m) == Longer(n.keys, k, m.keys) /\ Longer(n.pointers, p, m.pointers)
InnerStarts(p, m) == m.keys = <<>> /\ m.pointers = <<p>>
NodeGrows(n, k, p, m) ==
  /\ Whole(m) /\ m.leaf = n.leaf
  /\ n.leaf => LeafGrows(n, k, p, m)
  /\ ~n.leaf /\ Started(n)  => InnerGrows(n, k, p, m)
  /\ ~n.leaf /\ ~Started(n) => InnerStarts(p, m)

LEMMA InsertLast ==
  ASSUME NEW n, Growing(n), NEW k, k \in Int, NEW p, p \in BlockIds, AllBelow(n.keys, k)
  PROVE  NodeGrows(n, k, p, NodeInsert(n, k, p))
<1> PICK m, c : m = NodeInsert(n, k, p) /\ c = Len(n.keys)
  OBVIOUS
<1> PICK keys, ps : keys = n.keys /\ ps = n.pointers
  OBVIOUS
<1>1. /\ n \in NodeType /\ keys \in Seq(Int) /\ ps \in Seq(BlockIds) /\ c \in Nat /\ c = Len(keys)
  BY LenProperties DEF Growing, Whole, NodeType
<1> PICK at : at = c + 1
  OBVIOUS
<1>2. UpperBound(keys, k) = at /\ at \in 1..Len(keys) + 1 /\ at - 1 = c
  BY <1>1, PlaceBehind, SMT DEF AllBelow
<1>3. Started(n) => Len(ps) = c + 1
  BY <1>1 DEF Started, Growing, Whole
<1>4. ~Started(n) => c = 0 /\ ps = <<>> /\ keys = <<>>
  <2> SUFFICES ASSUME ~Started(n) PROVE keys = <<>> /\ ps = <<>>
    BY <1>1, SMT
  <2>1. ps = <<>> /\ Len(<<>>) = 0
    BY SMT DEF Started
  <2>2. Whole(n) => Len(ps) = c + 1
    BY <1>1 DEF Whole
  <2>3. ~Whole(n)
    BY <1>1, <2>1, <2>2, SMT
  <2> QED BY <2>1, <2>3 DEF Growing
<1>5. Whole(m)
  BY InsertWhole
<1> PICK new : new = InsertAt(keys, at, k)
  OBVIOUS
<1>6. /\ Len(new) = c + 1 /\ new[c + 1] = k
      /\ \A j \in 1..c : new[j] = keys[j]
  <2>1. keys \in Seq(Int) /\ at \in 1..Len(keys) + 1 /\ k \in Int
    BY <1>1, <1>2
  <2>2. Inserted(new, keys, c + 1, k, Int)
    BY <2>1, InsertAtInserts, Zenon
  <2>3. (c + 1) - 1 = c /\ Len(keys) = c
    BY <1>1, SMT
  <2> QED BY <2>2, <2>3, Zenon DEF Inserted
<1>7. CASE n.leaf
  <2> PICK links : links = IF ps = <<>> THEN <<BlockNull>> ELSE ps
    OBVIOUS
  <2> PICK more : more = InsertAt(links, at, p)
    OBVIOUS
  <2>1. m = [n EXCEPT !.keys = new, !.pointers = more]
    BY <1>2, <1>7 DEF NodeInsert, LeafInsert
  <2>2. m.keys = new /\ m.pointers = more /\ m.leaf = n.leaf
    BY <1>1, <2>1 DEF NodeType
  <2>3. links \in Seq(BlockIds) /\ Len(links) = c + 1
    <3>1. BlockNull \in BlockIds
      BY BlocksAssumption, SMT DEF BlockIds
    <3>2. <<BlockNull>> \in Seq(BlockIds) /\ Len(<<BlockNull>>) = 1
      BY <3>1, SMT
    <3>3. CASE ps = <<>>
      BY <1>4, <3>2, <3>3, SMT DEF Started
    <3>4. CASE ps # <<>>
      BY <1>1, <1>3, <3>4 DEF Started
    <3> QED BY <3>3, <3>4
  <2>4. links[c + 1] = IF Started(n) THEN Last(ps) ELSE BlockNull
    <3>1. CASE ps = <<>>
      <4>1. links = <<BlockNull>> /\ c + 1 = 1
        BY <1>1, <1>4, <3>1, SMT DEF Started
      <4> QED BY <3>1, <4>1 DEF Started
    <3>2. CASE ps # <<>>
      BY <1>3, <3>2 DEF Started, Last
    <3> QED BY <3>1, <3>2
  <2>5. /\ Len(more) = c + 2 /\ more[c + 1] = p /\ more[c + 2] = links[c + 1]
        /\ \A j \in 1..c : more[j] = links[j]
    <3>1. at \in 1..Len(links) + 1
      BY <1>1, <2>3, SMT
    <3>2. Inserted(more, links, c + 1, p, BlockIds)
      BY <2>3, <3>1, InsertAtInserts, Zenon
    <3>3. /\ c + 2 \in (c + 1) + 1..Len(links) + 1 /\ (c + 2) - 1 = c + 1 /\ Len(links) + 1 = c + 2
          /\ (c + 1) - 1 = c
      BY <1>1, <2>3, SMT
    <3>4. more[c + 2] = links[(c + 2) - 1]
      BY <3>2, <3>3, Zenon DEF Inserted
    <3> QED BY <3>2, <3>3, <3>4, Zenon DEF Inserted
  <2>8. \A i \in 1..c : more[i] = ps[i]
    <3>1. CASE ps = <<>>
      BY <1>4, <3>1, SMT DEF Started
    <3>2. CASE ps # <<>>
      BY <2>5, <3>2
    <3> QED BY <3>1, <3>2
  <2>9. Last(more) = links[c + 1]
    BY <2>5 DEF Last
  <2>10. LeafGrows(n, k, p, m)
    BY <1>1, <1>6, <2>2, <2>4, <2>5, <2>8, <2>9, Zenon DEF LeafGrows, Longer
  <2> QED BY <1>5, <1>7, <2>2, <2>10, Zenon DEF NodeGrows
<1>8. CASE ~n.leaf /\ ~Started(n)
  <2>1. m = [n EXCEPT !.pointers = <<p>>]
    BY <1>8 DEF NodeInsert, InternalInsert, Started
  <2>2. m.keys = keys /\ m.pointers = <<p>> /\ m.leaf = n.leaf
    BY <1>1, <2>1 DEF NodeType
  <2>3. InnerStarts(p, m)
    BY <1>4, <1>8, <2>2, Zenon DEF InnerStarts
  <2> QED BY <1>5, <1>8, <2>2, <2>3, Zenon DEF NodeGrows
<1>9. CASE ~n.leaf /\ Started(n)
  <2> PICK right : right = at + 1
    OBVIOUS
  <2> PICK more : more = InsertAt(ps, right, p)
    OBVIOUS
  <2>1. m = [n EXCEPT !.keys = new, !.pointers = more]
    BY <1>2, <1>9 DEF NodeInsert, InternalInsert, Started
  <2>2. m.keys = new /\ m.pointers = more /\ m.leaf = n.leaf
    BY <1>1, <2>1 DEF NodeType
  <2>3. Len(ps) = c + 1 /\ c + 1 = Len(ps) /\ right = (c + 1) + 1 /\ (c + 1) + 1 = c + 2
    BY <1>1, <1>3, <1>9, SMT
  <2>4. /\ Len(more) = (c + 1) + 1 /\ more[(c + 1) + 1] = p
        /\ \A j \in 1..c + 1 : more[j] = ps[j]
    <3>1. right \in 1..Len(ps) + 1
      BY <1>1, <2>3, SMT
    <3>2. Inserted(more, ps, (c + 1) + 1, p, BlockIds)
      BY <1>1, <2>3, <3>1, InsertAtInserts, Zenon
    <3>3. ((c + 1) + 1) - 1 = c + 1 /\ Len(ps) = c + 1
      BY <1>1, <2>3, SMT
    <3> QED BY <3>2, <3>3, Zenon DEF Inserted
  <2>5. InnerGrows(n, k, p, m)
    BY <1>1, <1>6, <2>2, <2>3, <2>4, Zenon DEF InnerGrows, Longer
  <2> QED BY <1>5, <1>9, <2>2, <2>5, Zenon DEF NodeGrows
<1>10. NodeGrows(n, k, p, m)
  BY <1>7, <1>8, <1>9, Zenon
<1> QED BY <1>10, Zenon

-----------------------------------------------------------------------------
(* What a tree under construction looks like.                              *)
(* A tree is described by a record: the ids of its nodes, the nodes, the   *)
(* map it holds, and for every node the keys it stands for, those from lo  *)
(* on and below hi, and its height ht.                                     *)

Rises(s) == \A i, j \in 1..Len(s) : i < j => s[i] < s[j]
Within(f, a, b) == {k \in DOMAIN f : a <= k /\ k < b}

TreeShape(g) ==
  /\ g.ids \subseteq BlockIds \ {BlockNull} /\ DOMAIN g.nodes = BlockIds
  /\ g.lo \in [BlockIds -> Int] /\ g.hi \in [BlockIds -> Int] /\ g.ht \in [BlockIds -> Int]
  /\ DOMAIN g.map \subseteq 0..MaxKey
  /\ \A k \in DOMAIN g.map : g.map[k] \in BlockIds

\* A leaf has the keys it stands for, with their pointers.
LeafFits(g, id, keys, ps) ==
  /\ g.ht[id] = 1
  /\ ToSet(keys) = Within(g.map, g.lo[id], g.hi[id])
  /\ \A j \in 1..Len(keys) : ps[j] = g.map[keys[j]]

\* The children of an internal node share out what it stands for.
ChildFits(g, id, p) ==
  p \in g.ids /\ p < id /\ g.ht[p] = g.ht[id] - 1 /\ g.lo[p] <= g.hi[p]
InnerFits(g, id, keys, ps) ==
  /\ \A j \in 1..Len(ps) : ChildFits(g, id, ps[j])
  /\ \A j \in 1..Len(keys) :
       g.hi[ps[j]] = keys[j] /\ g.lo[ps[j + 1]] = keys[j] /\ keys[j] < g.hi[id]
  /\ ps # <<>> => g.lo[ps[1]] = g.lo[id] /\ g.hi[ps[Len(keys) + 1]] = g.hi[id]

SpanFits(g, id) ==
  /\ g.lo[id] \in DOMAIN g.map /\ g.lo[id] <= g.hi[id] /\ g.hi[id] <= MaxKey + 1
  /\ Started(g.nodes[id]) <=> g.lo[id] < g.hi[id]

NodeFits(g, id, cap) ==
  /\ Growing(g.nodes[id]) /\ Rises(g.nodes[id].keys) /\ Len(g.nodes[id].keys) <= cap
  /\ g.nodes[id].leaf  => LeafFits(g, id, g.nodes[id].keys, g.nodes[id].pointers)
  /\ ~g.nodes[id].leaf => InnerFits(g, id, g.nodes[id].keys, g.nodes[id].pointers)
  /\ SpanFits(g, id)

\* The tree after a node has been replaced, and stands for keys below b.
Grown(g, id, n, b, g2) ==
  /\ g2.ids = g.ids /\ g2.map = g.map /\ g2.lo = g.lo /\ g2.ht = g.ht
  /\ g2.nodes = [g.nodes EXCEPT ![id] = n] /\ g2.hi = [g.hi EXCEPT ![id] = b]

\* The tree after an empty node has been added.
Blank(e, h) ==
  Growing(e) /\ e.keys = <<>> /\ e.pointers = <<>> /\ h \in Int /\ (e.leaf => h = 1)
Extended(g, q, e, k, h, g2) ==
  /\ g2.ids = g.ids \cup {q} /\ g2.map = g.map
  /\ g2.nodes = [g.nodes EXCEPT ![q] = e]
  /\ g2.lo = [g.lo EXCEPT ![q] = k] /\ g2.hi = [g.hi EXCEPT ![q] = k] /\ g2.ht = [g.ht EXCEPT ![q] = h]

LEMMA GrownExists ==
  ASSUME NEW g, NEW id, NEW n, NEW b
  PROVE  \E g2 : Grown(g, id, n, b, g2)
<1> DEFINE g2 == [ids |-> g.ids, map |-> g.map, lo |-> g.lo, ht |-> g.ht,
                  nodes |-> [g.nodes EXCEPT ![id] = n], hi |-> [g.hi EXCEPT ![id] = b]]
<1>1. Grown(g, id, n, b, g2)
  BY DEF Grown
<1> QED BY <1>1

LEMMA ExtendedExists ==
  ASSUME NEW g, NEW q, NEW e, NEW k, NEW h
  PROVE  \E g2 : Extended(g, q, e, k, h, g2)
<1> DEFINE g2 == [ids |-> g.ids \cup {q}, map |-> g.map,
                  nodes |-> [g.nodes EXCEPT ![q] = e],
                  lo |-> [g.lo EXCEPT ![q] = k], hi |-> [g.hi EXCEPT ![q] = k], ht |-> [g.ht EXCEPT ![q] = h]]
<1>1. Extended(g, q, e, k, h, g2)
  BY DEF Extended
<1> QED BY <1>1

\* Two trees give one node the same place.
SameSpan(g, g2, id) == g2.lo[id] = g.lo[id] /\ g2.hi[id] = g.hi[id] /\ g2.ht[id] = g.ht[id]
SameNode(g, g2, id) == g2.nodes[id] = g.nodes[id] /\ SameSpan(g, g2, id)

LEMMA GrownIs ==
  ASSUME NEW g, TreeShape(g), NEW id \in BlockIds, NEW n, NEW b \in Int, NEW g2, Grown(g, id, n, b, g2)
  PROVE  /\ TreeShape(g2) /\ g2.ids = g.ids /\ g2.map = g.map
         /\ g2.lo = g.lo /\ g2.ht = g.ht /\ g2.nodes[id] = n /\ g2.hi[id] = b
         /\ \A j \in BlockIds \ {id} : SameNode(g, g2, j)
<1>1. DOMAIN g2.nodes = BlockIds /\ g2.nodes[id] = n /\ \A j \in BlockIds \ {id} : g2.nodes[j] = g.nodes[j]
  BY DEF TreeShape, Grown
<1>2. g2.hi \in [BlockIds -> Int] /\ g2.hi[id] = b /\ \A j \in BlockIds \ {id} : g2.hi[j] = g.hi[j]
  BY DEF TreeShape, Grown
<1>3. g2.ids = g.ids /\ g2.map = g.map /\ g2.lo = g.lo /\ g2.ht = g.ht
  BY DEF Grown
<1>4. TreeShape(g2)
  BY <1>1, <1>2, <1>3, Zenon DEF TreeShape
<1> QED BY <1>1, <1>2, <1>3, <1>4, Zenon DEF SameNode, SameSpan

LEMMA ExtendedIs ==
  ASSUME NEW g, TreeShape(g), NEW q \in BlockIds \ {BlockNull}, NEW e, NEW k \in Int, NEW h \in Int,
         NEW g2, Extended(g, q, e, k, h, g2)
  PROVE  /\ TreeShape(g2) /\ g2.ids = g.ids \cup {q} /\ g2.map = g.map
         /\ g2.nodes[q] = e /\ g2.lo[q] = k /\ g2.hi[q] = k /\ g2.ht[q] = h
         /\ \A j \in BlockIds \ {q} : SameNode(g, g2, j)
<1>1. DOMAIN g2.nodes = BlockIds /\ g2.nodes[q] = e /\ \A j \in BlockIds \ {q} : g2.nodes[j] = g.nodes[j]
  BY DEF TreeShape, Extended
<1>2. g2.hi \in [BlockIds -> Int] /\ g2.hi[q] = k /\ \A j \in BlockIds \ {q} : g2.hi[j] = g.hi[j]
  BY DEF TreeShape, Extended
<1>3. g2.lo \in [BlockIds -> Int] /\ g2.lo[q] = k /\ \A j \in BlockIds \ {q} : g2.lo[j] = g.lo[j]
  BY DEF TreeShape, Extended
<1>4. g2.ht \in [BlockIds -> Int] /\ g2.ht[q] = h /\ \A j \in BlockIds \ {q} : g2.ht[j] = g.ht[j]
  BY DEF TreeShape, Extended
<1>5. g2.ids = g.ids \cup {q} /\ g2.map = g.map /\ g2.ids \subseteq BlockIds \ {BlockNull}
  BY DEF TreeShape, Extended
<1>6. TreeShape(g2)
  BY <1>1, <1>2, <1>3, <1>4, <1>5, Zenon DEF TreeShape
<1> QED BY <1>1, <1>2, <1>3, <1>4, <1>5, <1>6, Zenon DEF SameNode, SameSpan

\* Whether a node fits depends on itself, its children, and the map.
LEMMA NodeFitsKept ==
  ASSUME NEW g, NEW g2, NEW id, NEW cap, NodeFits(g, id, cap), SameNode(g, g2, id),
         g2.map = g.map, g.ids \subseteq g2.ids,
         g.nodes[id].leaf \/ \A j \in 1..Len(g.nodes[id].pointers) : SameSpan(g, g2, g.nodes[id].pointers[j])
  PROVE  NodeFits(g2, id, cap)
<1> PICK ps, keys : ps = g.nodes[id].pointers /\ keys = g.nodes[id].keys
  OBVIOUS
<1>1. SpanFits(g2, id)
  BY DEF NodeFits, SpanFits, SameNode, SameSpan
<1>2. CASE g.nodes[id].leaf
  <2>1. LeafFits(g, id, keys, ps)
    BY <1>2 DEF NodeFits
  <2>2. LeafFits(g2, id, keys, ps)
    BY <2>1 DEF LeafFits, SameNode, SameSpan
  <2> QED BY <1>1, <1>2, <2>2, Zenon DEF NodeFits, SameNode
<1>3. CASE ~g.nodes[id].leaf
  <2>1. Growing(g.nodes[id]) /\ InnerFits(g, id, keys, ps)
    BY <1>3 DEF NodeFits
  <2>2. \A j \in 1..Len(ps) : SameSpan(g, g2, ps[j])
    BY <1>3
  <2>3. \A j \in 1..Len(ps) : ChildFits(g2, id, ps[j])
    BY <2>1, <2>2 DEF InnerFits, ChildFits, SameNode, SameSpan
  <2>4. Len(ps) \in Nat /\ Len(keys) \in Nat /\ (Len(ps) = Len(keys) + 1 \/ (keys = <<>> /\ ps = <<>>)) 
    BY <2>1, LenProperties DEF Growing, Whole, NodeType
  <2>5. \A j \in 1..Len(keys) : j \in 1..Len(ps) /\ j + 1 \in 1..Len(ps)
    BY <2>4, SMT
  <2>6. ASSUME NEW j \in 1..Len(keys) 
        PROVE  g2.hi[ps[j]] = keys[j] /\ g2.lo[ps[j + 1]] = keys[j] /\ keys[j] < g2.hi[id]
    BY <2>1, <2>2, <2>5, Zenon DEF InnerFits, SameNode, SameSpan
  <2>7. ASSUME ps # <<>> PROVE g2.lo[ps[1]] = g2.lo[id] /\ g2.hi[ps[Len(keys) + 1]] = g2.hi[id]
    <3>1. 1 \in 1..Len(ps) /\ Len(keys) + 1 \in 1..Len(ps)
      BY <2>4, <2>7, SMT
    <3> QED BY <2>1, <2>2, <2>7, <3>1, Zenon DEF InnerFits, SameNode, SameSpan
  <2>8. InnerFits(g2, id, keys, ps)
    BY <2>3, <2>6, <2>7, Zenon DEF InnerFits
  <2> QED BY <1>1, <1>3, <2>8, Zenon DEF NodeFits, SameNode
<1> QED BY <1>2, <1>3

\* Keys in order stay so with a greater one behind them.
LEMMA RisesBehind ==
  ASSUME NEW s, s \in Seq(Int), Rises(s), NEW k, k \in Int, AllBelow(s, k), NEW t, Longer(s, k, t)
  PROVE  Rises(t)
<1> PICK c : c = Len(s)
  OBVIOUS
<1>1. c \in Nat /\ \A j \in 1..c : s[j] \in Int
  BY LenProperties, ElementOfSeq
<1>2. Len(t) = c + 1 /\ t[c + 1] = k /\ \A j \in 1..c : t[j] = s[j] /\ s[j] < k
  BY DEF Longer, AllBelow
<1>3. ASSUME NEW i \in 1..c + 1, NEW j \in 1..c + 1, i < j
      PROVE  t[i] < t[j]
  <2>1. i \in 1..c /\ i \in Int
    BY <1>1, <1>3, SMT
  <2>2. CASE j \in 1..c
    BY <1>2, <1>3, <2>1, <2>2 DEF Rises
  <2>3. CASE j = c + 1
    BY <1>2, <2>1, <2>3
  <2> QED BY <1>1, <2>2, <2>3, SMT
<1> QED BY <1>2, <1>3 DEF Rises

LEMMA SetBehind ==
  ASSUME NEW S, NEW s, s \in Seq(S), NEW k, NEW t, t \in Seq(S), Longer(s, k, t)
  PROVE  ToSet(t) = ToSet(s) \cup {k}
<1> PICK c : c = Len(s)
  OBVIOUS
<1>1. c \in Nat /\ DOMAIN s = 1..c /\ DOMAIN t = 1..c + 1 /\ t[c + 1] = k /\ \A j \in 1..c : t[j] = s[j]
  BY LenProperties DEF Longer
<1>2. 1..c + 1 = 1..c \cup {c + 1}
  BY <1>1, SMT
<1>3. ASSUME NEW x \in ToSet(t) PROVE x \in ToSet(s) \cup {k}
  <2>1. PICK i \in 1..c + 1 : x = t[i]
    BY <1>1, <1>3 DEF ToSet
  <2> QED BY <1>1, <1>2, <2>1 DEF ToSet
<1>4. ASSUME NEW x \in ToSet(s) \cup {k} PROVE x \in ToSet(t)
  BY <1>1, <1>2, <1>4 DEF ToSet
<1> QED BY <1>3, <1>4

LEMMA WholeIsStarted ==
  ASSUME NEW n, Whole(n)
  PROVE  Started(n) /\ Growing(n) /\ n.keys \in Seq(Int) /\ n.pointers \in Seq(BlockIds)
         /\ Len(n.keys) \in Nat /\ Len(n.pointers) = Len(n.keys) + 1
<1>1. n.keys \in Seq(Int) /\ n.pointers \in Seq(BlockIds) /\ Len(n.pointers) = Len(n.keys) + 1
  BY DEF Whole, NodeType
<1>2. Len(n.keys) \in Nat /\ Len(<<>>) = 0
  BY <1>1, LenProperties, SMT
<1>3. n.pointers # <<>>
  BY <1>1, <1>2, SMT
<1> QED BY <1>1, <1>2, <1>3 DEF Started, Growing

\* A pair goes into a leaf.
LEMMA FillLeafFits ==
  ASSUME NEW g, TreeShape(g), NEW id, id \in BlockIds, NEW cap, cap \in Nat, NodeFits(g, id, cap),
         g.nodes[id].leaf, Len(g.nodes[id].keys) < cap,
         NEW k, k \in DOMAIN g.map, g.hi[id] = k,
         NEW b, b \in Int, k < b, b <= MaxKey + 1, Within(g.map, k, b) = {k},
         NEW g2, Grown(g, id, NodeInsert(g.nodes[id], k, g.map[k]), b, g2)
  PROVE  NodeFits(g2, id, cap) /\ g2.nodes[id].leaf /\ Started(g2.nodes[id])
<1> PICK n, p, c : n = g.nodes[id] /\ p = g.map[k] /\ c = Len(n.keys)
  OBVIOUS
<1> PICK m : m = NodeInsert(n, k, p)
  OBVIOUS
<1> PICK lo : lo = g.lo[id]
  OBVIOUS
<1>1. /\ Growing(n) /\ n.leaf /\ Rises(n.keys) /\ LeafFits(g, id, n.keys, n.pointers) /\ c < cap
      /\ lo \in DOMAIN g.map /\ lo <= k
  BY DEF NodeFits, SpanFits
<1>2. p \in BlockIds /\ k \in Int /\ lo \in Int /\ MaxKey \in Int /\ \A x \in DOMAIN g.map : x \in Int
  BY <1>1, BlocksAssumption DEF TreeShape
<1>3. n.keys \in Seq(Int) /\ n.pointers \in Seq(BlockIds) /\ c \in Nat
  BY <1>1, LenProperties DEF Growing, Whole, NodeType
<1>4. ToSet(n.keys) = Within(g.map, lo, k)
  BY <1>1 DEF LeafFits
<1>5. AllBelow(n.keys, k)
  <2>1. \A j \in 1..c : n.keys[j] \in ToSet(n.keys)
    BY <1>3, LenProperties DEF ToSet
  <2> QED BY <1>4, <2>1 DEF Within, AllBelow
<1>6. NodeGrows(n, k, p, m)
  BY <1>1, <1>2, <1>5, InsertLast, Zenon
<1>7. Whole(m) /\ m.leaf /\ Longer(n.keys, k, m.keys) /\ LeafGrows(n, k, p, m)
  BY <1>1, <1>6, Zenon DEF NodeGrows, LeafGrows
<1>8. Started(m) /\ Growing(m) /\ m.keys \in Seq(Int)
  BY <1>7, WholeIsStarted, Zenon
<1>9. Rises(m.keys) /\ ToSet(m.keys) = ToSet(n.keys) \cup {k}
  <2>1. n.keys \in Seq(Int) /\ m.keys \in Seq(Int) /\ Longer(n.keys, k, m.keys)
    BY <1>3, <1>7, <1>8, Zenon
  <2>2. Rises(m.keys)
    BY <1>1, <1>2, <1>5, <2>1, RisesBehind, Zenon
  <2>3. ToSet(m.keys) = ToSet(n.keys) \cup {k}
    BY <2>1, SetBehind
  <2> QED BY <2>2, <2>3
<1>10. Within(g.map, lo, k) \cup {k} = Within(g.map, lo, b)
  <2>1. \A x \in DOMAIN g.map : (k <= x /\ x < b) <=> x = k
    BY DEF Within
  <2>2. \A x \in DOMAIN g.map : (lo <= x /\ x < b) <=> (lo <= x /\ x < k) \/ x = k
    BY <1>1, <1>2, <2>1, SMT
  <2> QED BY <2>2 DEF Within
<1>11. /\ TreeShape(g2) /\ g2.map = g.map /\ g2.lo = g.lo /\ g2.ht = g.ht /\ g2.nodes[id] = m /\ g2.hi[id] = b
  BY GrownIs
<1>12. LeafFits(g2, id, m.keys, m.pointers)
  <2>1. ToSet(m.keys) = Within(g2.map, g2.lo[id], g2.hi[id]) /\ g2.ht[id] = 1
    BY <1>1, <1>4, <1>9, <1>10, <1>11 DEF LeafFits
  <2> PICK mk, mp : mk = m.keys /\ mp = m.pointers
    OBVIOUS
  <2>3. Len(mk) = c + 1 /\ mk[c + 1] = k /\ mp[c + 1] = p /\ \A j \in 1..c : mk[j] = n.keys[j] /\ mp[j] = n.pointers[j]
    BY <1>7, Zenon DEF LeafGrows, Longer
  <2>4. \A j \in 1..c : n.pointers[j] = g.map[n.keys[j]]
    BY <1>1, Zenon DEF LeafFits
  <2>2. ASSUME NEW j \in 1..c + 1 PROVE mp[j] = g2.map[mk[j]]
    <3>1. j \in 1..c \/ j = c + 1
      BY <1>3, SMT
    <3>2. CASE j \in 1..c
      BY <1>11, <2>3, <2>4, <3>2, Zenon
    <3>3. CASE j = c + 1
      BY <1>11, <2>3, <3>3, Zenon
    <3> QED BY <3>1, <3>2, <3>3, Zenon
  <2>5. \A j \in 1..Len(mk) : mp[j] = g2.map[mk[j]]
    BY <2>2, <2>3
  <2> QED BY <2>1, <2>5, Zenon DEF LeafFits
<1>13. SpanFits(g2, id)
  <2>1. lo <= b /\ lo < b
    BY <1>1, <1>2, SMT
  <2> QED BY <1>1, <1>8, <1>11, <2>1 DEF SpanFits
<1>14. Len(m.keys) <= cap
  <2>1. Len(m.keys) = c + 1
    BY <1>7, Zenon DEF Longer
  <2> QED BY <1>1, <1>3, <2>1, SMT
<1> QED BY <1>1, <1>7, <1>8, <1>9, <1>11, <1>12, <1>13, <1>14, Zenon DEF NodeFits

\* A child goes into an internal node.
LEMMA FillInnerFits ==
  ASSUME NEW g, TreeShape(g), NEW id, id \in BlockIds, NEW cap, cap \in Nat, NodeFits(g, id, cap),
         ~g.nodes[id].leaf, Len(g.nodes[id].keys) < cap,
         NEW k, k \in DOMAIN g.map, g.hi[id] = k, NEW b, b \in Int, k < b, b <= MaxKey + 1,
         NEW p, ChildFits(g, id, p), g.lo[p] = k, g.hi[p] = b,
         NEW g2, Grown(g, id, NodeInsert(g.nodes[id], k, p), b, g2)
  PROVE  NodeFits(g2, id, cap) /\ ~g2.nodes[id].leaf /\ Started(g2.nodes[id])
<1> PICK n, keys, ps, c : n = g.nodes[id] /\ keys = n.keys /\ ps = n.pointers /\ c = Len(keys)
  OBVIOUS
<1> PICK m, mk, mp : m = NodeInsert(n, k, p) /\ mk = m.keys /\ mp = m.pointers
  OBVIOUS
<1> PICK lo : lo = g.lo[id]
  OBVIOUS
<1>1. /\ Growing(n) /\ ~n.leaf /\ Rises(keys) /\ InnerFits(g, id, keys, ps) /\ c < cap
      /\ lo \in DOMAIN g.map /\ lo <= k /\ (Started(n) <=> lo < k)
  BY DEF NodeFits, SpanFits
<1>2. p \in BlockIds /\ k \in Int /\ lo \in Int /\ MaxKey \in Int /\ id \in Int
  <2>1. p \in BlockIds
    BY DEF TreeShape, ChildFits
  <2>2. \A x \in 0..MaxKey : x \in Int
    BY SMT
  <2>3. k \in Int /\ lo \in Int
    BY <1>1, <2>2, Zenon DEF TreeShape
  <2>4. MaxKey \in Int /\ id \in Int
    BY BlocksAssumption, SMT DEF BlockIds
  <2> QED BY <2>1, <2>3, <2>4
<1>3. keys \in Seq(Int) /\ ps \in Seq(BlockIds) /\ c \in Nat
  BY <1>1, LenProperties DEF Growing, Whole, NodeType
<1>4. \A j \in 1..Len(keys) : keys[j] < k
  BY <1>1, Zenon DEF InnerFits
<1>5. NodeGrows(n, k, p, m)
  <2>1. AllBelow(n.keys, k)
    BY <1>4, Zenon DEF AllBelow
  <2> QED BY <1>1, <1>2, <2>1, InsertLast, Zenon
<1>6. Whole(m) /\ ~m.leaf
  BY <1>1, <1>5, Zenon DEF NodeGrows
<1>7. Started(m) /\ Growing(m) /\ mk \in Seq(Int)
  BY <1>6, WholeIsStarted, Zenon
<1>8. /\ TreeShape(g2) /\ g2.ids = g.ids /\ g2.map = g.map /\ g2.lo = g.lo /\ g2.ht = g.ht
      /\ g2.nodes[id] = m /\ g2.hi[id] = b /\ \A j \in BlockIds \ {id} : SameNode(g, g2, j)
  BY GrownIs
<1>9. \A j \in BlockIds : j # id => g2.hi[j] = g.hi[j]
  BY <1>8 DEF SameNode, SameSpan
<1>10. \A q : ChildFits(g, id, q) => q \in BlockIds /\ q # id
  BY <1>2 DEF ChildFits, TreeShape, BlockIds
<1>11. \A q : ChildFits(g, id, q) => ChildFits(g2, id, q) /\ g2.lo[q] = g.lo[q] /\ g2.hi[q] = g.hi[q]
  BY <1>8, <1>9, <1>10, Zenon DEF ChildFits
<1>12. ChildFits(g2, id, p) /\ g2.lo[p] = k /\ g2.hi[p] = b
  BY <1>11, Zenon
<1>15. InnerFits(g2, id, mk, mp) /\ Rises(mk) /\ Len(mk) <= cap
  <2>13. CASE ~Started(n)
    <3>1. mk = <<>> /\ mp = <<p>> /\ lo = k
      BY <1>1, <1>2, <1>5, <2>13, SMT DEF NodeGrows, InnerStarts
    <3>2. Len(mp) = 1 /\ mp[1] = p /\ Len(mk) = 0
      BY <3>1, SMT
    <3>3. \A j \in 1..Len(mp) : ChildFits(g2, id, mp[j])
      BY <1>12, <3>2
    <3>4. InnerFits(g2, id, mk, mp)
      <4>1. 1..Len(mk) = {} /\ Len(mk) + 1 = 1
        BY <3>2, SMT
      <4>2. g2.lo[mp[1]] = g2.lo[id] /\ g2.hi[mp[Len(mk) + 1]] = g2.hi[id]
        BY <1>8, <1>12, <3>1, <3>2, <4>1, Zenon
      <4> QED BY <3>3, <4>1, <4>2 DEF InnerFits
    <3>5. Rises(mk) /\ Len(mk) <= cap
      BY <3>2, SMT DEF Rises
    <3> QED BY <3>4, <3>5
  <2>14. CASE Started(n)
    <3>1. InnerGrows(n, k, p, m)
      BY <1>1, <1>5, <2>14, Zenon DEF NodeGrows
    <3>2. Longer(keys, k, mk) /\ Longer(ps, p, mp)
      BY <3>1, Zenon DEF InnerGrows
    <3>3. Len(ps) = c + 1 /\ ps # <<>>
      BY <1>1, <2>14 DEF Growing, Whole, Started
    <3>4. /\ Len(mk) = c + 1 /\ mk[c + 1] = k /\ \A j \in 1..c : mk[j] = keys[j]
          /\ Len(mp) = c + 2 /\ mp[c + 2] = p /\ \A j \in 1..c + 1 : mp[j] = ps[j]
      <4>1. (c + 1) + 1 = c + 2
        BY <1>3, SMT
      <4> QED BY <3>2, <3>3, <4>1, Zenon DEF Longer
    <3>5. \A j \in 1..c + 1 : ChildFits(g, id, ps[j])
      BY <1>1, <3>3, Zenon DEF InnerFits
    <3>6. ASSUME NEW j \in 1..c + 2 PROVE ChildFits(g2, id, mp[j])
      <4>1. j \in 1..c + 1 \/ j = c + 2
        BY <1>3, SMT
      <4>2. CASE j \in 1..c + 1
        <5>1. mp[j] = ps[j] /\ ChildFits(g, id, ps[j])
          BY <3>4, <3>5, <4>2
        <5>2. ChildFits(g2, id, ps[j])
          BY <1>11, <5>1, Zenon
        <5> QED BY <5>1, <5>2
      <4>3. CASE j = c + 2
        BY <1>12, <3>4, <4>3
      <4> QED BY <4>1, <4>2, <4>3
    <3>7. g.hi[ps[c + 1]] = k /\ g.lo[ps[1]] = lo
      BY <1>1, <3>3, Zenon DEF InnerFits
    <3>15. ASSUME NEW j \in 1..c + 1
           PROVE  g2.hi[mp[j]] = g.hi[ps[j]] /\ g2.lo[mp[j]] = g.lo[ps[j]]
      <4>1. mp[j] = ps[j] /\ ChildFits(g, id, ps[j])
        BY <3>4, <3>5, Zenon
      <4>2. g2.hi[ps[j]] = g.hi[ps[j]] /\ g2.lo[ps[j]] = g.lo[ps[j]]
        BY <1>11, <4>1, Zenon
      <4> QED BY <4>1, <4>2
    <3>16. g2.lo[mp[c + 2]] = k /\ g2.hi[mp[c + 2]] = b
      BY <1>12, <3>4
    <3>8. ASSUME NEW j \in 1..c + 1
          PROVE  g2.hi[mp[j]] = mk[j] /\ g2.lo[mp[j + 1]] = mk[j] /\ mk[j] < b
      <4>1. (j \in 1..c /\ j + 1 \in 1..c + 1) \/ (j = c + 1 /\ j + 1 = c + 2)
        BY <1>3, SMT
      <4>2. CASE j \in 1..c /\ j + 1 \in 1..c + 1
        <5>1. g.hi[ps[j]] = keys[j] /\ g.lo[ps[j + 1]] = keys[j] /\ keys[j] < k
          BY <1>1, <1>4, <4>2, Zenon DEF InnerFits
        <5>2. keys[j] \in Int
          BY <1>3, <4>2, ElementOfSeq
        <5>3. keys[j] < b
          BY <1>2, <5>1, <5>2, SMT
        <5>4. mk[j] = keys[j]
          BY <3>4, <4>2, Zenon
        <5>5. g2.hi[mp[j]] = keys[j] /\ g2.lo[mp[j + 1]] = keys[j]
          BY <3>15, <4>2, <5>1, Zenon
        <5> QED BY <5>3, <5>4, <5>5
      <4>3. CASE j = c + 1 /\ j + 1 = c + 2
        <5>1. g2.hi[mp[c + 1]] = k /\ mk[c + 1] = k
          <6>1. g2.hi[mp[c + 1]] = g.hi[ps[c + 1]]
            BY <3>15, <4>3
          <6> QED BY <3>4, <3>7, <6>1
        <5>2. k < b
          OBVIOUS
        <5> QED BY <3>16, <4>3, <5>1, <5>2
      <4> QED BY <4>1, <4>2, <4>3, Zenon
    <3>9. g2.lo[mp[1]] = lo /\ g2.hi[mp[c + 2]] = b
      <4>1. 1 \in 1..c + 1
        BY <1>3, SMT
      <4>2. g2.lo[mp[1]] = g.lo[ps[1]]
        BY <3>15, <4>1
      <4> QED BY <3>7, <3>16, <4>2
    <3>10. InnerFits(g2, id, mk, mp)
      <4>1. (c + 1) + 1 = c + 2
        BY <1>3, SMT
      <4>2. \A j \in 1..Len(mp) : ChildFits(g2, id, mp[j])
        BY <3>4, <3>6
      <4>3. \A j \in 1..Len(mk) : g2.hi[mp[j]] = mk[j] /\ g2.lo[mp[j + 1]] = mk[j] /\ mk[j] < b
        BY <3>4, <3>8
      <4>4. g2.lo[mp[1]] = g2.lo[id] /\ g2.hi[mp[Len(mk) + 1]] = g2.hi[id]
        BY <1>8, <3>4, <3>9, <4>1
      <4>5. \A j \in 1..Len(mk) : g2.hi[mp[j]] = mk[j] /\ g2.lo[mp[j + 1]] = mk[j] /\ mk[j] < g2.hi[id]
        BY <1>8, <4>3
      <4> QED BY <4>2, <4>4, <4>5, Zenon DEF InnerFits
    <3>11. Rises(mk)
      BY <1>1, <1>2, <1>3, <1>4, <3>2, RisesBehind, Zenon DEF AllBelow
    <3>12. Len(mk) <= cap
      BY <1>1, <1>3, <3>4, SMT
    <3> QED BY <3>10, <3>11, <3>12
  <2> QED BY <2>13, <2>14
<1>16. SpanFits(g2, id)
  <2>1. lo <= b /\ lo < b
    BY <1>1, <1>2, SMT
  <2> QED BY <1>1, <1>7, <1>8, <2>1 DEF SpanFits
<1> QED BY <1>6, <1>7, <1>8, <1>15, <1>16, Zenon DEF NodeFits

\* A new node stands for no key.
LEMMA NewNodeFits ==
  ASSUME NEW g, TreeShape(g), NEW q, q \in BlockIds \ {BlockNull}, NEW cap, cap \in Nat,
         NEW e, NEW h, Blank(e, h), NEW k, k \in DOMAIN g.map, NEW g2, Extended(g, q, e, k, h, g2)
  PROVE  NodeFits(g2, q, cap)
<1> PICK n : n = e
  OBVIOUS
<1>1. h \in Int /\ k \in Int /\ k <= MaxKey + 1 /\ MaxKey \in Int
  BY BlocksAssumption, SMT DEF TreeShape, Blank
<1>2. TreeShape(g2) /\ g2.map = g.map /\ g2.nodes[q] = n /\ g2.lo[q] = k /\ g2.hi[q] = k /\ g2.ht[q] = h
  BY <1>1, ExtendedIs
<1>3. n.keys = <<>> /\ n.pointers = <<>> /\ (n.leaf => h = 1) /\ Growing(n) /\ ~Started(n)
  BY DEF Blank, Started
<1>4. Len(<<>>) = 0 /\ 1..0 = {} /\ ToSet(<<>>) = {} /\ ~(k < k)
  BY <1>1, SMT DEF ToSet
<1>5. Within(g2.map, k, k) = {}
  <2>1. \A x \in Int : ~(k <= x /\ x < k)
    BY <1>1, SMT
  <2>2. \A x \in DOMAIN g2.map : x \in Int
    BY <1>2 DEF TreeShape
  <2> QED BY <2>1, <2>2 DEF Within
<1>6. n.leaf => LeafFits(g2, q, n.keys, n.pointers)
  BY <1>2, <1>3, <1>4, <1>5 DEF LeafFits
<1>7. InnerFits(g2, q, n.keys, n.pointers)
  BY <1>3, <1>4 DEF InnerFits
<1>8. SpanFits(g2, q)
  BY <1>1, <1>2, <1>3, <1>4 DEF SpanFits
<1>9. Rises(n.keys) /\ Len(n.keys) <= cap
  BY <1>3, <1>4, SMT DEF Rises
<1> QED BY <1>2, <1>3, <1>6, <1>7, <1>8, <1>9, Zenon DEF NodeFits

\* A leaf is linked to the next one.
LEMMA LinkNodeFits ==
  ASSUME NEW g, TreeShape(g), NEW id, id \in BlockIds, NEW cap, NodeFits(g, id, cap),
         g.nodes[id].leaf, Started(g.nodes[id]), NEW q, q \in BlockIds,
         NEW g2, Grown(g, id, LinkTo(g.nodes[id], q), g.hi[id], g2)
  PROVE  /\ NodeFits(g2, id, cap) /\ g2.nodes[id].leaf /\ Started(g2.nodes[id])
         /\ Last(g2.nodes[id].pointers) = q
<1> PICK n, keys, ps, c : n = g.nodes[id] /\ keys = n.keys /\ ps = n.pointers /\ c = Len(keys)
  OBVIOUS
<1> PICK m, mp : m = LinkTo(n, q) /\ mp = m.pointers
  OBVIOUS
<1> PICK hi : hi = g.hi[id]
  OBVIOUS
<1>1. Growing(n) /\ Rises(keys) /\ c <= cap /\ LeafFits(g, id, keys, ps) /\ SpanFits(g, id)
  BY DEF NodeFits
<1>2. Whole(n)
  BY <1>1 DEF Growing, Started
<1>3. n \in NodeType /\ ps \in Seq(BlockIds) /\ Len(ps) = c + 1 /\ c \in Nat
  BY <1>2, WholeIsStarted DEF Whole
<1>4. Whole(m)
  BY <1>2, LinkWhole, Zenon
<1>5. Started(m) /\ Growing(m)
  BY <1>4, WholeIsStarted, Zenon
<1>6. m.keys = keys /\ m.leaf = n.leaf /\ mp = [ps EXCEPT ![c + 1] = q]
  BY <1>3 DEF LinkTo, ReplaceAt, NodeType
<1>7. Len(mp) = c + 1 /\ mp[c + 1] = q /\ \A j \in 1..c : mp[j] = ps[j]
  <2>1. c + 1 \in 1..c + 1 /\ \A j \in 1..c : j \in 1..c + 1 /\ j # c + 1
    BY <1>3, SMT
  <2>3. DOMAIN ps = 1..c + 1
    BY <1>3, LenProperties
  <2>2. Len(mp) = Len(ps)
    BY <1>3, <1>6, ExceptSeq
  <2> QED BY <1>3, <1>6, <2>1, <2>2, <2>3
<1>8. hi \in Int
  BY DEF TreeShape
<1>9. /\ TreeShape(g2) /\ g2.ids = g.ids /\ g2.map = g.map /\ g2.lo = g.lo /\ g2.ht = g.ht
      /\ g2.nodes[id] = m /\ g2.hi[id] = hi
  BY <1>8, GrownIs
<1>10. LeafFits(g2, id, keys, mp)
  <2>1. \A j \in 1..Len(keys) : mp[j] = g2.map[keys[j]]
    BY <1>1, <1>7, <1>9 DEF LeafFits
  <2>2. ToSet(keys) = Within(g2.map, g2.lo[id], g2.hi[id]) /\ g2.ht[id] = 1
    BY <1>1, <1>9 DEF LeafFits
  <2> QED BY <2>1, <2>2, Zenon DEF LeafFits
<1>11. SpanFits(g2, id)
  BY <1>1, <1>5, <1>9 DEF SpanFits
<1>12. NodeFits(g2, id, cap)
  BY <1>1, <1>5, <1>6, <1>9, <1>10, <1>11, Zenon DEF NodeFits
<1>13. Last(mp) = q
  BY <1>7, Zenon DEF Last
<1> QED BY <1>5, <1>6, <1>9, <1>12, <1>13, Zenon

-----------------------------------------------------------------------------
(* The stages of bulk_load.                                                *)

Bound(w) == IF w = <<>> THEN MaxKey + 1 ELSE w[1][1]
NextKey(w, j, b) == IF j = Len(w) THEN b ELSE w[j + 1][1]

\* Pairs in key order.
PairsFit(g, w) ==
  /\ w \in Seq((DOMAIN g.map) \X BlockIds)
  /\ \A i, j \in 1..Len(w) : i < j => w[i][1] < w[j][1]

NodesFit(g, cap) == \A id \in g.ids : NodeFits(g, id, cap)
LeavesInOrder(g) ==
  \A i, j \in g.ids : i < j /\ g.nodes[i].leaf /\ g.nodes[j].leaf => g.hi[i] <= g.lo[j]
LeavesCover(g, b) ==
  \A k \in DOMAIN g.map : k < b =>
    \E id \in g.ids : g.nodes[id].leaf /\ g.lo[id] <= k /\ k < g.hi[id]
OnlyLeaves(g, b) == \A id \in g.ids : g.nodes[id].leaf /\ g.hi[id] <= b

\* A leaf is linked to the leaf of the next keys, or to none after the last key.
LinkFits(g, id, p) ==
  IF p = BlockNull THEN g.hi[id] = MaxKey + 1
  ELSE p \in g.ids /\ g.nodes[p].leaf /\ g.lo[p] = g.hi[id]
LinksFit(g, last) ==
  \A id \in g.ids : g.nodes[id].leaf /\ Started(g.nodes[id]) =>
    IF id = last THEN Last(g.nodes[id].pointers) = BlockNull
                 ELSE LinkFits(g, id, Last(g.nodes[id].pointers))

\* The pairs that wait are entries of the map, or nodes of the level below.
EntriesWait(g, w) ==
  /\ PairsFit(g, w)
  /\ \A j \in 1..Len(w) :
       /\ w[j][2] = g.map[w[j][1]]
       /\ Within(g.map, w[j][1], NextKey(w, j, MaxKey + 1)) = {w[j][1]}
NodesWait(g, w, id, level) ==
  /\ PairsFit(g, w)
  /\ \A j \in 1..Len(w) :
       /\ w[j][2] \in g.ids /\ (id # BlockNull => w[j][2] < id) /\ g.ht[w[j][2]] = level
       /\ g.lo[w[j][2]] = w[j][1] /\ g.hi[w[j][2]] = NextKey(w, j, MaxKey + 1)

\* The nodes of the level share out the keys up to the next pair.
LevelFits(g, w, done, level) ==
  /\ PairsFit(g, done)
  /\ \A j \in 1..Len(done) :
       /\ done[j][2] \in g.ids /\ g.ht[done[j][2]] = level
       /\ g.lo[done[j][2]] = done[j][1] /\ g.hi[done[j][2]] = NextKey(done, j, Bound(w))
  /\ \A k \in DOMAIN g.map : (IF done = <<>> THEN w[1][1] ELSE done[1][1]) <= k

AtLeaves(g, cap, w, done, id) ==
  /\ TreeShape(g) /\ NodesFit(g, cap) /\ LeavesInOrder(g) /\ LeavesCover(g, Bound(w))
  /\ OnlyLeaves(g, Bound(w)) /\ LinksFit(g, id)
  /\ EntriesWait(g, w) /\ LevelFits(g, w, done, 1)
AboveLeaves(g, cap) ==
  /\ TreeShape(g) /\ NodesFit(g, cap) /\ LeavesInOrder(g) /\ LeavesCover(g, MaxKey + 1)
  /\ LinksFit(g, NoId)
AtInner(g, cap, w, done, id, level) ==
  AboveLeaves(g, cap) /\ NodesWait(g, w, id, level) /\ LevelFits(g, w, done, level + 1)

\* No node is under construction; one is; or one waits for its left sibling.
AllStarted(g, but) == \A id \in g.ids \ but : Started(g.nodes[id])
NoneInHand(g, w, done, n, id, next) ==
  /\ id = BlockNull /\ n = NoNode /\ next = NoId /\ done = <<>> /\ w # <<>>
  /\ AllStarted(g, {})
OneInHand(g, leaf, w, done, n, id, next) ==
  /\ id \in g.ids /\ g.nodes[id] = n /\ n.leaf = leaf /\ next = NoId
  /\ done # <<>> /\ done[Len(done)][2] = id
  /\ Started(n) \/ w # <<>>
  /\ AllStarted(g, {id}) /\ \A i \in g.ids : i <= id
TwoInHand(g, w, done, n, id, next) ==
  /\ id \in g.ids /\ g.nodes[id] = n /\ n.leaf /\ Started(n)
  /\ next \in g.ids /\ id < next /\ g.nodes[next] = EmptyNode(TRUE) /\ w # <<>>
  /\ Len(done) > 1 /\ done[Len(done) - 1][2] = id /\ done[Len(done)][2] = next
  /\ AllStarted(g, {id, next}) /\ \A i \in g.ids : i <= id \/ i = next

RootFits(g, root, level) ==
  /\ root \in g.ids /\ g.hi[root] = MaxKey + 1 /\ g.ht[root] = level
  /\ \A k \in DOMAIN g.map : g.lo[root] <= k
TreeStands(g, cap, root, level) == AboveLeaves(g, cap) /\ AllStarted(g, {}) /\ RootFits(g, root, level)

LEMMA ShapeFacts ==
  ASSUME NEW g, TreeShape(g)
  PROVE  /\ MaxKey \in Nat /\ BlockNull \in Nat /\ BlockNull \in BlockIds
         /\ \A i \in BlockIds : i \in Int /\ g.lo[i] \in Int /\ g.hi[i] \in Int /\ g.ht[i] \in Int
         /\ \A i \in g.ids : i \in BlockIds /\ i # BlockNull /\ i # NoId /\ i \in Nat
         /\ \A k \in DOMAIN g.map : k \in Int /\ k >= 0 /\ k <= MaxKey /\ g.map[k] \in BlockIds
<1>1. MaxKey \in Nat /\ BlockNull \in Nat /\ BlockNull \in BlockIds
  BY BlocksAssumption, SMT DEF BlockIds
<1>2. \A i \in BlockIds : i \in Nat /\ i \in Int /\ i # NoId
  BY <1>1, SMT DEF BlockIds, NoId
<1>3. \A i \in BlockIds : g.lo[i] \in Int /\ g.hi[i] \in Int /\ g.ht[i] \in Int
  BY DEF TreeShape
<1>4. \A i \in g.ids : i \in BlockIds /\ i # BlockNull
  BY DEF TreeShape
<1>5. \A x \in 0..MaxKey : x \in Int /\ x >= 0 /\ x <= MaxKey
  BY <1>1, SMT
<1>6. \A k \in DOMAIN g.map : k \in 0..MaxKey /\ g.map[k] \in BlockIds
  BY DEF TreeShape
<1> QED BY <1>1, <1>2, <1>3, <1>4, <1>5, <1>6, Zenon

LEMMA WaitingFacts ==
  ASSUME NEW g, TreeShape(g), NEW w, PairsFit(g, w)
  PROVE  /\ Len(w) \in Nat
         /\ \A j \in 1..Len(w) : w[j][1] \in DOMAIN g.map /\ w[j][2] \in BlockIds /\ w[j][1] \in Int /\ w[j][1] <= MaxKey
<1>1. w \in Seq((DOMAIN g.map) \X BlockIds)
  BY DEF PairsFit
<1>2. \A x \in DOMAIN g.map : x \in Int /\ x <= MaxKey
  BY BlocksAssumption, SMT DEF TreeShape
<1>3. ASSUME NEW j \in 1..Len(w) PROVE w[j] \in (DOMAIN g.map) \X BlockIds
  BY <1>1, ElementOfSeq
<1> QED BY <1>1, <1>2, <1>3, LenProperties

LEMMA BoundFacts ==
  ASSUME NEW g, TreeShape(g), NEW w, PairsFit(g, w)
  PROVE  Bound(w) \in Int /\ Bound(w) <= MaxKey + 1
<1>1. MaxKey \in Int
  BY BlocksAssumption
<1>2. CASE w = <<>>
  BY <1>1, <1>2, SMT DEF Bound
<1>3. CASE w # <<>>
  <2>1. Len(w) # 0
    BY <1>3, EmptySeq DEF PairsFit
  <2>2. 1 \in 1..Len(w)
    BY <2>1, WaitingFacts, SMT
  <2>3. w[1][1] \in Int /\ w[1][1] <= MaxKey
    BY <2>2, WaitingFacts
  <2> QED BY <1>1, <1>3, <2>3, SMT DEF Bound
<1> QED BY <1>2, <1>3

LEMMA TailFacts ==
  ASSUME NEW S, NEW w, w \in Seq(S), w # <<>>, NEW v, v = Tail(w)
  PROVE  /\ Len(w) \in Nat /\ Len(w) >= 1 /\ Len(v) = Len(w) - 1 /\ v \in Seq(S)
         /\ \A j \in 1..Len(v) : v[j] = w[j + 1] /\ j \in 1..Len(w) /\ j + 1 \in 1..Len(w)
<1>1. v \in Seq(S) /\ Len(v) = Len(w) - 1 /\ \A j \in 1..Len(v) : v[j] = w[j + 1]
  BY HeadTailProperties
<1>2. Len(w) \in Nat /\ Len(w) # 0
  BY LenProperties, EmptySeq
<1>3. \A j \in 1..Len(w) - 1 : j \in 1..Len(w) /\ j + 1 \in 1..Len(w)
  BY <1>2, SMT
<1> QED BY <1>1, <1>2, <1>3, SMT

\* The pairs that wait, without the first.
RestOf(w, v) ==
  \A j \in 1..Len(v) : /\ v[j] = w[j + 1] /\ j \in 1..Len(w) /\ j + 1 \in 1..Len(w)
                        /\ NextKey(v, j, MaxKey + 1) = NextKey(w, j + 1, MaxKey + 1)

LEMMA TailFits ==
  ASSUME NEW g, TreeShape(g), NEW w, PairsFit(g, w), w # <<>>, NEW v, v = Tail(w)
  PROVE  /\ PairsFit(g, v) /\ Bound(v) = NextKey(w, 1, MaxKey + 1) /\ Bound(w) < Bound(v)
         /\ RestOf(w, v)
<1>1. w \in Seq((DOMAIN g.map) \X BlockIds)
  BY DEF PairsFit
<1>2. /\ Len(w) \in Nat /\ Len(w) >= 1 /\ Len(v) = Len(w) - 1 /\ v \in Seq((DOMAIN g.map) \X BlockIds)
      /\ \A j \in 1..Len(v) : v[j] = w[j + 1] /\ j \in 1..Len(w) /\ j + 1 \in 1..Len(w)
  BY <1>1, TailFacts
<1> PICK c : c = Len(v)
  OBVIOUS
<1>3. c \in Nat /\ Len(w) = c + 1
  BY <1>2, SMT
<1>4. \A i, j \in 1..Len(v) : i < j => v[i][1] < v[j][1]
  <2> SUFFICES ASSUME NEW i \in 1..c, NEW j \in 1..c, i < j PROVE v[i][1] < v[j][1]
    OBVIOUS
  <2>1. i + 1 \in 1..Len(w) /\ j + 1 \in 1..Len(w) /\ i + 1 < j + 1
    BY <1>2, SMT
  <2>2. w[i + 1][1] < w[j + 1][1]
    BY <2>1 DEF PairsFit
  <2> QED BY <1>2, <2>2
<1>5. PairsFit(g, v)
  BY <1>2, <1>4, Zenon DEF PairsFit
<1>6. /\ \A j \in 1..c : NextKey(v, j, MaxKey + 1) = NextKey(w, j + 1, MaxKey + 1)
  <2> SUFFICES ASSUME NEW j \in 1..c PROVE NextKey(v, j, MaxKey + 1) = NextKey(w, j + 1, MaxKey + 1)
    OBVIOUS
  <2>1. CASE j = c
    BY <1>3, <2>1 DEF NextKey
  <2>2. CASE j # c
    <3>1. j + 1 \in 1..c /\ j + 1 # Len(w) /\ j # Len(v)
      BY <1>3, <2>2, SMT
    <3>2. v[j + 1] = w[(j + 1) + 1]
      BY <1>2, <3>1
    <3> QED BY <3>1, <3>2 DEF NextKey
  <2> QED BY <2>1, <2>2
<1>7. Bound(v) = NextKey(w, 1, MaxKey + 1)
  <2>1. CASE v = <<>>
    <3>1. Len(w) = 1
      BY <1>3, <2>1, SMT
    <3> QED BY <2>1, <3>1 DEF Bound, NextKey
  <2>2. CASE v # <<>>
    <3>1. c # 0
      BY <1>2, <2>2, EmptySeq
    <3>2. 1 \in 1..c /\ 1 # Len(w)
      BY <1>3, <3>1, SMT
    <3>3. v[1] = w[1 + 1]
      BY <1>2, <3>2
    <3> QED BY <2>2, <3>2, <3>3 DEF Bound, NextKey
  <2> QED BY <2>1, <2>2
<1>8. Bound(w) < Bound(v)
  <2>1. 1 \in 1..Len(w) /\ Bound(w) = w[1][1]
    BY <1>2, SMT DEF Bound
  <2>2. w[1][1] \in Int /\ w[1][1] <= MaxKey /\ MaxKey \in Int
    BY <2>1, WaitingFacts, BlocksAssumption
  <2>3. CASE v = <<>>
    BY <2>1, <2>2, <2>3, SMT DEF Bound
  <2>4. CASE v # <<>>
    <3>1. c # 0
      BY <1>2, <2>4, EmptySeq
    <3>2. 1 \in 1..c /\ 1 + 1 \in 1..Len(w) /\ 1 < 1 + 1
      BY <1>3, <3>1, SMT
    <3>3. v[1] = w[1 + 1] /\ w[1][1] < w[1 + 1][1]
      BY <1>2, <2>1, <3>2 DEF PairsFit
    <3> QED BY <2>1, <2>4, <3>3 DEF Bound
  <2> QED BY <2>3, <2>4
<1>9. RestOf(w, v)
  BY <1>2, <1>6 DEF RestOf
<1> QED BY <1>5, <1>7, <1>8, <1>9

-----------------------------------------------------------------------------
(* What a change of one node leaves as it was.                             *)

LEMMA GrownNodesFit ==
  ASSUME NEW g, TreeShape(g), NEW cap, NodesFit(g, cap), NEW id, id \in g.ids,
         NEW m, NEW b, b \in Int, NEW g2, Grown(g, id, m, b, g2), NodeFits(g2, id, cap),
         \A i \in g.ids : i <= id \/ g.nodes[i].leaf
  PROVE  NodesFit(g2, cap)
<1>1. id \in BlockIds /\ g.ids \subseteq BlockIds /\ \A i \in BlockIds : i \in Int
  BY SMT DEF TreeShape, BlockIds
<1>2. g2.ids = g.ids /\ g2.map = g.map /\ \A j \in BlockIds \ {id} : SameNode(g, g2, j)
  BY <1>1, GrownIs
<1>3. ASSUME NEW i \in g.ids, i # id PROVE NodeFits(g2, i, cap)
  <2>1. NodeFits(g, i, cap) /\ SameNode(g, g2, i)
    BY <1>1, <1>2, <1>3 DEF NodesFit
  <2>2. g.nodes[i].leaf \/ \A j \in 1..Len(g.nodes[i].pointers) : SameSpan(g, g2, g.nodes[i].pointers[j])
    <3> SUFFICES ASSUME ~g.nodes[i].leaf, NEW j \in 1..Len(g.nodes[i].pointers)
                 PROVE  SameSpan(g, g2, g.nodes[i].pointers[j])
      OBVIOUS
    <3> PICK p : p = g.nodes[i].pointers[j]
      OBVIOUS
    <3>1. ChildFits(g, i, p)
      BY <2>1 DEF NodeFits, InnerFits
    <3>2. p \in g.ids /\ p < i /\ i <= id
      BY <3>1 DEF ChildFits
    <3>3. p \in BlockIds /\ p # id
      BY <1>1, <3>2, SMT
    <3> QED BY <1>2, <3>3 DEF SameNode
  <2>3. g.ids \subseteq g2.ids
    BY <1>2
  <2> QED BY <1>2, <2>1, <2>2, <2>3, NodeFitsKept, Zenon
<1> QED BY <1>2, <1>3 DEF NodesFit

LEMMA GrownInOrder ==
  ASSUME NEW g, TreeShape(g), LeavesInOrder(g), NEW id, id \in g.ids,
         NEW m, m.leaf = g.nodes[id].leaf, NEW b, b \in Int, NEW g2, Grown(g, id, m, b, g2),
         \/ b = g.hi[id]
         \/ \A i \in g.ids : i <= id \/ ~g.nodes[i].leaf
         \/ ~m.leaf
  PROVE  LeavesInOrder(g2)
<1>1. id \in BlockIds /\ g.ids \subseteq BlockIds /\ \A i \in BlockIds : i \in Int
  BY SMT DEF TreeShape, BlockIds
<1>2. /\ g2.ids = g.ids /\ g2.lo = g.lo /\ g2.nodes[id] = m /\ g2.hi[id] = b
      /\ \A j \in BlockIds \ {id} : SameNode(g, g2, j)
  BY <1>1, GrownIs
<1>3. \A j \in g.ids : g2.nodes[j].leaf = g.nodes[j].leaf /\ (j # id => g2.hi[j] = g.hi[j])
  BY <1>1, <1>2 DEF SameNode, SameSpan
<1>4. ASSUME NEW i \in g.ids, NEW j \in g.ids, i < j, g2.nodes[i].leaf, g2.nodes[j].leaf
      PROVE  g2.hi[i] <= g2.lo[j]
  <2>1. g.nodes[i].leaf /\ g.nodes[j].leaf
    BY <1>3, <1>4
  <2>2. g.hi[i] <= g.lo[j]
    BY <1>4, <2>1 DEF LeavesInOrder
  <2>3. CASE i # id
    BY <1>2, <1>3, <2>2, <2>3
  <2>4. CASE i = id
    <3>1. ~(j <= id)
      BY <1>1, <1>4, <2>4, SMT
    <3>2. b = g.hi[id]
      BY <1>2, <1>4, <2>1, <2>4, <3>1
    <3> QED BY <1>2, <2>2, <2>4, <3>2
  <2> QED BY <2>3, <2>4
<1> QED BY <1>2, <1>4 DEF LeavesInOrder

LEMMA GrownCover ==
  ASSUME NEW g, TreeShape(g), NEW top, LeavesCover(g, top), NEW id, id \in g.ids,
         NEW m, m.leaf = g.nodes[id].leaf, NEW b, b \in Int, g.hi[id] <= b, NEW g2, Grown(g, id, m, b, g2)
  PROVE  LeavesCover(g2, top)
<1>1. /\ id \in BlockIds /\ (\A i \in g.ids : i \in BlockIds) /\ (\A i \in BlockIds : g.hi[i] \in Int)
      /\ \A k \in DOMAIN g.map : k \in Int
  BY ShapeFacts
<1>2. /\ g2.ids = g.ids /\ g2.lo = g.lo /\ g2.nodes[id] = m /\ g2.hi[id] = b /\ g2.map = g.map
      /\ \A j \in BlockIds \ {id} : SameNode(g, g2, j)
  BY <1>1, GrownIs
<1>3. \A j \in g.ids : g2.nodes[j].leaf = g.nodes[j].leaf /\ (j # id => g2.hi[j] = g.hi[j])
  BY <1>1, <1>2 DEF SameNode, SameSpan
<1>4. ASSUME NEW k \in DOMAIN g.map, k < top
      PROVE  \E i \in g.ids : g2.nodes[i].leaf /\ g2.lo[i] <= k /\ k < g2.hi[i]
  <2>1. PICK i \in g.ids : g.nodes[i].leaf /\ g.lo[i] <= k /\ k < g.hi[i]
    BY <1>4 DEF LeavesCover
  <2>2. k < g2.hi[i]
    <3>1. CASE i = id
      <4>1. k \in Int /\ g.hi[id] \in Int
        BY <1>1
      <4> QED BY <1>2, <2>1, <3>1, <4>1, SMT
    <3>2. CASE i # id
      BY <1>3, <2>1, <3>2
    <3> QED BY <3>1, <3>2
  <2> QED BY <1>2, <1>3, <2>1, <2>2
<1> QED BY <1>2, <1>4 DEF LeavesCover

\* The last node of a level, which is the one under construction.
LEMMA LastOfLevel ==
  ASSUME NEW g, TreeShape(g), NEW w, NEW done, NEW level, LevelFits(g, w, done, level), done # <<>>,
         NEW c, c = Len(done), NEW id, done[c][2] = id
  PROVE  /\ c \in Nat /\ c \in 1..Len(done) /\ id \in g.ids /\ g.lo[id] = done[c][1] /\ g.hi[id] = Bound(w)
         /\ g.ht[id] = level /\ done[c][1] \in DOMAIN g.map
         /\ \A j \in 1..c : j # c => done[j][2] # id /\ done[j][1] < done[c][1]
<1>1. PairsFit(g, done)
  BY DEF LevelFits
<1>2. c \in Nat /\ c # 0
  BY <1>1, WaitingFacts, EmptySeq DEF PairsFit
<1>3. c \in 1..c
  BY <1>2, SMT
<1>4. id \in g.ids /\ g.lo[id] = done[c][1] /\ g.hi[id] = Bound(w) /\ g.ht[id] = level
  BY <1>3 DEF LevelFits, NextKey
<1>5. \A j \in 1..c : done[j][1] \in DOMAIN g.map /\ done[j][1] \in Int
  BY <1>1, WaitingFacts
<1>6. ASSUME NEW j \in 1..c, j # c PROVE done[j][2] # id /\ done[j][1] < done[c][1]
  <2>1. j < c
    BY <1>2, <1>6, SMT
  <2>2. done[j][1] < done[c][1]
    BY <1>1, <1>3, <2>1 DEF PairsFit
  <2>3. g.lo[done[j][2]] = done[j][1]
    BY DEF LevelFits
  <2>4. done[j][1] # done[c][1]
    BY <1>3, <1>5, <2>2, SMT
  <2> QED BY <1>4, <2>2, <2>3, <2>4
<1> QED BY <1>2, <1>3, <1>4, <1>5, <1>6

LEMMA GrownLevel ==
  ASSUME NEW g, TreeShape(g), NEW w, NEW done, NEW level, LevelFits(g, w, done, level), done # <<>>,
         NEW id, done[Len(done)][2] = id, NEW m, NEW v, Bound(v) \in Int, NEW g2, Grown(g, id, m, Bound(v), g2)
  PROVE  LevelFits(g2, v, done, level)
<1> PICK c : c = Len(done)
  OBVIOUS
<1>1. /\ c \in Nat /\ c \in 1..c /\ id \in g.ids /\ \A j \in 1..c : j # c => done[j][2] # id
  BY LastOfLevel
<1>2. id \in BlockIds /\ \A i \in g.ids : i \in BlockIds
  BY <1>1, ShapeFacts
<1>3. /\ g2.ids = g.ids /\ g2.map = g.map /\ g2.lo = g.lo /\ g2.ht = g.ht /\ g2.hi[id] = Bound(v)
      /\ \A j \in BlockIds \ {id} : SameNode(g, g2, j)
  BY <1>2, GrownIs
<1>4. \A j \in g.ids : j # id => g2.hi[j] = g.hi[j]
  BY <1>2, <1>3 DEF SameNode, SameSpan
<1>5. ASSUME NEW j \in 1..c PROVE g2.hi[done[j][2]] = NextKey(done, j, Bound(v))
  <2>1. CASE j = c
    BY <1>3, <2>1 DEF NextKey
  <2>2. CASE j # c
    <3>1. done[j][2] \in g.ids /\ g.hi[done[j][2]] = NextKey(done, j, Bound(w)) /\ done[j][2] # id
      BY <1>1, <2>2 DEF LevelFits
    <3>2. g2.hi[done[j][2]] = NextKey(done, j, Bound(w))
      BY <1>4, <3>1
    <3> QED BY <2>2, <3>2 DEF NextKey
  <2> QED BY <2>1, <2>2
<1>6. PairsFit(g2, done)
  BY <1>3 DEF LevelFits, PairsFit
<1>7. \A k \in DOMAIN g2.map : done[1][1] <= k
  BY <1>3 DEF LevelFits
<1>8. \A j \in 1..c : done[j][2] \in g2.ids /\ g2.ht[done[j][2]] = level /\ g2.lo[done[j][2]] = done[j][1]
  BY <1>3 DEF LevelFits
<1> QED BY <1>5, <1>6, <1>7, <1>8 DEF LevelFits

LEMMA TailEntriesWait ==
  ASSUME NEW g, TreeShape(g), NEW w, EntriesWait(g, w), w # <<>>, NEW g2, g2.map = g.map
  PROVE  EntriesWait(g2, Tail(w))
<1> PICK v : v = Tail(w)
  OBVIOUS
<1>1. PairsFit(g, v) /\ RestOf(w, v)
  <2>1. PairsFit(g, w)
    BY DEF EntriesWait
  <2> QED BY <2>1, TailFits
<1>2. ASSUME NEW j \in 1..Len(v)
      PROVE  v[j][2] = g2.map[v[j][1]] /\ Within(g2.map, v[j][1], NextKey(v, j, MaxKey + 1)) = {v[j][1]}
  <2> PICK i : i = j + 1
    OBVIOUS
  <2>1. w[i][2] = g.map[w[i][1]] /\ Within(g.map, w[i][1], NextKey(w, i, MaxKey + 1)) = {w[i][1]}
    BY <1>1 DEF EntriesWait, RestOf
  <2>2. v[j] = w[i] /\ NextKey(v, j, MaxKey + 1) = NextKey(w, i, MaxKey + 1)
    BY <1>1 DEF RestOf
  <2> QED BY <2>1, <2>2
<1>3. PairsFit(g2, v)
  BY <1>1 DEF PairsFit
<1> QED BY <1>2, <1>3 DEF EntriesWait

LEMMA GrownLinks ==
  ASSUME NEW g, TreeShape(g), NEW last, LinksFit(g, last), NEW id, id \in g.ids,
         NEW m, m.leaf = g.nodes[id].leaf, NEW b, b \in Int, NEW g2, Grown(g, id, m, b, g2),
         m.leaf => id = last /\ Last(m.pointers) = BlockNull
  PROVE  LinksFit(g2, last)
<1>1. id \in BlockIds /\ \A i \in g.ids : i \in BlockIds
  BY ShapeFacts
<1>2. /\ g2.ids = g.ids /\ g2.lo = g.lo /\ g2.nodes[id] = m
      /\ \A j \in BlockIds \ {id} : SameNode(g, g2, j)
  BY <1>1, GrownIs
<1>3. \A j \in g.ids : g2.nodes[j].leaf = g.nodes[j].leaf /\ (j # id => g2.nodes[j] = g.nodes[j] /\ g2.hi[j] = g.hi[j])
  BY <1>1, <1>2 DEF SameNode, SameSpan
<1>4. ASSUME NEW i \in g.ids, g2.nodes[i].leaf, Started(g2.nodes[i])
      PROVE  IF i = last THEN Last(g2.nodes[i].pointers) = BlockNull
             ELSE LinkFits(g2, i, Last(g2.nodes[i].pointers))
  <2>1. CASE i = id
    BY <1>2, <1>4, <2>1
  <2>2. CASE i # id
    <3> PICK p : p = Last(g.nodes[i].pointers)
      OBVIOUS
    <3>1. g2.nodes[i] = g.nodes[i] /\ g2.hi[i] = g.hi[i]
      BY <1>3, <2>2
    <3>2. IF i = last THEN p = BlockNull ELSE LinkFits(g, i, p)
      BY <1>4, <3>1 DEF LinksFit
    <3>3. CASE i = last
      BY <3>1, <3>2, <3>3
    <3>4. CASE i # last
      <4>1. LinkFits(g2, i, p)
        <5>1. LinkFits(g, i, p)
          BY <3>2, <3>4
        <5>2. p # BlockNull => p \in g2.ids /\ g2.nodes[p].leaf /\ g2.lo[p] = g2.hi[i]
          BY <1>2, <1>3, <3>1, <5>1 DEF LinkFits
        <5> QED BY <3>1, <5>1, <5>2 DEF LinkFits
      <4> QED BY <3>1, <3>4, <4>1
    <3> QED BY <3>3, <3>4
  <2> QED BY <2>1, <2>2
<1> QED BY <1>2, <1>4 DEF LinksFit

LEMMA GrownAllStarted ==
  ASSUME NEW g, TreeShape(g), NEW id, id \in g.ids, AllStarted(g, {id}), NEW m, NEW b, b \in Int,
         NEW g2, Grown(g, id, m, b, g2)
  PROVE  AllStarted(g2, {id})
<1>1. id \in BlockIds /\ \A i \in g.ids : i \in BlockIds
  BY ShapeFacts
<1>2. g2.ids = g.ids /\ \A j \in BlockIds \ {id} : SameNode(g, g2, j)
  BY <1>1, GrownIs
<1> QED BY <1>1, <1>2 DEF AllStarted, SameNode

\* A pair goes into the leaf under construction.
LEMMA FillLeafStep ==
  ASSUME NEW g, NEW cap, cap \in Nat, NEW w, NEW done, NEW n, NEW id, NEW next,
         AtLeaves(g, cap, w, done, id), OneInHand(g, TRUE, w, done, n, id, next),
         w # <<>>, ~NodeFull(n, cap), NEW m, m = NodeInsert(n, w[1][1], w[1][2]),
         NEW v, v = Tail(w), NEW g2, Grown(g, id, m, Bound(v), g2)
  PROVE  AtLeaves(g2, cap, v, done, id) /\ OneInHand(g2, TRUE, v, done, m, id, next)
<1> PICK k, b : k = w[1][1] /\ b = Bound(v)
  OBVIOUS
<1>1. /\ TreeShape(g) /\ NodesFit(g, cap) /\ LeavesInOrder(g) /\ LeavesCover(g, k)
      /\ OnlyLeaves(g, k) /\ LinksFit(g, id) /\ EntriesWait(g, w) /\ PairsFit(g, w) /\ LevelFits(g, w, done, 1)
  BY DEF AtLeaves, EntriesWait, Bound
<1>2. /\ id \in g.ids /\ g.nodes[id] = n /\ n.leaf /\ done # <<>> /\ done[Len(done)][2] = id
      /\ (\A i \in g.ids : i <= id) /\ AllStarted(g, {id}) /\ next = NoId
  BY DEF OneInHand
<1>3. 1 \in 1..Len(w) /\ Len(w) \in Nat
  <2>1. Len(w) \in Nat /\ Len(w) # 0
    BY <1>1, WaitingFacts, EmptySeq DEF PairsFit
  <2> QED BY <2>1, SMT
<1>4. k \in DOMAIN g.map /\ w[1][2] = g.map[k]
  BY <1>1, <1>3, WaitingFacts DEF EntriesWait
<1>5. PairsFit(g, v) /\ b = NextKey(w, 1, MaxKey + 1) /\ k < b
  BY <1>1, TailFits DEF Bound
<1>6. b \in Int /\ b <= MaxKey + 1
  BY <1>1, <1>5, BoundFacts
<1>7. Within(g.map, k, b) = {k}
  BY <1>1, <1>3, <1>5 DEF EntriesWait
<1>8. g.hi[id] = k /\ g.lo[id] \in DOMAIN g.map
  <2> PICK c : c = Len(done)
    OBVIOUS
  <2>1. done[c][2] = id
    BY <1>2
  <2>2. g.hi[id] = Bound(w) /\ g.lo[id] = done[c][1] /\ done[c][1] \in DOMAIN g.map
    BY <1>1, <1>2, <2>1, LastOfLevel
  <2> QED BY <2>2 DEF Bound
<1>9. id \in BlockIds /\ NodeFits(g, id, cap) /\ k \in Int
  BY <1>1, <1>2, <1>4, ShapeFacts DEF NodesFit
<1>10. Grown(g, id, NodeInsert(g.nodes[id], k, g.map[k]), b, g2)
  BY <1>2, <1>4
<1>11. Len(g.nodes[id].keys) < cap
  <2>1. Len(g.nodes[id].keys) \in Nat
    BY <1>9, LenProperties DEF NodeFits, Growing, Whole, NodeType
  <2> QED BY <1>2, <2>1, SMT DEF NodeFull
<1>12. NodeFits(g2, id, cap) /\ g2.nodes[id].leaf /\ Started(g2.nodes[id])
  BY <1>1, <1>2, <1>4, <1>5, <1>6, <1>7, <1>8, <1>9, <1>10, <1>11, FillLeafFits, Zenon
<1>13. /\ TreeShape(g2) /\ g2.ids = g.ids /\ g2.map = g.map /\ g2.lo = g.lo /\ g2.nodes[id] = m /\ g2.hi[id] = b
       /\ \A j \in BlockIds \ {id} : SameNode(g, g2, j)
  BY <1>1, <1>6, <1>9, GrownIs
<1>14. m.leaf = g.nodes[id].leaf /\ m.leaf
  <2>1. m.leaf = n.leaf
    BY <1>9, <1>2 DEF NodeFits, NodeInsert, LeafInsert, Growing, Whole, NodeType
  <2> QED BY <1>2, <2>1
<1>15. Grown(g, id, m, b, g2) /\ g.hi[id] <= b
  BY <1>5, <1>6, <1>8, <1>9, SMT
<1>16. NodesFit(g2, cap)
  BY <1>1, <1>2, <1>6, <1>12, <1>15, GrownNodesFit, Zenon
<1>17. LeavesInOrder(g2)
  BY <1>1, <1>2, <1>6, <1>14, <1>15, GrownInOrder, Zenon
<1>18. LeavesCover(g2, b)
  <2>1. LeavesCover(g2, k)
    BY <1>1, <1>2, <1>6, <1>14, <1>15, GrownCover, Zenon
  <2>2. ASSUME NEW x \in DOMAIN g2.map, x < b
        PROVE  \E i \in g2.ids : g2.nodes[i].leaf /\ g2.lo[i] <= x /\ x < g2.hi[i]
    <3>1. x \in Int /\ x \in DOMAIN g.map /\ g.lo[id] \in Int
      BY <1>1, <1>8, <1>13, ShapeFacts
    <3>2. CASE x < k
      BY <2>1, <3>2 DEF LeavesCover
    <3>3. CASE ~(x < k)
      <4>1. k <= x
        BY <1>9, <3>1, <3>3, SMT
      <4>2. x = k
        BY <1>7, <2>2, <3>1, <4>1 DEF Within
      <4>3. g.lo[id] <= k
        BY <1>8, <1>9 DEF NodeFits, SpanFits
      <4>4. id \in g2.ids /\ g2.nodes[id].leaf /\ g2.lo[id] <= x /\ x < g2.hi[id]
        BY <1>2, <1>12, <1>13, <2>2, <4>2, <4>3
      <4> QED BY <4>4
    <3> QED BY <3>2, <3>3
  <2> QED BY <2>2 DEF LeavesCover
<1>19. OnlyLeaves(g2, b)
  <2>1. ASSUME NEW i \in g.ids PROVE g2.nodes[i].leaf /\ g2.hi[i] <= b
    <3>1. CASE i = id
      BY <1>6, <1>12, <1>13, <3>1, SMT
    <3>2. CASE i # id
      <4>1. i \in BlockIds /\ g.hi[i] \in Int /\ g.nodes[i].leaf /\ g.hi[i] <= k
        BY <1>1, ShapeFacts DEF OnlyLeaves
      <4>2. g2.nodes[i] = g.nodes[i] /\ g2.hi[i] = g.hi[i]
        BY <1>13, <3>2, <4>1 DEF SameNode, SameSpan
      <4> QED BY <1>5, <1>6, <1>9, <4>1, <4>2, SMT
    <3> QED BY <3>1, <3>2
  <2> QED BY <1>13, <2>1 DEF OnlyLeaves
<1>20. LinksFit(g2, id)
  <2>1. Last(m.pointers) = BlockNull
    <3>1. NodeGrows(n, k, w[1][2], m)
      <4>1. Growing(n) /\ LeafFits(g, id, n.keys, n.pointers)
        BY <1>2, <1>9 DEF NodeFits
      <4>2. AllBelow(n.keys, k)
        <5>1. n.keys \in Seq(Int)
          BY <4>1 DEF Growing, Whole, NodeType
        <5>2. \A j \in 1..Len(n.keys) : n.keys[j] \in ToSet(n.keys)
          BY <5>1, LenProperties DEF ToSet
        <5> QED BY <1>8, <4>1, <5>2 DEF LeafFits, Within, AllBelow
      <4>3. w[1][2] \in BlockIds
        BY <1>1, <1>3, WaitingFacts
      <4>4. m = NodeInsert(n, k, w[1][2])
        OBVIOUS
      <4> QED BY <1>9, <4>1, <4>2, <4>3, <4>4, InsertLast
    <3>2. Last(m.pointers) = IF Started(n) THEN Last(n.pointers) ELSE BlockNull
      BY <1>2, <3>1, Zenon DEF NodeGrows, LeafGrows
    <3>3. Started(n) => Last(n.pointers) = BlockNull
      BY <1>1, <1>2 DEF LinksFit
    <3> QED BY <3>2, <3>3
  <2> QED BY <1>1, <1>2, <1>6, <1>14, <1>15, <2>1, GrownLinks, Zenon
<1>21. EntriesWait(g2, v)
  BY <1>1, <1>13, TailEntriesWait
<1>22. LevelFits(g2, v, done, 1)
  BY <1>1, <1>2, <1>6, <1>15, GrownLevel
<1>23. AllStarted(g2, {id})
  BY <1>1, <1>2, <1>6, <1>15, GrownAllStarted, Zenon
<1>24. AtLeaves(g2, cap, v, done, id)
  BY <1>13, <1>16, <1>17, <1>18, <1>19, <1>20, <1>21, <1>22, Zenon DEF AtLeaves
<1>25. OneInHand(g2, TRUE, v, done, m, id, next)
  BY <1>2, <1>12, <1>13, <1>23 DEF OneInHand
<1> QED BY <1>24, <1>25, Zenon

\* A child goes into the internal node under construction.
LEMMA FillInternalStep ==
  ASSUME NEW g, NEW cap, cap \in Nat, NEW w, NEW done, NEW n, NEW id, NEW next, NEW level,
         AtInner(g, cap, w, done, id, level), OneInHand(g, FALSE, w, done, n, id, next),
         w # <<>>, NEW limit, limit \in Nat, limit <= cap, ~NodeFull(n, limit),
         NEW m, m = NodeInsert(n, w[1][1], w[1][2]),
         NEW v, v = Tail(w), NEW g2, Grown(g, id, m, Bound(v), g2), level \in Int
  PROVE  AtInner(g2, cap, v, done, id, level) /\ OneInHand(g2, FALSE, v, done, m, id, next)
<1> PICK k, b, p : k = w[1][1] /\ b = Bound(v) /\ p = w[1][2]
  OBVIOUS
<1>1. /\ TreeShape(g) /\ NodesFit(g, cap) /\ LeavesInOrder(g) /\ LeavesCover(g, MaxKey + 1)
      /\ LinksFit(g, NoId) /\ NodesWait(g, w, id, level) /\ PairsFit(g, w)
      /\ LevelFits(g, w, done, level + 1)
  BY DEF AtInner, AboveLeaves, NodesWait
<1>2. /\ id \in g.ids /\ g.nodes[id] = n /\ ~n.leaf /\ done # <<>> /\ done[Len(done)][2] = id
      /\ (\A i \in g.ids : i <= id) /\ AllStarted(g, {id}) /\ next = NoId
  BY DEF OneInHand
<1>3. 1 \in 1..Len(w) /\ Len(w) \in Nat
  <2>1. Len(w) \in Nat /\ Len(w) # 0
    BY <1>1, WaitingFacts, EmptySeq DEF PairsFit
  <2> QED BY <2>1, SMT
<1>4. k \in DOMAIN g.map /\ p \in BlockIds
  BY <1>1, <1>3, WaitingFacts
<1>5. PairsFit(g, v) /\ RestOf(w, v) /\ b = NextKey(w, 1, MaxKey + 1) /\ k < b
  BY <1>1, TailFits DEF Bound
<1>6. b \in Int /\ b <= MaxKey + 1
  BY <1>1, <1>5, BoundFacts
<1>7. g.hi[id] = k /\ g.ht[id] = level + 1
  <2> PICK c : c = Len(done)
    OBVIOUS
  <2>1. done[c][2] = id
    BY <1>2
  <2>2. g.hi[id] = Bound(w) /\ g.ht[id] = level + 1
    BY <1>1, <1>2, <2>1, LastOfLevel
  <2> QED BY <2>2 DEF Bound
<1>8. id \in BlockIds /\ id # BlockNull /\ id # NoId /\ NodeFits(g, id, cap) /\ k \in Int
  BY <1>1, <1>2, <1>4, ShapeFacts DEF NodesFit
<1>9. p \in g.ids /\ p < id /\ g.ht[p] = level /\ g.lo[p] = k /\ g.hi[p] = b
  BY <1>1, <1>3, <1>5, <1>8 DEF NodesWait
<1>10. ChildFits(g, id, p)
  <2>1. g.ht[p] = g.ht[id] - 1
    BY <1>7, <1>9, SMT
  <2>2. g.lo[p] <= g.hi[p]
    BY <1>5, <1>6, <1>8, <1>9, SMT
  <2> QED BY <1>9, <2>1, <2>2 DEF ChildFits
<1>11. Len(g.nodes[id].keys) < cap
  <2>1. Len(g.nodes[id].keys) \in Nat
    BY <1>8, LenProperties DEF NodeFits, Growing, Whole, NodeType
  <2> QED BY <1>2, <2>1, SMT DEF NodeFull
<1>12. Grown(g, id, NodeInsert(g.nodes[id], k, p), b, g2)
  BY <1>2
<1>13. NodeFits(g2, id, cap) /\ ~g2.nodes[id].leaf /\ Started(g2.nodes[id])
  BY <1>1, <1>2, <1>4, <1>5, <1>6, <1>7, <1>8, <1>9, <1>10, <1>11, <1>12, FillInnerFits, Zenon
<1>14. /\ TreeShape(g2) /\ g2.ids = g.ids /\ g2.map = g.map /\ g2.lo = g.lo /\ g2.ht = g.ht
       /\ g2.nodes[id] = m /\ g2.hi[id] = b
       /\ \A j \in BlockIds \ {id} : SameNode(g, g2, j)
  BY <1>1, <1>6, <1>8, GrownIs
<1>15. m.leaf = g.nodes[id].leaf /\ ~m.leaf
  <2>1. m.leaf = n.leaf
    BY <1>8, <1>2 DEF NodeFits, NodeInsert, InternalInsert, Growing, Whole, NodeType
  <2> QED BY <1>2, <2>1
<1>16. Grown(g, id, m, b, g2) /\ g.hi[id] <= b
  BY <1>5, <1>6, <1>7, <1>8, SMT
<1>17. NodesFit(g2, cap)
  BY <1>1, <1>2, <1>6, <1>13, <1>16, GrownNodesFit, Zenon
<1>18. LeavesInOrder(g2)
  BY <1>1, <1>2, <1>6, <1>15, <1>16, GrownInOrder, Zenon
<1>19. LeavesCover(g2, MaxKey + 1)
  BY <1>1, <1>2, <1>6, <1>15, <1>16, GrownCover, Zenon
<1>20. LinksFit(g2, NoId)
  BY <1>1, <1>2, <1>6, <1>15, <1>16, GrownLinks, Zenon
<1>21. NodesWait(g2, v, id, level)
  <2>1. PairsFit(g2, v)
    BY <1>5, <1>14 DEF PairsFit
  <2>2. ASSUME NEW j \in 1..Len(v)
        PROVE  /\ v[j][2] \in g2.ids /\ v[j][2] < id /\ g2.ht[v[j][2]] = level
               /\ g2.lo[v[j][2]] = v[j][1] /\ g2.hi[v[j][2]] = NextKey(v, j, MaxKey + 1)
    <3> PICK i, q : i = j + 1 /\ q = v[j][2]
      OBVIOUS
    <3>1. i \in 1..Len(w) /\ v[j] = w[i] /\ NextKey(v, j, MaxKey + 1) = NextKey(w, i, MaxKey + 1)
      BY <1>5 DEF RestOf
    <3>2. q \in g.ids /\ q < id /\ g.ht[q] = level /\ g.lo[q] = v[j][1] /\ g.hi[q] = NextKey(v, j, MaxKey + 1)
      BY <1>1, <1>8, <3>1 DEF NodesWait
    <3>3. q \in BlockIds /\ q # id
      BY <1>1, <1>8, <3>2, ShapeFacts, SMT
    <3>4. g2.hi[q] = g.hi[q]
      BY <1>14, <3>3 DEF SameNode, SameSpan
    <3> QED BY <1>14, <3>2, <3>4
  <2> QED BY <2>1, <2>2 DEF NodesWait
<1>22. LevelFits(g2, v, done, level + 1)
  BY <1>1, <1>2, <1>6, <1>16, GrownLevel
<1>23. AllStarted(g2, {id})
  BY <1>1, <1>2, <1>6, <1>16, GrownAllStarted, Zenon
<1>24. AtInner(g2, cap, v, done, id, level)
  BY <1>14, <1>17, <1>18, <1>19, <1>20, <1>21, <1>22, Zenon DEF AtInner, AboveLeaves
<1>25. OneInHand(g2, FALSE, v, done, m, id, next)
  BY <1>2, <1>13, <1>14, <1>23 DEF OneInHand
<1> QED BY <1>24, <1>25, Zenon

-----------------------------------------------------------------------------
(* A new node.                                                             *)

LEMMA ExtendedNodesFit ==
  ASSUME NEW g, TreeShape(g), NEW cap, cap \in Nat, NodesFit(g, cap), NEW q, q \in BlockIds \ {BlockNull},
         q \notin g.ids, NEW e, NEW h, Blank(e, h), NEW k, k \in DOMAIN g.map,
         NEW g2, Extended(g, q, e, k, h, g2)
  PROVE  NodesFit(g2, cap)
<1>1. h \in Int /\ k \in Int /\ \A i \in g.ids : i \in BlockIds
  BY ShapeFacts DEF Blank
<1>2. g2.ids = g.ids \cup {q} /\ g2.map = g.map /\ \A j \in BlockIds \ {q} : SameNode(g, g2, j)
  BY <1>1, ExtendedIs
<1>3. ASSUME NEW i \in g.ids PROVE NodeFits(g2, i, cap)
  <2>1. NodeFits(g, i, cap) /\ SameNode(g, g2, i)
    BY <1>1, <1>2 DEF NodesFit
  <2>2. g.nodes[i].leaf \/ \A j \in 1..Len(g.nodes[i].pointers) : SameSpan(g, g2, g.nodes[i].pointers[j])
    <3> SUFFICES ASSUME ~g.nodes[i].leaf, NEW j \in 1..Len(g.nodes[i].pointers)
                 PROVE  SameSpan(g, g2, g.nodes[i].pointers[j])
      OBVIOUS
    <3> PICK p : p = g.nodes[i].pointers[j]
      OBVIOUS
    <3>1. ChildFits(g, i, p)
      BY <2>1 DEF NodeFits, InnerFits
    <3>2. p \in BlockIds /\ p # q
      BY <1>1, <3>1 DEF ChildFits
    <3> QED BY <1>2, <3>2 DEF SameNode
  <2>3. g.ids \subseteq g2.ids
    BY <1>2
  <2> QED BY <1>2, <2>1, <2>2, <2>3, NodeFitsKept, Zenon
<1>4. NodeFits(g2, q, cap)
  BY NewNodeFits, Zenon
<1> QED BY <1>2, <1>3, <1>4 DEF NodesFit

\* What else a new node leaves as it was.
LEMMA ExtendedKeeps ==
  ASSUME NEW g, TreeShape(g), NEW q, q \in BlockIds \ {BlockNull}, q \notin g.ids,
         NEW e, NEW h, Blank(e, h), NEW k, k \in DOMAIN g.map,
         NEW g2, Extended(g, q, e, k, h, g2)
  PROVE  /\ \A top : LeavesCover(g, top) => LeavesCover(g2, top)
         /\ \A last : LinksFit(g, last) => LinksFit(g2, last)
         /\ \A but : AllStarted(g, but) => AllStarted(g2, but \cup {q})
<1>1. h \in Int /\ k \in Int /\ \A i \in g.ids : i \in BlockIds /\ i # q
  BY ShapeFacts DEF Blank
<1>2. g2.ids = g.ids \cup {q} /\ g2.map = g.map /\ g2.nodes[q] = e
      /\ \A j \in BlockIds \ {q} : SameNode(g, g2, j)
  BY <1>1, ExtendedIs
<1>3. \A j \in g.ids : g2.nodes[j] = g.nodes[j] /\ g2.lo[j] = g.lo[j] /\ g2.hi[j] = g.hi[j]
  BY <1>1, <1>2 DEF SameNode, SameSpan
<1>4. ~Started(g2.nodes[q])
  BY <1>2 DEF Started, Blank
<1>5. ASSUME NEW top, LeavesCover(g, top) PROVE LeavesCover(g2, top)
  <2>1. ASSUME NEW x \in DOMAIN g.map, x < top
        PROVE  \E i \in g2.ids : g2.nodes[i].leaf /\ g2.lo[i] <= x /\ x < g2.hi[i]
    <3>1. PICK i \in g.ids : g.nodes[i].leaf /\ g.lo[i] <= x /\ x < g.hi[i]
      BY <1>5, <2>1 DEF LeavesCover
    <3> QED BY <1>2, <1>3, <3>1
  <2> QED BY <1>2, <2>1 DEF LeavesCover
<1>6. ASSUME NEW last, LinksFit(g, last) PROVE LinksFit(g2, last)
  <2>1. ASSUME NEW i \in g2.ids, g2.nodes[i].leaf, Started(g2.nodes[i])
        PROVE  IF i = last THEN Last(g2.nodes[i].pointers) = BlockNull
               ELSE LinkFits(g2, i, Last(g2.nodes[i].pointers))
    <3> PICK p : p = Last(g.nodes[i].pointers)
      OBVIOUS
    <3>1. i \in g.ids
      BY <1>2, <1>4, <2>1
    <3>2. g2.nodes[i] = g.nodes[i] /\ g2.hi[i] = g.hi[i]
      BY <1>3, <3>1
    <3>3. IF i = last THEN p = BlockNull ELSE LinkFits(g, i, p)
      BY <1>6, <2>1, <3>1, <3>2 DEF LinksFit
    <3>4. LinkFits(g, i, p) => LinkFits(g2, i, p)
      BY <1>2, <1>3, <3>2 DEF LinkFits
    <3> QED BY <3>2, <3>3, <3>4
  <2> QED BY <2>1 DEF LinksFit
<1>7. ASSUME NEW but, AllStarted(g, but) PROVE AllStarted(g2, but \cup {q})
  BY <1>2, <1>3, <1>7 DEF AllStarted
<1> QED BY <1>5, <1>6, <1>7

\* The new node joins its level.
FirstPair(w, k) == w # <<>> /\ k = w[1][1]
Behind(done, k) == done # <<>> => done[Len(done)][1] < k
Joins(d2, done, k, q) == d2 = Append(done, <<k, q>>)
LEMMA ExtendedLevel ==
  ASSUME NEW g, TreeShape(g), NEW w, PairsFit(g, w), NEW done, NEW level, level \in Int,
         LevelFits(g, w, done, level), NEW k, FirstPair(w, k), Behind(done, k),
         NEW q, q \in BlockIds \ {BlockNull}, q \notin g.ids, NEW blank,
         NEW g2, Extended(g, q, blank, k, level, g2), NEW d2, Joins(d2, done, k, q)
  PROVE  LevelFits(g2, w, d2, level) /\ Len(d2) = Len(done) + 1 /\ d2[Len(d2)][2] = q /\ d2 # <<>>
         /\ \A j \in 1..Len(done) : d2[j] = done[j]
<1>0. w # <<>> /\ k = w[1][1] /\ (done # <<>> => done[Len(done)][1] < k) /\ d2 = Append(done, <<k, q>>)
  BY DEF FirstPair, Behind, Joins
<1> PICK c : c = Len(done)
  OBVIOUS
<1>1. PairsFit(g, done) /\ c \in Nat
  BY WaitingFacts DEF LevelFits
<1>2. k \in DOMAIN g.map /\ k \in Int /\ Bound(w) = k
  <2>1. Len(w) \in Nat /\ Len(w) # 0
    BY <1>0, WaitingFacts, EmptySeq DEF PairsFit
  <2>2. 1 \in 1..Len(w)
    BY <2>1, SMT
  <2>3. k \in DOMAIN g.map /\ k \in Int
    BY <1>0, <2>2, WaitingFacts
  <2> QED BY <1>0, <2>3 DEF Bound
<1>3. \A j \in 1..c : done[j][1] \in Int /\ done[j][2] \in g.ids /\ done[j][2] \in BlockIds /\ done[j][2] # q
  <2>1. \A j \in 1..c : done[j][2] \in g.ids
    BY DEF LevelFits
  <2> QED BY <1>1, <2>1, WaitingFacts, ShapeFacts
<1> PICK e : e = <<k, q>>
  OBVIOUS
<1>4. e \in (DOMAIN g.map) \X BlockIds /\ e[1] = k /\ e[2] = q
  BY <1>2
<1>5. done \in Seq((DOMAIN g.map) \X BlockIds)
  BY <1>1 DEF PairsFit
<1>6. /\ d2 \in Seq((DOMAIN g.map) \X BlockIds) /\ Len(d2) = c + 1 /\ d2[c + 1] = e
      /\ \A j \in 1..c : d2[j] = done[j]
  BY <1>0, <1>4, <1>5, AppendProperties
<1>7. 1..c + 1 = 1..c \cup {c + 1} /\ \A j \in 1..c : j # c + 1 /\ j < c + 1 /\ ~(c + 1 < j)
  BY <1>1, SMT
<1>8. \A j \in 1..c : done[j][1] < k
  <2> SUFFICES ASSUME NEW j \in 1..c PROVE done[j][1] < k
    OBVIOUS
  <2>1. c \in 1..c /\ (j < c \/ j = c)
    BY <1>1, SMT
  <2>2. done # <<>>
    BY <1>1, <2>1, SMT
  <2>3. done[c][1] < k /\ done[c][1] \in Int /\ done[j][1] \in Int
    BY <1>0, <1>3, <2>1, <2>2
  <2>4. j < c => done[j][1] < done[c][1]
    BY <1>1, <2>1 DEF PairsFit
  <2> QED BY <1>2, <2>1, <2>3, <2>4, SMT
<1>9. /\ g2.ids = g.ids \cup {q} /\ g2.map = g.map /\ g2.lo[q] = k /\ g2.hi[q] = k /\ g2.ht[q] = level
      /\ \A j \in BlockIds \ {q} : SameNode(g, g2, j)
  BY <1>2, ExtendedIs
<1>10. PairsFit(g2, d2)
  <2>1. ASSUME NEW i \in 1..c + 1, NEW j \in 1..c + 1, i < j PROVE d2[i][1] < d2[j][1]
    <3>1. i \in 1..c
      BY <1>1, <2>1, SMT
    <3>2. CASE j \in 1..c
      BY <1>1, <1>6, <2>1, <3>1, <3>2 DEF PairsFit
    <3>3. CASE j = c + 1
      BY <1>4, <1>6, <1>8, <3>1, <3>3
    <3> QED BY <1>7, <3>2, <3>3
  <2> QED BY <1>6, <1>9, <2>1 DEF PairsFit
<1>11. ASSUME NEW j \in 1..c + 1
       PROVE  /\ d2[j][2] \in g2.ids /\ g2.ht[d2[j][2]] = level
              /\ g2.lo[d2[j][2]] = d2[j][1] /\ g2.hi[d2[j][2]] = NextKey(d2, j, Bound(w))
  <2>1. CASE j = c + 1
    <3>1. d2[j][2] = q /\ d2[j][1] = k /\ NextKey(d2, j, Bound(w)) = k
      BY <1>2, <1>4, <1>6, <2>1 DEF NextKey
    <3> QED BY <1>9, <3>1
  <2>2. CASE j \in 1..c
    <3> PICK p : p = done[j][2]
      OBVIOUS
    <3>1. /\ p \in g.ids /\ g.ht[p] = level /\ g.lo[p] = done[j][1] /\ g.hi[p] = NextKey(done, j, Bound(w))
          /\ d2[j] = done[j]
      BY <1>6, <2>2 DEF LevelFits
    <3>2. g2.ht[p] = level /\ g2.lo[p] = done[j][1] /\ g2.hi[p] = NextKey(done, j, Bound(w))
      BY <1>3, <1>9, <2>2, <3>1 DEF SameNode, SameSpan
    <3>3. NextKey(done, j, Bound(w)) = NextKey(d2, j, Bound(w))
      <4>1. j # Len(d2)
        BY <1>6, <1>7, <2>2
      <4>2. CASE j = c
        <5>1. d2[j + 1] = e
          BY <1>6, <4>2
        <5> QED BY <1>2, <1>4, <4>1, <4>2, <5>1 DEF NextKey
      <4>3. CASE j # c
        <5>1. j + 1 \in 1..c
          BY <1>1, <2>2, <4>3, SMT
        <5>2. d2[j + 1] = done[j + 1]
          BY <1>6, <5>1
        <5> QED BY <4>1, <4>3, <5>2 DEF NextKey
      <4> QED BY <4>2, <4>3
    <3> QED BY <1>9, <3>1, <3>2, <3>3
  <2> QED BY <1>7, <2>1, <2>2
<1>12. d2 # <<>>
  <2>1. Len(<<>>) = 0 /\ c + 1 # 0
    BY <1>1, SMT
  <2> QED BY <1>6, <2>1
<1>13. \A x \in DOMAIN g2.map : d2[1][1] <= x
  <2>1. CASE done = <<>>
    <3>1. c + 1 = 1
      BY <2>1, SMT
    <3>2. d2[1] = e
      BY <1>6, <3>1
    <3> QED BY <1>0, <1>4, <1>9, <2>1, <3>2 DEF LevelFits
  <2>2. CASE done # <<>>
    <3>1. c # 0
      BY <1>5, <2>2, EmptySeq
    <3>2. 1 \in 1..c
      BY <1>1, <3>1, SMT
    <3>3. d2[1] = done[1]
      BY <1>6, <3>2
    <3> QED BY <1>9, <2>2, <3>3 DEF LevelFits
  <2> QED BY <2>1, <2>2
<1>14. LevelFits(g2, w, d2, level)
  BY <1>6, <1>10, <1>11, <1>12, <1>13 DEF LevelFits
<1> QED BY <1>4, <1>6, <1>12, <1>14

\* A node that is full stands for keys, so that its first key is below the next.
LEMMA StartedIsBelow ==
  ASSUME NEW g, TreeShape(g), NEW cap, NodesFit(g, cap), NEW w, NEW done, NEW level,
         LevelFits(g, w, done, level), done # <<>>, NEW id, done[Len(done)][2] = id, Started(g.nodes[id])
  PROVE  done[Len(done)][1] < Bound(w)
<1> PICK c : c = Len(done)
  OBVIOUS
<1>1. done[c][2] = id
  OBVIOUS
<1>2. id \in g.ids /\ g.lo[id] = done[c][1] /\ g.hi[id] = Bound(w)
  BY <1>1, LastOfLevel
<1> QED BY <1>2 DEF NodesFit, NodeFits, SpanFits

LEMMA FullIsStarted ==
  ASSUME NEW n, Growing(n), NEW limit, limit \in Nat, limit >= 1, NodeFull(n, limit)
  PROVE  Started(n)
<1>1. n.keys # <<>>
  <2>1. Len(<<>>) = 0
    BY SMT
  <2> QED BY <2>1, SMT DEF NodeFull
<1>2. Whole(n)
  BY <1>1 DEF Growing
<1> QED BY <1>2, WholeIsStarted

BlankLeaf(e) == e = EmptyNode(TRUE)
NextUp(h, level) == h = level + 1

LEMMA NewLeafKeeps ==
  ASSUME NEW g, NEW cap, cap \in Nat, NEW w, NEW done, NEW id, AtLeaves(g, cap, w, done, id),
         NEW k, FirstPair(w, k), Behind(done, k),
         NEW q, q \in BlockIds \ {BlockNull}, \A i \in g.ids : i < q,
         NEW e, NEW h, Blank(e, h), e.leaf, NEW g2, Extended(g, q, e, k, h, g2),
         NEW d2, Joins(d2, done, k, q)
  PROVE  AtLeaves(g2, cap, w, d2, id)
<1>1. /\ TreeShape(g) /\ NodesFit(g, cap) /\ LeavesInOrder(g) /\ LeavesCover(g, k)
      /\ OnlyLeaves(g, k) /\ LinksFit(g, id) /\ EntriesWait(g, w) /\ PairsFit(g, w) /\ h = 1 /\ h \in Int /\ LevelFits(g, w, done, h)
  BY DEF AtLeaves, EntriesWait, Bound, Blank, FirstPair
<1>2. k \in DOMAIN g.map /\ k \in Int /\ Bound(w) = k
  <2>1. Len(w) \in Nat /\ Len(w) # 0
    BY <1>1, WaitingFacts, EmptySeq DEF PairsFit, FirstPair
  <2>2. 1 \in 1..Len(w)
    BY <2>1, SMT
  <2>3. k \in DOMAIN g.map /\ k \in Int
    BY <1>1, <2>2, WaitingFacts DEF FirstPair
  <2> QED BY <2>3 DEF Bound, FirstPair
<1>3. q \notin g.ids /\ \A i \in g.ids : i \in BlockIds /\ i # q /\ ~(q < i)
  BY <1>1, ShapeFacts, SMT DEF BlockIds
<1>4. /\ TreeShape(g2) /\ g2.ids = g.ids \cup {q} /\ g2.map = g.map /\ g2.nodes[q] = e
      /\ g2.lo[q] = k /\ g2.hi[q] = k /\ \A j \in BlockIds \ {q} : SameNode(g, g2, j)
  BY <1>1, <1>2, ExtendedIs
<1>5. \A j \in g.ids : g2.nodes[j] = g.nodes[j] /\ g2.lo[j] = g.lo[j] /\ g2.hi[j] = g.hi[j]
  BY <1>3, <1>4 DEF SameNode, SameSpan
<1>6. NodesFit(g2, cap)
  BY <1>1, <1>2, <1>3, ExtendedNodesFit
<1>7. LeavesCover(g2, k) /\ LinksFit(g2, id)
  BY <1>1, <1>2, <1>3, ExtendedKeeps
<1>8. OnlyLeaves(g2, k)
  <2>1. g2.nodes[q].leaf /\ g2.hi[q] <= k
    BY <1>2, <1>4, SMT
  <2> QED BY <1>1, <1>4, <1>5, <2>1 DEF OnlyLeaves
<1>9. LeavesInOrder(g2)
  <2>1. ASSUME NEW i \in g2.ids, NEW j \in g2.ids, i < j, g2.nodes[i].leaf, g2.nodes[j].leaf
        PROVE  g2.hi[i] <= g2.lo[j]
    <3>1. i \in g.ids
      <4>1. i = q => FALSE
        <5>1. q \in Int /\ ~(q < q)
          BY SMT DEF BlockIds
        <5> QED BY <1>3, <1>4, <2>1, <5>1
      <4> QED BY <1>4, <4>1
    <3>2. CASE j = q
      BY <1>1, <1>4, <1>5, <3>1, <3>2 DEF OnlyLeaves
    <3>3. CASE j \in g.ids
      BY <1>1, <1>5, <2>1, <3>1, <3>3 DEF LeavesInOrder
    <3> QED BY <1>4, <3>2, <3>3
  <2> QED BY <2>1 DEF LeavesInOrder
<1>10. EntriesWait(g2, w)
  BY <1>1, <1>4 DEF EntriesWait, PairsFit
<1>11. LevelFits(g2, w, d2, h)
  BY <1>1, <1>3, ExtendedLevel
<1> QED BY <1>1, <1>2, <1>4, <1>6, <1>7, <1>8, <1>9, <1>10, <1>11 DEF AtLeaves

LEMMA NewInternalKeeps ==
  ASSUME NEW g, NEW cap, cap \in Nat, NEW w, NEW done, NEW id, NEW level, level \in Int,
         AtInner(g, cap, w, done, id, level),
         NEW k, FirstPair(w, k), Behind(done, k),
         NEW q, q \in BlockIds \ {BlockNull}, \A i \in g.ids : i < q,
         NEW e, NEW h, NextUp(h, level), Blank(e, h), ~e.leaf, NEW g2, Extended(g, q, e, k, h, g2),
         NEW d2, Joins(d2, done, k, q)
  PROVE  AtInner(g2, cap, w, d2, q, level)
<1>1. /\ TreeShape(g) /\ NodesFit(g, cap) /\ LeavesInOrder(g) /\ LeavesCover(g, MaxKey + 1)
      /\ LinksFit(g, NoId) /\ NodesWait(g, w, id, level) /\ PairsFit(g, w)
      /\ LevelFits(g, w, done, h) /\ h \in Int
  BY DEF AtInner, AboveLeaves, NodesWait, Blank, NextUp
<1>2. k \in DOMAIN g.map /\ k \in Int
  <2>1. Len(w) \in Nat /\ Len(w) # 0
    BY <1>1, WaitingFacts, EmptySeq DEF PairsFit, FirstPair
  <2>2. 1 \in 1..Len(w)
    BY <2>1, SMT
  <2> QED BY <1>1, <2>2, WaitingFacts DEF FirstPair
<1>3. q \notin g.ids /\ \A i \in g.ids : i \in BlockIds /\ i # q
  BY <1>1, ShapeFacts, SMT DEF BlockIds
<1>4. /\ TreeShape(g2) /\ g2.ids = g.ids \cup {q} /\ g2.map = g.map /\ g2.nodes[q] = e
      /\ \A j \in BlockIds \ {q} : SameNode(g, g2, j)
  BY <1>1, <1>2, ExtendedIs
<1>5. \A j \in g.ids : /\ g2.nodes[j] = g.nodes[j] /\ g2.lo[j] = g.lo[j] /\ g2.hi[j] = g.hi[j]
                       /\ g2.ht[j] = g.ht[j]
  BY <1>3, <1>4 DEF SameNode, SameSpan
<1>6. NodesFit(g2, cap)
  BY <1>1, <1>2, <1>3, ExtendedNodesFit
<1>7. LeavesCover(g2, MaxKey + 1) /\ LinksFit(g2, NoId)
  BY <1>1, <1>2, <1>3, ExtendedKeeps
<1>8. LeavesInOrder(g2)
  <2>1. ~g2.nodes[q].leaf
    BY <1>4
  <2> QED BY <1>1, <1>4, <1>5, <2>1 DEF LeavesInOrder
<1>9. NodesWait(g2, w, q, level)
  <2>1. PairsFit(g2, w)
    BY <1>1, <1>4 DEF PairsFit
  <2>2. ASSUME NEW j \in 1..Len(w)
        PROVE  /\ w[j][2] \in g2.ids /\ w[j][2] < q /\ g2.ht[w[j][2]] = level
               /\ g2.lo[w[j][2]] = w[j][1] /\ g2.hi[w[j][2]] = NextKey(w, j, MaxKey + 1)
    <3> PICK p : p = w[j][2]
      OBVIOUS
    <3>1. p \in g.ids /\ g.ht[p] = level /\ g.lo[p] = w[j][1] /\ g.hi[p] = NextKey(w, j, MaxKey + 1)
      BY <1>1 DEF NodesWait
    <3> QED BY <1>4, <1>5, <3>1
  <2> QED BY <2>1, <2>2 DEF NodesWait
<1>10. LevelFits(g2, w, d2, h)
  BY <1>1, <1>3, ExtendedLevel
<1> QED BY <1>4, <1>6, <1>7, <1>8, <1>9, <1>10 DEF AtInner, AboveLeaves, NextUp

\* The first leaf, and a further one, which waits for the link to it.
LEMMA FirstLeafStep ==
  ASSUME NEW g, NEW cap, cap \in Nat, NEW w, NEW done, NEW n, NEW id, NEW next,
         AtLeaves(g, cap, w, done, id), NoneInHand(g, w, done, n, id, next),
         NEW q, q \in BlockIds \ {BlockNull}, \A i \in g.ids : i < q,
         NEW e, BlankLeaf(e), NEW h, Blank(e, h), NEW k, FirstPair(w, k),
         NEW g2, Extended(g, q, e, k, h, g2), NEW d2, Joins(d2, done, k, q)
  PROVE  AtLeaves(g2, cap, w, d2, q) /\ OneInHand(g2, TRUE, w, d2, e, q, NoId)
<1>0. e.leaf = TRUE /\ e.pointers = <<>>
  BY DEF BlankLeaf, EmptyNode
<1>1. id = BlockNull /\ done = <<>> /\ AllStarted(g, {})
  BY DEF NoneInHand
<1>2. AtLeaves(g2, cap, w, d2, id)
  <2>1. Behind(done, k)
    BY <1>1 DEF Behind
  <2> QED BY <1>0, <2>1, NewLeafKeeps
<1>3. TreeShape(g) /\ PairsFit(g, w) /\ LevelFits(g, w, done, h) /\ h \in Int
  BY <1>0 DEF AtLeaves, EntriesWait, Blank
<1>4. k \in DOMAIN g.map /\ k \in Int
  <2>1. Len(w) \in Nat /\ Len(w) # 0
    BY <1>3, WaitingFacts, EmptySeq DEF PairsFit, FirstPair
  <2>2. 1 \in 1..Len(w)
    BY <2>1, SMT
  <2> QED BY <1>3, <2>2, WaitingFacts DEF FirstPair
<1>5. q \in Int /\ q \notin g.ids /\ \A i \in g.ids : i <= q
  BY <1>3, ShapeFacts, SMT DEF BlockIds
<1>6. g2.ids = g.ids \cup {q} /\ g2.nodes[q] = e
  BY <1>3, <1>4, ExtendedIs
<1>7. LinksFit(g2, q)
  <2>1. LinksFit(g2, id) /\ TreeShape(g2)
    BY <1>2 DEF AtLeaves
  <2>2. \A i \in g2.ids : i # id
    BY <1>1, <2>1, ShapeFacts
  <2>3. ~Started(g2.nodes[q])
    BY <1>0, <1>6 DEF Started
  <2> QED BY <2>1, <2>2, <2>3 DEF LinksFit
<1>8. AtLeaves(g2, cap, w, d2, q)
  BY <1>2, <1>7 DEF AtLeaves
<1>9. d2 # <<>> /\ d2[Len(d2)][2] = q
  <2>1. Behind(done, k)
    BY <1>1 DEF Behind
  <2> QED BY <1>3, <1>5, <2>1, ExtendedLevel
<1>10. AllStarted(g2, {q})
  <2> PICK but : but = {}
    OBVIOUS
  <2>1. AllStarted(g2, but \cup {q})
    BY <1>1, <1>3, <1>4, <1>5, ExtendedKeeps
  <2> QED BY <2>1 DEF AllStarted
<1>12. \A i \in g2.ids : i <= q
  BY <1>5, <1>6, SMT
<1>13. OneInHand(g2, TRUE, w, d2, e, q, NoId)
  BY <1>0, <1>6, <1>9, <1>10, <1>12 DEF OneInHand, FirstPair
<1> QED BY <1>8, <1>13, Zenon

LEMMA FurtherLeafStep ==
  ASSUME NEW g, NEW cap, cap \in Nat, cap >= 1, NEW w, NEW done, NEW n, NEW id, NEW next,
         AtLeaves(g, cap, w, done, id), OneInHand(g, TRUE, w, done, n, id, next),
         NodeFull(n, cap),
         NEW q, q \in BlockIds \ {BlockNull}, \A i \in g.ids : i < q,
         NEW e, BlankLeaf(e), NEW h, Blank(e, h), NEW k, FirstPair(w, k),
         NEW g2, Extended(g, q, e, k, h, g2), NEW d2, Joins(d2, done, k, q)
  PROVE  AtLeaves(g2, cap, w, d2, id) /\ TwoInHand(g2, w, d2, n, id, q)
<1>0. e.leaf = TRUE
  BY DEF BlankLeaf, EmptyNode
<1>1. TreeShape(g) /\ NodesFit(g, cap) /\ PairsFit(g, w) /\ LevelFits(g, w, done, h) /\ h \in Int
  BY <1>0 DEF AtLeaves, EntriesWait, Blank
<1>2. /\ id \in g.ids /\ g.nodes[id] = n /\ n.leaf /\ done # <<>> /\ done[Len(done)][2] = id
      /\ (\A i \in g.ids : i <= id) /\ AllStarted(g, {id})
  BY DEF OneInHand
<1>3. Started(n)
  <2>1. Growing(n)
    BY <1>1, <1>2 DEF NodesFit, NodeFits
  <2> QED BY <2>1, FullIsStarted
<1>4. Behind(done, k)
  <2>1. done[Len(done)][1] < Bound(w)
    BY <1>1, <1>2, <1>3, StartedIsBelow
  <2> QED BY <2>1 DEF Bound, Behind, FirstPair
<1>5. AtLeaves(g2, cap, w, d2, id)
  BY <1>0, <1>4, NewLeafKeeps
<1>6. k \in DOMAIN g.map /\ k \in Int
  <2>1. Len(w) \in Nat /\ Len(w) # 0
    BY <1>1, WaitingFacts, EmptySeq DEF PairsFit, FirstPair
  <2>2. 1 \in 1..Len(w)
    BY <2>1, SMT
  <2> QED BY <1>1, <2>2, WaitingFacts DEF FirstPair
<1>7. q \in Int /\ q \notin g.ids /\ id < q
  BY <1>1, <1>2, ShapeFacts, SMT DEF BlockIds
<1>8. g2.ids = g.ids \cup {q} /\ g2.nodes[q] = e /\ g2.nodes[id] = n
  <2>1. id \in BlockIds \ {q}
    BY <1>1, <1>2, <1>7, ShapeFacts
  <2> QED BY <1>1, <1>2, <1>6, <2>1, ExtendedIs DEF SameNode
<1>9. Len(d2) = Len(done) + 1 /\ d2[Len(d2)][2] = q /\ \A j \in 1..Len(done) : d2[j] = done[j]
  BY <1>1, <1>4, <1>7, ExtendedLevel
<1>10. Len(d2) > 1 /\ d2[Len(d2) - 1][2] = id
  <2> PICK c : c = Len(done)
    OBVIOUS
  <2>1. c \in Nat /\ c # 0
    BY <1>1, <1>2, WaitingFacts, EmptySeq DEF LevelFits, PairsFit
  <2>2. c \in 1..c /\ (c + 1) - 1 = c /\ c + 1 > 1
    BY <2>1, SMT
  <2> QED BY <1>2, <1>9, <2>2
<1>11. AllStarted(g2, {id, q})
  <2> PICK but : but = {id}
    OBVIOUS
  <2>1. AllStarted(g2, but \cup {q})
    BY <1>1, <1>2, <1>6, <1>7, ExtendedKeeps
  <2> QED BY <2>1 DEF AllStarted
<1>12. \A i \in g2.ids : i <= id \/ i = q
  BY <1>2, <1>8
<1>13. TwoInHand(g2, w, d2, n, id, q)
  BY <1>2, <1>3, <1>7, <1>8, <1>9, <1>10, <1>11, <1>12 DEF TwoInHand, BlankLeaf, FirstPair
<1> QED BY <1>5, <1>13, Zenon

\* The leaf at hand is linked to the one that waits, which is filled next.
LEMMA LinkLeafStep ==
  ASSUME NEW g, NEW cap, cap \in Nat, NEW w, NEW done, NEW n, NEW id, NEW next,
         AtLeaves(g, cap, w, done, id), TwoInHand(g, w, done, n, id, next),
         NEW e, BlankLeaf(e), NEW m, m = LinkTo(n, next), NEW b, b = g.hi[id], NEW g2, Grown(g, id, m, b, g2)
  PROVE  AtLeaves(g2, cap, w, done, next) /\ OneInHand(g2, TRUE, w, done, e, next, NoId)
<1>0. e.leaf = TRUE /\ e.pointers = <<>> /\ e = EmptyNode(TRUE)
  BY DEF BlankLeaf, EmptyNode
<1>1. /\ TreeShape(g) /\ NodesFit(g, cap) /\ LeavesInOrder(g) /\ LeavesCover(g, Bound(w))
      /\ OnlyLeaves(g, Bound(w)) /\ LinksFit(g, id)
      /\ EntriesWait(g, w) /\ LevelFits(g, w, done, 1)
  BY DEF AtLeaves
<1>2. /\ id \in g.ids /\ g.nodes[id] = n /\ n.leaf /\ Started(n)
      /\ next \in g.ids /\ id < next /\ g.nodes[next] = e /\ w # <<>>
      /\ Len(done) > 1 /\ done[Len(done) - 1][2] = id /\ done[Len(done)][2] = next
      /\ AllStarted(g, {id, next}) /\ \A i \in g.ids : i <= id \/ i = next
  BY <1>0 DEF TwoInHand
<1>3. id \in BlockIds /\ next \in BlockIds /\ next # BlockNull /\ b \in Int
      /\ id \in Int /\ next \in Int /\ id # next /\ \A i \in g.ids : i \in BlockIds /\ i \in Int
  <2>1. id \in Int /\ next \in Int
    BY <1>1, <1>2, ShapeFacts
  <2>2. id # next
    BY <1>2, <2>1, SMT
  <2> QED BY <1>1, <1>2, <2>2, ShapeFacts
<1>4. /\ TreeShape(g2) /\ g2.ids = g.ids /\ g2.map = g.map /\ g2.lo = g.lo /\ g2.ht = g.ht
      /\ g2.nodes[id] = m /\ g2.hi[id] = b /\ \A j \in BlockIds \ {id} : SameNode(g, g2, j)
  BY <1>1, <1>3, GrownIs
<1>5. \A j \in BlockIds : SameSpan(g, g2, j)
  BY <1>4 DEF SameNode, SameSpan
<1>6. NodeFits(g2, id, cap) /\ m.leaf /\ Started(m) /\ Last(m.pointers) = next
  <2>1. NodeFits(g, id, cap) /\ g.nodes[id].leaf /\ Started(g.nodes[id])
    BY <1>1, <1>2 DEF NodesFit
  <2>2. Grown(g, id, LinkTo(g.nodes[id], next), g.hi[id], g2)
    BY <1>2
  <2> QED BY <1>1, <1>3, <1>4, <2>1, <2>2, LinkNodeFits
<1>7. \A i \in g.ids : i # id => g2.nodes[i] = g.nodes[i]
  BY <1>3, <1>4 DEF SameNode
<1>8. \A i \in g.ids : g2.nodes[i].leaf <=> g.nodes[i].leaf
  BY <1>2, <1>4, <1>6, <1>7
<1>9. \A i \in g.ids : g2.lo[i] = g.lo[i] /\ g2.hi[i] = g.hi[i] /\ g2.ht[i] = g.ht[i]
  BY <1>3, <1>5 DEF SameSpan
<1>10. NodesFit(g2, cap)
  <2>1. ASSUME NEW i \in g.ids, i # id PROVE NodeFits(g2, i, cap)
    <3>1. NodeFits(g, i, cap) /\ SameNode(g, g2, i)
      BY <1>1, <1>3, <1>4, <2>1 DEF NodesFit
    <3>2. g.nodes[i].leaf \/ \A j \in 1..Len(g.nodes[i].pointers) : SameSpan(g, g2, g.nodes[i].pointers[j])
      <4> SUFFICES ASSUME ~g.nodes[i].leaf, NEW j \in 1..Len(g.nodes[i].pointers)
                   PROVE  SameSpan(g, g2, g.nodes[i].pointers[j])
        OBVIOUS
      <4> PICK p : p = g.nodes[i].pointers[j]
        OBVIOUS
      <4>1. ChildFits(g, i, p)
        BY <3>1 DEF NodeFits, InnerFits
      <4>2. p \in BlockIds
        BY <1>3, <4>1 DEF ChildFits
      <4> QED BY <1>5, <4>2
    <3>3. g.ids \subseteq g2.ids
      BY <1>4
    <3> QED BY <1>4, <3>1, <3>2, <3>3, NodeFitsKept, Zenon
  <2> QED BY <1>4, <1>6, <2>1 DEF NodesFit
<1>11. LeavesInOrder(g2) /\ LeavesCover(g2, Bound(w)) /\ OnlyLeaves(g2, Bound(w))
  <2>1. LeavesInOrder(g2)
    BY <1>1, <1>4, <1>8, <1>9 DEF LeavesInOrder
  <2>2. OnlyLeaves(g2, Bound(w))
    BY <1>1, <1>4, <1>8, <1>9 DEF OnlyLeaves
  <2>3. ASSUME NEW x \in DOMAIN g.map, x < Bound(w)
        PROVE  \E i \in g2.ids : g2.nodes[i].leaf /\ g2.lo[i] <= x /\ x < g2.hi[i]
    <3>1. PICK i \in g.ids : g.nodes[i].leaf /\ g.lo[i] <= x /\ x < g.hi[i]
      BY <1>1, <2>3 DEF LeavesCover
    <3> QED BY <1>4, <1>8, <1>9, <3>1
  <2>4. LeavesCover(g2, Bound(w))
    BY <1>4, <2>3 DEF LeavesCover
  <2> QED BY <2>1, <2>2, <2>4
<1>12. g.lo[next] = g.hi[id]
  <2> PICK c, d : c = Len(done) /\ d = c - 1
    OBVIOUS
  <2>1. c \in Nat /\ c > 1 /\ done[d][2] = id /\ done[c][2] = next
    BY <1>1, <1>2, WaitingFacts DEF LevelFits
  <2>2. c \in 1..c /\ d \in 1..c /\ d # c /\ d + 1 = c
    BY <2>1, SMT
  <2>3. g.lo[next] = done[c][1] /\ g.hi[id] = NextKey(done, d, Bound(w))
    BY <1>1, <2>1, <2>2 DEF LevelFits
  <2> QED BY <2>2, <2>3 DEF NextKey
<1>13. LinksFit(g2, next)
  <2>1. ASSUME NEW i \in g.ids, g2.nodes[i].leaf, Started(g2.nodes[i])
        PROVE  IF i = next THEN Last(g2.nodes[i].pointers) = BlockNull
               ELSE LinkFits(g2, i, Last(g2.nodes[i].pointers))
    <3>1. i # next
      BY <1>0, <1>2, <1>3, <1>7, <2>1 DEF Started
    <3>2. CASE i = id
      <4>1. LinkFits(g2, id, next)
        <5>1. next \in g2.ids /\ g2.nodes[next].leaf /\ g2.lo[next] = g2.hi[id]
          BY <1>0, <1>2, <1>3, <1>4, <1>7, <1>9, <1>12
        <5> QED BY <1>3, <5>1 DEF LinkFits
      <4> QED BY <1>4, <1>6, <3>1, <3>2, <4>1
    <3>3. CASE i # id
      <4> PICK p : p = Last(g.nodes[i].pointers)
        OBVIOUS
      <4>1. g2.nodes[i] = g.nodes[i]
        BY <1>7, <3>3
      <4>2. LinkFits(g, i, p)
        BY <1>1, <2>1, <3>3, <4>1 DEF LinksFit
      <4>3. LinkFits(g2, i, p)
        BY <1>4, <1>8, <1>9, <4>2 DEF LinkFits
      <4> QED BY <3>1, <4>1, <4>3
    <3> QED BY <3>2, <3>3
  <2> QED BY <1>4, <2>1 DEF LinksFit
<1>14. EntriesWait(g2, w)
  BY <1>1, <1>4 DEF EntriesWait, PairsFit
<1>15. LevelFits(g2, w, done, 1)
  BY <1>1, <1>4, <1>9 DEF LevelFits, PairsFit
<1>16. AtLeaves(g2, cap, w, done, next)
  BY <1>4, <1>10, <1>11, <1>13, <1>14, <1>15 DEF AtLeaves
<1>17. AllStarted(g2, {next})
  BY <1>2, <1>4, <1>6, <1>7 DEF AllStarted
<1>18. \A i \in g2.ids : i <= next
  BY <1>2, <1>3, <1>4, SMT
<1>19. done # <<>>
  BY <1>2, SMT
<1>20. g2.nodes[next] = e /\ next \in g2.ids
  BY <1>2, <1>3, <1>4, <1>7
<1>21. OneInHand(g2, TRUE, w, done, e, next, NoId)
  BY <1>0, <1>2, <1>17, <1>18, <1>19, <1>20 DEF OneInHand
<1> QED BY <1>16, <1>21, Zenon

BlankInner(e) == e = EmptyNode(FALSE)

\* A new internal node, when every other node is complete.
LEMMA NewInternalStep ==
  ASSUME NEW g, NEW cap, cap \in Nat, NEW w, NEW done, NEW id, NEW level, level \in Int,
         AtInner(g, cap, w, done, id, level), AllStarted(g, {}),
         NEW k, FirstPair(w, k), Behind(done, k),
         NEW q, q \in BlockIds \ {BlockNull}, \A i \in g.ids : i < q,
         NEW e, BlankInner(e), NEW h, NextUp(h, level), Blank(e, h),
         NEW g2, Extended(g, q, e, k, h, g2), NEW d2, Joins(d2, done, k, q)
  PROVE  AtInner(g2, cap, w, d2, q, level) /\ OneInHand(g2, FALSE, w, d2, e, q, NoId)
<1>0. e.leaf = FALSE /\ ~e.leaf /\ w # <<>>
  BY DEF BlankInner, EmptyNode, FirstPair
<1>1. TreeShape(g) /\ PairsFit(g, w) /\ LevelFits(g, w, done, h) /\ h \in Int
  BY DEF AtInner, AboveLeaves, NodesWait, Blank, NextUp
<1>2. AtInner(g2, cap, w, d2, q, level)
  BY <1>0, NewInternalKeeps
<1>3. k \in DOMAIN g.map /\ k \in Int
  <2>1. Len(w) \in Nat /\ Len(w) # 0
    BY <1>0, <1>1, WaitingFacts, EmptySeq DEF PairsFit
  <2>2. 1 \in 1..Len(w)
    BY <2>1, SMT
  <2> QED BY <1>1, <2>2, WaitingFacts DEF FirstPair
<1>4. q \in Int /\ q \notin g.ids /\ \A i \in g.ids : i <= q
  BY <1>1, ShapeFacts, SMT DEF BlockIds
<1>5. g2.ids = g.ids \cup {q} /\ g2.nodes[q] = e
  BY <1>1, <1>3, ExtendedIs
<1>6. d2 # <<>> /\ d2[Len(d2)][2] = q
  BY <1>1, <1>4, ExtendedLevel
<1>7. AllStarted(g2, {q})
  <2> PICK but : but = {}
    OBVIOUS
  <2>1. AllStarted(g2, but \cup {q})
    BY <1>1, <1>3, <1>4, ExtendedKeeps
  <2> QED BY <2>1 DEF AllStarted
<1>8. \A i \in g2.ids : i <= q
  BY <1>4, <1>5, SMT
<1>9. OneInHand(g2, FALSE, w, d2, e, q, NoId)
  BY <1>0, <1>5, <1>6, <1>7, <1>8 DEF OneInHand
<1> QED BY <1>2, <1>9, Zenon

\* A node that is full is complete, and stands for keys below the next pair.
LEMMA FullIsDone ==
  ASSUME NEW g, NEW cap, TreeShape(g), NodesFit(g, cap), NEW limit, limit \in Nat, limit >= 1,
         NEW w, NEW done, NEW level, LevelFits(g, w, done, level), NEW leaf, NEW n, NEW id, NEW next,
         OneInHand(g, leaf, w, done, n, id, next), NodeFull(n, limit), NEW k, FirstPair(w, k)
  PROVE  Behind(done, k) /\ AllStarted(g, {})
<1>1. id \in g.ids /\ g.nodes[id] = n /\ done # <<>> /\ done[Len(done)][2] = id /\ AllStarted(g, {id})
  BY DEF OneInHand
<1>2. Started(n)
  <2>1. Growing(n)
    BY <1>1 DEF NodesFit, NodeFits
  <2> QED BY <2>1, FullIsStarted
<1>3. Behind(done, k)
  <2>1. done[Len(done)][1] < Bound(w)
    BY <1>1, <1>2, StartedIsBelow
  <2> QED BY <2>1 DEF Bound, Behind, FirstPair
<1>4. AllStarted(g, {})
  BY <1>1, <1>2 DEF AllStarted
<1> QED BY <1>3, <1>4

\* A level is complete: its nodes share out all keys.
LevelEnds(g, cap, done, level) ==
  /\ AboveLeaves(g, cap) /\ AllStarted(g, {}) /\ done # <<>>
  /\ PairsFit(g, done)
  /\ \A j \in 1..Len(done) :
       /\ done[j][2] \in g.ids /\ g.ht[done[j][2]] = level
       /\ g.lo[done[j][2]] = done[j][1] /\ g.hi[done[j][2]] = NextKey(done, j, MaxKey + 1)
  /\ \A k \in DOMAIN g.map : done[1][1] <= k

LEMMA LeavesEnd ==
  ASSUME NEW g, NEW cap, NEW w, w = <<>>, NEW done, NEW n, NEW id, NEW next,
         AtLeaves(g, cap, w, done, id), OneInHand(g, TRUE, w, done, n, id, next)
  PROVE  LevelEnds(g, cap, done, 1)
<1> PICK b : b = MaxKey + 1
  OBVIOUS
<1>1. Bound(w) = b
  BY DEF Bound
<1>2. /\ TreeShape(g) /\ NodesFit(g, cap) /\ LeavesInOrder(g) /\ LeavesCover(g, b) /\ LinksFit(g, id)
      /\ LevelFits(g, w, done, 1)
  BY <1>1 DEF AtLeaves
<1>3. /\ id \in g.ids /\ g.nodes[id] = n /\ done # <<>> /\ done[Len(done)][2] = id
      /\ Started(n) /\ AllStarted(g, {id})
  BY DEF OneInHand
<1>4. AllStarted(g, {})
  BY <1>3 DEF AllStarted
<1>5. g.hi[id] = b
  BY <1>1, <1>2, <1>3, LastOfLevel
<1>6. LinksFit(g, NoId)
  <2>1. ASSUME NEW i \in g.ids, g.nodes[i].leaf, Started(g.nodes[i])
        PROVE  i # NoId /\ LinkFits(g, i, Last(g.nodes[i].pointers))
    <3>1. i # NoId
      BY <1>2, ShapeFacts
    <3>2. CASE i = id
      <4>1. Last(g.nodes[i].pointers) = BlockNull
        BY <1>2, <2>1, <3>2 DEF LinksFit
      <4> QED BY <1>5, <3>1, <3>2, <4>1 DEF LinkFits
    <3>3. CASE i # id
      BY <1>2, <2>1, <3>1, <3>3 DEF LinksFit
    <3> QED BY <3>2, <3>3
  <2> QED BY <2>1 DEF LinksFit
<1>7. AboveLeaves(g, cap)
  BY <1>2, <1>6 DEF AboveLeaves
<1>8. PairsFit(g, done) /\ \A k \in DOMAIN g.map : done[1][1] <= k
  BY <1>2, <1>3 DEF LevelFits
<1>9. \A j \in 1..Len(done) :
        /\ done[j][2] \in g.ids /\ g.ht[done[j][2]] = 1
        /\ g.lo[done[j][2]] = done[j][1] /\ g.hi[done[j][2]] = NextKey(done, j, b)
  BY <1>1, <1>2 DEF LevelFits
<1> QED BY <1>3, <1>4, <1>7, <1>8, <1>9 DEF LevelEnds

LEMMA InnerEnds ==
  ASSUME NEW g, NEW cap, NEW w, w = <<>>, NEW done, NEW n, NEW id, NEW next, NEW level,
         AtInner(g, cap, w, done, id, level), OneInHand(g, FALSE, w, done, n, id, next),
         NEW h, NextUp(h, level)
  PROVE  LevelEnds(g, cap, done, h)
<1> PICK b : b = MaxKey + 1
  OBVIOUS
<1>1. Bound(w) = b
  BY DEF Bound
<1>2. AboveLeaves(g, cap) /\ LevelFits(g, w, done, h)
  BY DEF AtInner, NextUp
<1>3. /\ id \in g.ids /\ g.nodes[id] = n /\ done # <<>> /\ Started(n) /\ AllStarted(g, {id})
  BY DEF OneInHand
<1>4. AllStarted(g, {})
  BY <1>3 DEF AllStarted
<1>8. PairsFit(g, done) /\ \A k \in DOMAIN g.map : done[1][1] <= k
  BY <1>2, <1>3 DEF LevelFits
<1>9. \A j \in 1..Len(done) :
        /\ done[j][2] \in g.ids /\ g.ht[done[j][2]] = h
        /\ g.lo[done[j][2]] = done[j][1] /\ g.hi[done[j][2]] = NextKey(done, j, b)
  BY <1>1, <1>2 DEF LevelFits
<1> QED BY <1>2, <1>3, <1>4, <1>8, <1>9 DEF LevelEnds

\* Its nodes are the children of the next level.
LEMMA NextLevelStep ==
  ASSUME NEW g, NEW cap, NEW done, NEW level, level \in Int, LevelEnds(g, cap, done, level), NEW none, none = <<>>
  PROVE  AtInner(g, cap, done, none, BlockNull, level) /\ NoneInHand(g, done, none, NoNode, BlockNull, NoId)
<1>1. NodesWait(g, done, BlockNull, level)
  BY DEF LevelEnds, NodesWait
<1>2. Len(none) = 0 /\ 1..Len(none) = {}
  BY SMT
<1>3. PairsFit(g, none)
  <2>1. none \in Seq((DOMAIN g.map) \X BlockIds)
    OBVIOUS
  <2> QED BY <1>2, <2>1 DEF PairsFit
<1>4. LevelFits(g, done, none, level + 1)
  <2>1. \A k \in DOMAIN g.map : done[1][1] <= k
    BY DEF LevelEnds
  <2> QED BY <1>2, <1>3, <2>1 DEF LevelFits
<1>5. AtInner(g, cap, done, none, BlockNull, level)
  BY <1>1, <1>4 DEF AtInner, LevelEnds
<1>6. NoneInHand(g, done, none, NoNode, BlockNull, NoId)
  BY DEF NoneInHand, LevelEnds
<1> QED BY <1>5, <1>6

\* One node for all keys is the root.
LEMMA RootStep ==
  ASSUME NEW g, NEW cap, NEW done, NEW level, LevelEnds(g, cap, done, level), Len(done) = 1
  PROVE  TreeStands(g, cap, done[1][2], level)
<1> PICK root, b : root = done[1][2] /\ b = MaxKey + 1
  OBVIOUS
<1>1. 1 \in 1..Len(done)
  BY SMT
<1>2. /\ root \in g.ids /\ g.ht[root] = level /\ g.lo[root] = done[1][1]
      /\ g.hi[root] = NextKey(done, 1, b) /\ \A k \in DOMAIN g.map : done[1][1] <= k
  BY <1>1 DEF LevelEnds
<1>3. NextKey(done, 1, b) = b
  BY DEF NextKey
<1>4. RootFits(g, root, level)
  BY <1>2, <1>3 DEF RootFits
<1> QED BY <1>4 DEF TreeStands, LevelEnds

\* A map that may be loaded.
MapFits(f) == DOMAIN f \subseteq 0..MaxKey /\ \A k \in DOMAIN f : f[k] \in BlockIds

\* A tree without a node.
Bare(g, f, nodes) ==
  /\ g.ids = {} /\ g.map = f /\ g.nodes = nodes /\ DOMAIN nodes = BlockIds
  /\ g.lo = [id \in BlockIds |-> 0] /\ g.hi = g.lo /\ g.ht = g.lo

LEMMA BareExists ==
  ASSUME NEW f, NEW nodes, DOMAIN nodes = BlockIds
  PROVE  \E g : Bare(g, f, nodes)
<1> DEFINE z == [id \in BlockIds |-> 0]
           g == [ids |-> {}, map |-> f, nodes |-> nodes, lo |-> z, hi |-> z, ht |-> z]
<1>1. Bare(g, f, nodes)
  BY DEF Bare
<1> QED BY <1>1

LEMMA BareShape ==
  ASSUME NEW f, MapFits(f), NEW nodes, NEW g, Bare(g, f, nodes)
  PROVE  TreeShape(g)
<1>1. g.lo \in [BlockIds -> Int]
  BY DEF Bare
<1> QED BY <1>1 DEF Bare, MapFits, TreeShape

\* The pairs of a map, in the order of the keys.
PairsInOrder(f, w) ==
  /\ w \in Seq((DOMAIN f) \X BlockIds)
  /\ \A i, j \in 1..Len(w) : i < j => w[i][1] < w[j][1]
  /\ \A j \in 1..Len(w) : w[j][2] = f[w[j][1]] /\ w[j][1] \in DOMAIN f
  /\ \A k \in DOMAIN f : \E j \in 1..Len(w) : w[j][1] = k

LEMMA PairsOf ==
  ASSUME NEW f, MapFits(f)
  PROVE  PairsInOrder(f, Pairs(f))
<1> PICK s, w : s = InOrder(DOMAIN f) /\ w = Pairs(f)
  OBVIOUS
<1>1. DOMAIN f \in SUBSET Int /\ IsFiniteSet(DOMAIN f)
  <2>1. MaxKey \in Int
    BY BlocksAssumption
  <2>2. IsFiniteSet(0..MaxKey)
    BY <2>1, FS_Interval
  <2>3. 0..MaxKey \subseteq Int
    BY <2>1, SMT
  <2> QED BY <2>2, <2>3, FS_Subset DEF MapFits
<1> PICK c : c = Cardinality(DOMAIN f)
  OBVIOUS
<1>2. s \in Seq(DOMAIN f) /\ Len(s) = c /\ ToSet(s) = DOMAIN f /\ \A i, j \in 1..c : i < j => s[i] < s[j]
  BY <1>1, KeysInOrder
<1>3. DOMAIN s = 1..c /\ c \in Nat
  BY <1>2, LenProperties
<1>4. w = [i \in 1..c |-> <<s[i], f[s[i]]>>]
  BY <1>3 DEF Pairs
<1>5. \A i \in 1..c : s[i] \in DOMAIN f /\ f[s[i]] \in BlockIds
  BY <1>2, ElementOfSeq DEF MapFits
<1>6. \A i \in 1..c : w[i] = <<s[i], f[s[i]]>> /\ w[i] \in (DOMAIN f) \X BlockIds
  BY <1>4, <1>5
<1>7. w \in Seq((DOMAIN f) \X BlockIds) /\ Len(w) = c
  <2>1. w \in [1..c -> (DOMAIN f) \X BlockIds]
    BY <1>4, <1>6
  <2>2. w \in Seq((DOMAIN f) \X BlockIds)
    BY <1>3, <2>1, SeqDef
  <2>3. DOMAIN w = 1..Len(w) /\ Len(w) \in Nat /\ DOMAIN w = 1..c
    BY <1>4, <2>2, LenProperties
  <2>4. Len(w) = c
    BY <1>3, <2>3, SMT
  <2> QED BY <2>2, <2>4
<1>8. \A i \in 1..c : w[i][1] = s[i] /\ w[i][2] = f[s[i]]
  BY <1>6
<1>9. \A k \in DOMAIN f : \E j \in 1..c : s[j] = k
  <2>1. \A k \in ToSet(s) : \E j \in DOMAIN s : s[j] = k
    BY DEF ToSet
  <2> QED BY <1>2, <1>3, <2>1
<1>10. \A i, j \in 1..Len(w) : i < j => w[i][1] < w[j][1]
  BY <1>2, <1>7, <1>8
<1>11. \A j \in 1..Len(w) : w[j][2] = f[w[j][1]] /\ w[j][1] \in DOMAIN f
  BY <1>5, <1>7, <1>8
<1>12. \A k \in DOMAIN f : \E j \in 1..Len(w) : w[j][1] = k
  BY <1>7, <1>8, <1>9
<1>13. PairsInOrder(f, w)
  BY <1>7, <1>10, <1>11, <1>12 DEF PairsInOrder
<1> QED BY <1>13

\* Between a key and the next there is no key.
AllAmong(g, w) == \A k \in DOMAIN g.map : \E i \in 1..Len(w) : w[i][1] = k
AloneAt(g, w, j) == Within(g.map, w[j][1], NextKey(w, j, MaxKey + 1)) = {w[j][1]}

LEMMA OnlyKeyWithin ==
  ASSUME NEW g, TreeShape(g), NEW w, PairsFit(g, w), AllAmong(g, w), NEW j, j \in 1..Len(w)
  PROVE  AloneAt(g, w, j)
<1> PICK c, a, b : c = Len(w) /\ a = w[j][1] /\ b = NextKey(w, j, MaxKey + 1)
  OBVIOUS
<1>1. c \in Nat /\ MaxKey \in Nat /\ \A i \in 1..c : w[i][1] \in DOMAIN g.map /\ w[i][1] \in Int /\ w[i][1] <= MaxKey
  BY WaitingFacts, BlocksAssumption
<1>2. a \in DOMAIN g.map /\ a \in Int /\ a <= MaxKey
  BY <1>1
<1>3. a < b
  <2>1. CASE j = c
    BY <1>1, <1>2, <2>1, SMT DEF NextKey
  <2>2. CASE j # c
    <3>1. j + 1 \in 1..c /\ j < j + 1
      BY <1>1, <2>2, SMT
    <3> QED BY <2>2, <3>1 DEF PairsFit, NextKey
  <2> QED BY <2>1, <2>2
<1>4. ASSUME NEW k \in DOMAIN g.map, a <= k, k < b PROVE k = a
  <2>1. PICK i \in 1..c : w[i][1] = k
    BY DEF AllAmong
  <2>2. k \in Int
    BY <1>1, <2>1
  <2>3. i < j => FALSE
    <3>1. i < j => k < a
      BY <2>1 DEF PairsFit
    <3> QED BY <1>2, <1>4, <2>2, <3>1, SMT
  <2>4. j < i => FALSE
    <3> SUFFICES ASSUME j < i PROVE FALSE
      OBVIOUS
    <3>1. j # c /\ j + 1 \in 1..c /\ (j + 1 = i \/ j + 1 < i)
      BY <1>1, <2>1, SMT
    <3>2. b = w[j + 1][1] /\ b \in Int
      BY <1>1, <3>1 DEF NextKey
    <3>3. b = k \/ b < k
      BY <2>1, <3>1, <3>2 DEF PairsFit
    <3> QED BY <1>4, <2>2, <3>2, <3>3, SMT
  <2>5. i = j
    BY <1>1, <2>1, <2>3, <2>4, SMT
  <2> QED BY <2>1, <2>5
<1>5. a \in Within(g.map, a, b)
  BY <1>2, <1>3, SMT DEF Within
<1>6. Within(g.map, a, b) = {a}
  BY <1>4, <1>5 DEF Within
<1> QED BY <1>6 DEF AloneAt
\* bulk_load starts with all pairs, and no node.
LEMMA LoadStarts ==
  ASSUME NEW f, MapFits(f), DOMAIN f # {}, NEW cap, NEW nodes, NEW g, Bare(g, f, nodes),
         NEW w, PairsInOrder(f, w), NEW none, none = <<>>
  PROVE  AtLeaves(g, cap, w, none, BlockNull) /\ NoneInHand(g, w, none, NoNode, BlockNull, NoId)
<1>2. TreeShape(g)
  BY BareShape
<1>3. g.ids = {} /\ g.map = f
  BY DEF Bare
<1>4. PairsFit(g, w)
  BY <1>3 DEF PairsInOrder, PairsFit
<1>5. EntriesWait(g, w)
  <2>1. \A j \in 1..Len(w) : Within(g.map, w[j][1], NextKey(w, j, MaxKey + 1)) = {w[j][1]}
    <3> SUFFICES ASSUME NEW j \in 1..Len(w)
                 PROVE  Within(g.map, w[j][1], NextKey(w, j, MaxKey + 1)) = {w[j][1]}
      OBVIOUS
    <3>1. AllAmong(g, w)
      BY <1>3 DEF PairsInOrder, AllAmong
    <3>2. AloneAt(g, w, j)
      BY <1>2, <1>4, <3>1, OnlyKeyWithin
    <3> QED BY <3>2 DEF AloneAt
  <2>2. \A j \in 1..Len(w) : w[j][2] = g.map[w[j][1]]
    BY <1>3 DEF PairsInOrder
  <2> QED BY <1>4, <2>1, <2>2 DEF EntriesWait
<1>6. w # <<>>
  <2>1. PICK k \in DOMAIN f : \E j \in 1..Len(w) : w[j][1] = k
    BY DEF PairsInOrder
  <2>2. 1..Len(w) # {}
    BY <2>1
  <2>3. 1..0 = {} /\ Len(<<>>) = 0
    BY SMT
  <2> QED BY <2>2, <2>3
<1>7. \A k \in DOMAIN g.map : w[1][1] <= k /\ ~(k < w[1][1])
  <2> SUFFICES ASSUME NEW k \in DOMAIN g.map PROVE w[1][1] <= k /\ ~(k < w[1][1])
    OBVIOUS
  <2>1. PICK j \in 1..Len(w) : w[j][1] = k
    BY <1>3 DEF PairsInOrder
  <2>2. Len(w) \in Nat /\ w[j][1] \in Int
    BY <1>2, <1>4, WaitingFacts
  <2>3. 1 \in 1..Len(w) /\ (j = 1 \/ 1 < j)
    BY <2>2, SMT
  <2>4. w[1][1] \in Int
    BY <1>2, <1>4, <2>3, WaitingFacts
  <2>5. w[1][1] = k \/ w[1][1] < k
    BY <1>4, <2>1, <2>3 DEF PairsFit
  <2> QED BY <2>1, <2>2, <2>4, <2>5, SMT
<1>8. LevelFits(g, w, none, 1)
  <2>1. Len(none) = 0 /\ 1..Len(none) = {}
    BY SMT
  <2>2. none \in Seq((DOMAIN g.map) \X BlockIds)
    OBVIOUS
  <2>3. PairsFit(g, none)
    BY <2>1, <2>2 DEF PairsFit
  <2> QED BY <1>7, <2>1, <2>3 DEF LevelFits
<1>9. LeavesCover(g, Bound(w))
  BY <1>6, <1>7 DEF LeavesCover, Bound
<1>10. AtLeaves(g, cap, w, none, BlockNull)
  BY <1>2, <1>3, <1>5, <1>8, <1>9
     DEF AtLeaves, NodesFit, LeavesInOrder, OnlyLeaves, LinksFit
<1>11. NoneInHand(g, w, none, NoNode, BlockNull, NoId)
  BY <1>3, <1>6 DEF NoneInHand, AllStarted
<1> QED BY <1>10, <1>11

-----------------------------------------------------------------------------
(* lookup in a tree.                                                       *)

\* Where a search in a node ends.
SplitsAt(s, x, n) ==
  /\ n \in 1..Len(s) + 1
  /\ \A i \in 1..Len(s) : i < n => s[i] < x
  /\ \A i \in 1..Len(s) : n <= i => x <= s[i]

LEMMA LowerBoundSplits ==
  ASSUME NEW s, s \in Seq(Int), Rises(s), NEW x, x \in Int
  PROVE  SplitsAt(s, x, LowerBound(s, x))
<1> PICK n : n = LowerBound(s, x)
  OBVIOUS
<1>1. Len(s) \in Nat /\ \A i \in 1..Len(s) : s[i] \in Int
  BY LenProperties, ElementOfSeq
<1>2. AscendsFrom(s, x)
  BY <1>1, SMT DEF AscendsFrom, Rises
<1>3. /\ n \in 1..Len(s) + 1
      /\ \A i \in 1..n - 1 : s[i] < x
      /\ \A i \in n..Len(s) : s[i] >= x
  BY <1>2, LowerBoundIsRight
<1>4. \A i \in 1..Len(s) : i < n => s[i] < x
  BY <1>1, <1>3, SMT
<1>5. \A i \in 1..Len(s) : n <= i => x <= s[i]
  BY <1>1, <1>3, SMT
<1> QED BY <1>3, <1>4, <1>5 DEF SplitsAt

\* The child a key is looked for in: keys left of it are not greater, keys
\* right of it are.
ChildAt(n, x, j) ==
  /\ j \in 1..Len(n.pointers) /\ Child(n, x) = n.pointers[j]
  /\ \A i \in 1..Len(n.keys) : i < j => n.keys[i] <= x
  /\ \A i \in 1..Len(n.keys) : j <= i => x < n.keys[i]

LEMMA ChildIsRight ==
  ASSUME NEW n, Whole(n), Rises(n.keys), NEW x, x \in Int
  PROVE  \E j : ChildAt(n, x, j)
<1> PICK at, m, ks, ps : at = LowerBound(n.keys, x) /\ m = Len(n.keys) /\ ks = n.keys /\ ps = n.pointers
  OBVIOUS
<1>1. /\ ks \in Seq(Int) /\ ps \in Seq(BlockIds) /\ m \in Nat /\ Len(ps) = m + 1 /\ Len(ks) = m
      /\ Rises(ks)
  BY WholeIsStarted
<1>2. SplitsAt(ks, x, at)
  BY <1>1, LowerBoundSplits
<1>3. \A i \in 1..m : ks[i] \in Int
  BY <1>1, ElementOfSeq, LenProperties
<1>4. Last(ps) = ps[m + 1]
  BY <1>1 DEF Last
<1>5. Child(n, x) = IF at > m THEN Last(ps) ELSE IF x >= ks[at] THEN ps[at + 1] ELSE ps[at]
  BY Zenon DEF Child
<1>6. /\ at \in 1..m + 1 /\ \A i \in 1..m : i < at => ks[i] < x
      /\ \A i \in 1..m : at <= i => x <= ks[i]
  BY <1>1, <1>2 DEF SplitsAt
<1>7. \A i, j \in 1..m : i < j => ks[i] < ks[j]
  BY <1>1 DEF Rises
<1>8. CASE at > m
  <2>1. m + 1 \in 1..Len(ps) /\ Child(n, x) = ps[m + 1]
    BY <1>1, <1>4, <1>5, <1>8, SMT
  <2>2. \A i \in 1..m : i < m + 1 => ks[i] <= x
    <3> SUFFICES ASSUME NEW i \in 1..m PROVE ks[i] <= x
      OBVIOUS
    <3>1. i < at /\ ks[i] \in Int
      BY <1>1, <1>3, <1>6, <1>8, SMT
    <3>2. ks[i] < x
      BY <1>6, <3>1
    <3> QED BY <3>1, <3>2, SMT
  <2>3. \A i \in 1..m : m + 1 <= i => x < ks[i]
    BY <1>1, SMT
  <2>4. ChildAt(n, x, m + 1)
    BY <1>1, <2>1, <2>2, <2>3 DEF ChildAt
  <2> QED BY <2>4
<1>9. CASE ~(at > m) /\ x >= ks[at]
  <2>1. at \in 1..m /\ at + 1 \in 1..Len(ps) /\ Child(n, x) = ps[at + 1]
    BY <1>1, <1>5, <1>6, <1>9, SMT
  <2>2. \A i \in 1..m : i < at + 1 => ks[i] <= x
    <3> SUFFICES ASSUME NEW i \in 1..m, i < at + 1 PROVE ks[i] <= x
      OBVIOUS
    <3>1. i < at \/ i = at
      BY <2>1, SMT
    <3>2. ks[i] \in Int /\ ks[at] <= x
      BY <1>3, <1>9, <2>1, SMT
    <3>3. i < at => ks[i] < x
      BY <1>6
    <3> QED BY <3>1, <3>2, <3>3, SMT
  <2>3. \A i \in 1..m : at + 1 <= i => x < ks[i]
    <3> SUFFICES ASSUME NEW i \in 1..m, at + 1 <= i PROVE x < ks[i]
      OBVIOUS
    <3>1. at < i /\ i \in Int
      BY <2>1, SMT
    <3>2. ks[at] < ks[i] /\ x <= ks[at] /\ ks[at] \in Int /\ ks[i] \in Int
      BY <1>3, <1>6, <1>7, <2>1, <3>1
    <3> QED BY <3>2, SMT
  <2>4. ChildAt(n, x, at + 1)
    BY <1>1, <2>1, <2>2, <2>3 DEF ChildAt
  <2> QED BY <2>4
<1>10. CASE ~(at > m) /\ ~(x >= ks[at])
  <2>1. at \in 1..m /\ at \in 1..Len(ps) /\ Child(n, x) = ps[at]
    BY <1>1, <1>5, <1>6, <1>10, SMT
  <2>2. \A i \in 1..m : i < at => ks[i] <= x
    <3> SUFFICES ASSUME NEW i \in 1..m, i < at PROVE ks[i] <= x
      OBVIOUS
    <3>1. ks[i] < x /\ ks[i] \in Int
      BY <1>3, <1>6
    <3> QED BY <3>1, SMT
  <2>3. \A i \in 1..m : at <= i => x < ks[i]
    <3> SUFFICES ASSUME NEW i \in 1..m, at <= i PROVE x < ks[i]
      OBVIOUS
    <3>1. at = i \/ at < i
      BY <2>1, SMT
    <3>2. ks[i] \in Int /\ ks[at] \in Int /\ ~(x >= ks[at])
      BY <1>3, <1>10, <2>1
    <3>3. at < i => ks[at] < ks[i]
      BY <1>7, <2>1
    <3> QED BY <3>1, <3>2, <3>3, SMT
  <2>4. ChildAt(n, x, at)
    BY <1>1, <2>1, <2>2, <2>3 DEF ChildAt
  <2> QED BY <2>4
<1> QED BY <1>8, <1>9, <1>10

\* A key that is in the map is in the subtree of the node.
Reaches(g, id, x) ==
  /\ id \in g.ids /\ x < g.hi[id]
  /\ g.lo[id] <= x \/ \A k \in DOMAIN g.map : g.lo[id] <= k

LEMMA ChildReaches ==
  ASSUME NEW g, NEW cap, TreeShape(g), NodesFit(g, cap), AllStarted(g, {}),
         NEW x, x \in Int, NEW id, Reaches(g, id, x), NEW n, g.nodes[id] = n, ~n.leaf
  PROVE  LET c == Child(n, x)
         IN  Reaches(g, c, x) /\ c < id /\ g.ht[c] = g.ht[id] - 1
<1>1. NodeFits(g, id, cap) /\ Started(n)
  BY DEF Reaches, NodesFit, AllStarted
<1>2. Whole(n)
  BY <1>1 DEF NodeFits, Growing, Started
<1>3. Rises(n.keys) /\ InnerFits(g, id, n.keys, n.pointers)
  BY <1>1 DEF NodeFits
<1>4. PICK j : ChildAt(n, x, j)
  BY <1>2, <1>3, ChildIsRight
<1> PICK c, ks, ps, m : c = Child(n, x) /\ ks = n.keys /\ ps = n.pointers /\ m = Len(n.keys)
  OBVIOUS
<1>5. ks \in Seq(Int) /\ m \in Nat /\ Len(ps) = m + 1 /\ Len(ks) = m /\ ps # <<>>
  BY <1>2, WholeIsStarted DEF Started
<1>6. /\ j \in 1..m + 1 /\ c = ps[j]
      /\ \A i \in 1..m : i < j => ks[i] <= x
      /\ \A i \in 1..m : j <= i => x < ks[i]
  BY <1>4, <1>5 DEF ChildAt
<1>7. ChildFits(g, id, c)
  BY <1>3, <1>5, <1>6 DEF InnerFits
<1>8. c \in g.ids /\ c < id /\ g.ht[c] = g.ht[id] - 1
  BY <1>7 DEF ChildFits
<1>9. /\ \A i \in 1..m : g.hi[ps[i]] = ks[i] /\ g.lo[ps[i + 1]] = ks[i]
      /\ g.lo[ps[1]] = g.lo[id] /\ g.hi[ps[m + 1]] = g.hi[id]
  BY <1>3, <1>5 DEF InnerFits
<1>10. x < g.hi[c]
  <2>1. CASE j = m + 1
    BY <1>6, <1>9, <2>1 DEF Reaches
  <2>2. CASE j # m + 1
    <3>1. j \in 1..m /\ j <= j
      BY <1>5, <1>6, <2>2, SMT
    <3> QED BY <1>6, <1>9, <3>1
  <2> QED BY <2>1, <2>2
<1>11. g.lo[c] <= x \/ \A k \in DOMAIN g.map : g.lo[c] <= k
  <2>1. CASE j = 1
    BY <1>6, <1>9, <2>1 DEF Reaches
  <2>2. CASE j # 1
    <3> PICK i : i = j - 1
      OBVIOUS
    <3>1. i \in 1..m /\ i < j /\ i + 1 = j
      BY <1>5, <1>6, <2>2, SMT
    <3>2. g.lo[ps[i + 1]] = ks[i] /\ ks[i] <= x
      BY <1>6, <1>9, <3>1
    <3> QED BY <1>6, <3>1, <3>2
  <2> QED BY <2>1, <2>2
<1>12. Reaches(g, c, x)
  BY <1>8, <1>10, <1>11 DEF Reaches
<1> QED BY <1>8, <1>12

\* get compares one key of the leaf.
GetFinds(g, n, at, x) ==
  /\ at <= Len(n.keys) /\ n.keys[at] = x <=> x \in DOMAIN g.map
  /\ x \in DOMAIN g.map => n.pointers[at] = g.map[x]

LEMMA GetIsRight ==
  ASSUME NEW g, NEW cap, TreeShape(g), NodesFit(g, cap), AllStarted(g, {}),
         NEW x, x \in Int, NEW id, Reaches(g, id, x), NEW n, g.nodes[id] = n, n.leaf,
         NEW at, at = LowerBound(n.keys, x)
  PROVE  GetFinds(g, n, at, x)
<1>1. NodeFits(g, id, cap) /\ Started(n)
  BY DEF Reaches, NodesFit, AllStarted
<1>2. Whole(n)
  BY <1>1 DEF NodeFits, Growing, Started
<1>3. Rises(n.keys) /\ LeafFits(g, id, n.keys, n.pointers)
  BY <1>1 DEF NodeFits
<1> PICK ks, ps, m : ks = n.keys /\ ps = n.pointers /\ m = Len(n.keys)
  OBVIOUS
<1>4. ks \in Seq(Int) /\ m \in Nat /\ Len(ks) = m /\ DOMAIN ks = 1..m
  BY <1>2, WholeIsStarted, LenProperties
<1>5. SplitsAt(ks, x, at)
  BY <1>3, <1>4, LowerBoundSplits
<1>6. /\ at \in 1..m + 1 /\ \A i \in 1..m : i < at => ks[i] < x
      /\ \A i \in 1..m : at <= i => x <= ks[i]
      /\ \A i, j \in 1..m : i < j => ks[i] < ks[j]
  BY <1>3, <1>4, <1>5 DEF SplitsAt, Rises
<1>7. \A i \in 1..m : ks[i] \in Int
  BY <1>4, ElementOfSeq
<1>8. ToSet(ks) = Within(g.map, g.lo[id], g.hi[id]) /\ \A j \in 1..m : ps[j] = g.map[ks[j]]
  BY <1>3 DEF LeafFits
<1>9. ASSUME at <= m, ks[at] = x PROVE x \in DOMAIN g.map
  <2>1. at \in 1..m
    BY <1>4, <1>6, <1>9, SMT
  <2>2. x \in ToSet(ks)
    BY <1>4, <1>9, <2>1 DEF ToSet
  <2> QED BY <1>8, <2>2 DEF Within
<1>10. ASSUME x \in DOMAIN g.map PROVE at <= m /\ ks[at] = x /\ ps[at] = g.map[x]
  <2>1. g.lo[id] <= x /\ x < g.hi[id]
    BY <1>10 DEF Reaches
  <2>2. x \in ToSet(ks)
    BY <1>8, <1>10, <2>1 DEF Within
  <2>3. PICK j \in 1..m : ks[j] = x
    BY <1>4, <2>2 DEF ToSet
  <2>4. at \in 1..m /\ at <= j
    BY <1>4, <1>6, <2>3, SMT
  <2>5. at = j
    <3>1. CASE at < j
      <4>1. ks[at] < ks[j] /\ x <= ks[at]
        BY <1>6, <2>4, <3>1
      <4> QED BY <1>7, <2>3, <2>4, <4>1, SMT
    <3>2. CASE ~(at < j)
      BY <1>4, <2>4, <3>2, SMT
    <3> QED BY <3>1, <3>2
  <2>6. at <= m
    BY <1>4, <2>4, SMT
  <2> QED BY <1>8, <2>3, <2>4, <2>5, <2>6
<1> QED BY <1>9, <1>10 DEF GetFinds

-----------------------------------------------------------------------------
(* range over the leaves of a tree.                                        *)

\* Pointers found, and the keys they were found for.
Tracks(f, s, ks, S) ==
  /\ ks \in Seq(Int) /\ Rises(ks) /\ ToSet(ks) = S
  /\ s \in Seq(BlockIds) /\ Len(s) = Len(ks)
  /\ \A j \in 1..Len(ks) : s[j] = f[ks[j]]
Gathers(f, s, S) == \E ks : Tracks(f, s, ks, S)

LEMMA NothingGathered ==
  ASSUME NEW f, NEW s, s = <<>>
  PROVE  Gathers(f, s, {})
<1>1. s \in Seq(Int) /\ s \in Seq(BlockIds) /\ Len(s) = 0
  BY SMT
<1>2. Rises(s) /\ ToSet(s) = {}
  BY <1>1, SMT DEF Rises, ToSet
<1>3. Tracks(f, s, s, {})
  BY <1>1, <1>2, SMT DEF Tracks
<1> QED BY <1>3 DEF Gathers

LEMMA ConcatSet ==
  ASSUME NEW A, NEW s, s \in Seq(A), NEW t, t \in Seq(A)
  PROVE  ToSet(s \o t) = ToSet(s) \cup ToSet(t)
<1> PICK m, n, u : m = Len(s) /\ n = Len(t) /\ u = s \o t
  OBVIOUS
<1>1. /\ m \in Nat /\ n \in Nat /\ DOMAIN s = 1..m /\ DOMAIN t = 1..n
  BY LenProperties
<1>2. /\ u \in Seq(A) /\ Len(u) = m + n
      /\ \A i \in 1..m + n : u[i] = IF i <= m THEN s[i] ELSE t[i - m]
  BY ConcatProperties
<1>3. DOMAIN u = 1..m + n
  BY <1>2, LenProperties
<1>4. ASSUME NEW i \in DOMAIN u PROVE u[i] \in ToSet(s) \cup ToSet(t)
  <2>1. CASE i <= m
    <3>1. i \in DOMAIN s
      BY <1>1, <1>3, <2>1, SMT
    <3> QED BY <1>2, <1>3, <2>1, <3>1 DEF ToSet
  <2>2. CASE ~(i <= m)
    <3>1. i - m \in DOMAIN t
      BY <1>1, <1>3, <2>2, SMT
    <3> QED BY <1>2, <1>3, <2>2, <3>1 DEF ToSet
  <2> QED BY <2>1, <2>2
<1>5. ASSUME NEW i \in DOMAIN s PROVE s[i] \in ToSet(u)
  <2>1. i \in DOMAIN u /\ i <= m
    BY <1>1, <1>3, SMT
  <2> QED BY <1>2, <1>3, <2>1 DEF ToSet
<1>6. ASSUME NEW i \in DOMAIN t PROVE t[i] \in ToSet(u)
  <2>1. m + i \in DOMAIN u /\ ~(m + i <= m) /\ (m + i) - m = i
    BY <1>1, <1>3, SMT
  <2>2. u[m + i] = t[i]
    BY <1>2, <1>3, <2>1
  <2> QED BY <2>1, <2>2 DEF ToSet
<1>7. ASSUME NEW x \in ToSet(u) PROVE x \in ToSet(s) \cup ToSet(t)
  <2>1. PICK i \in DOMAIN u : u[i] = x
    BY DEF ToSet
  <2> QED BY <1>4, <2>1
<1>8. ASSUME NEW x \in ToSet(s) PROVE x \in ToSet(u)
  <2>1. PICK i \in DOMAIN s : s[i] = x
    BY DEF ToSet
  <2> QED BY <1>5, <2>1
<1>9. ASSUME NEW x \in ToSet(t) PROVE x \in ToSet(u)
  <2>1. PICK i \in DOMAIN t : t[i] = x
    BY DEF ToSet
  <2> QED BY <1>6, <2>1
<1> QED BY <1>7, <1>8, <1>9

LEMMA TracksOn ==
  ASSUME NEW f, NEW s, NEW ks, NEW S, Tracks(f, s, ks, S), NEW t, NEW ls, NEW T, Tracks(f, t, ls, T),
         \A a \in S, b \in T : a < b
  PROVE  Tracks(f, s \o t, ks \o ls, S \cup T)
<1> PICK m, n, us, u : m = Len(ks) /\ n = Len(ls) /\ us = ks \o ls /\ u = s \o t
  OBVIOUS
<1>1. /\ ks \in Seq(Int) /\ ls \in Seq(Int) /\ s \in Seq(BlockIds) /\ t \in Seq(BlockIds)
      /\ Len(s) = m /\ Len(t) = n /\ m \in Nat /\ n \in Nat
  BY LenProperties DEF Tracks
<1>2. /\ us \in Seq(Int) /\ Len(us) = m + n
      /\ \A i \in 1..m + n : us[i] = IF i <= m THEN ks[i] ELSE ls[i - m]
  BY <1>1, ConcatProperties
<1>3. /\ u \in Seq(BlockIds) /\ Len(u) = m + n
      /\ \A i \in 1..m + n : u[i] = IF i <= m THEN s[i] ELSE t[i - m]
  <2>1. /\ s \o t \in Seq(BlockIds) /\ Len(s \o t) = Len(s) + Len(t)
        /\ \A i \in 1..Len(s) + Len(t) : (s \o t)[i] = IF i <= Len(s) THEN s[i] ELSE t[i - Len(s)]
    BY <1>1, ConcatProperties
  <2> QED BY <1>1, <2>1
<1>4. ToSet(us) = S \cup T
  BY <1>1, ConcatSet, Zenon DEF Tracks
<1>5. /\ \A i, j \in 1..m : i < j => ks[i] < ks[j]
      /\ \A i, j \in 1..n : i < j => ls[i] < ls[j]
      /\ \A j \in 1..m : s[j] = f[ks[j]]
      /\ \A j \in 1..n : t[j] = f[ls[j]]
  BY DEF Tracks, Rises
<1>6. (\A i \in 1..m : ks[i] \in S) /\ (\A i \in 1..n : ls[i] \in T)
  <2>1. DOMAIN ks = 1..m /\ DOMAIN ls = 1..n
    BY <1>1, LenProperties
  <2>2. ToSet(ks) = S /\ ToSet(ls) = T
    BY DEF Tracks
  <2> QED BY <2>1, <2>2 DEF ToSet
<1>7. ASSUME NEW i \in 1..m + n PROVE u[i] = f[us[i]]
  <2>1. CASE i <= m
    <3>1. i \in 1..m
      BY <1>1, <2>1, SMT
    <3> QED BY <1>2, <1>3, <1>5, <2>1, <3>1
  <2>2. CASE ~(i <= m)
    <3>1. i - m \in 1..n
      BY <1>1, <2>2, SMT
    <3> QED BY <1>2, <1>3, <1>5, <2>2, <3>1
  <2> QED BY <2>1, <2>2
<1>8. ASSUME NEW i \in 1..m + n, NEW j \in 1..m + n, i < j PROVE us[i] < us[j]
  <2>1. CASE j <= m
    <3>1. i \in 1..m /\ j \in 1..m /\ i <= m
      BY <1>1, <1>8, <2>1, SMT
    <3> QED BY <1>2, <1>5, <1>8, <2>1, <3>1
  <2>2. CASE i <= m /\ ~(j <= m)
    <3>1. i \in 1..m /\ j - m \in 1..n
      BY <1>1, <2>2, SMT
    <3>2. ks[i] < ls[j - m]
      BY <1>6, <3>1
    <3> QED BY <1>2, <2>2, <3>2
  <2>3. CASE ~(i <= m)
    <3>1. i - m \in 1..n /\ j - m \in 1..n /\ i - m < j - m /\ ~(j <= m)
      BY <1>1, <1>8, <2>3, SMT
    <3>2. ls[i - m] < ls[j - m]
      BY <1>5, <3>1
    <3> QED BY <1>2, <2>3, <3>1, <3>2
  <2> QED BY <2>1, <2>2, <2>3
<1>9. Rises(us)
  BY <1>2, <1>8 DEF Rises
<1>10. \A j \in 1..Len(us) : u[j] = f[us[j]]
  BY <1>2, <1>7
<1> QED BY <1>2, <1>3, <1>4, <1>9, <1>10 DEF Tracks

Part(s, from, last) == {s[i] : i \in from..last}

LEMMA PartTracks ==
  ASSUME NEW f, NEW ks, ks \in Seq(Int), Rises(ks), NEW ps, ps \in Seq(BlockIds), Len(ps) = Len(ks) + 1,
         \A j \in 1..Len(ks) : ps[j] = f[ks[j]],
         NEW from, from \in 1..Len(ks) + 1, NEW last, last \in (from - 1)..Len(ks)
  PROVE  Tracks(f, SubSeq(ps, from, last), SubSeq(ks, from, last), Part(ks, from, last))
<1> PICK m, us, u : m = Len(ks) /\ us = SubSeq(ks, from, last) /\ u = SubSeq(ps, from, last)
  OBVIOUS
<1>1. m \in Nat /\ from \in Nat /\ from >= 1 /\ last \in Int /\ last <= m /\ last >= from - 1
  <2>1. m \in Nat
    BY LenProperties
  <2> QED BY <2>1, SMT
<1>2. /\ us \in Seq(Int) /\ Len(us) = last - from + 1
      /\ \A i \in 1..last - from + 1 : us[i] = ks[from + i - 1]
  BY <1>1, SMT
<1>3. /\ u \in Seq(BlockIds) /\ Len(u) = last - from + 1
      /\ \A i \in 1..last - from + 1 : u[i] = ps[from + i - 1]
  BY <1>1, SMT
<1>4. DOMAIN us = 1..last - from + 1
  BY <1>2, LenProperties
<1>5. \A i \in 1..last - from + 1 : from + i - 1 \in 1..m /\ from + i - 1 \in from..last
  BY <1>1, SMT
<1>6. Rises(us)
  <2> SUFFICES ASSUME NEW i \in 1..last - from + 1, NEW j \in 1..last - from + 1, i < j
               PROVE  us[i] < us[j]
    BY <1>2 DEF Rises
  <2>1. from + i - 1 < from + j - 1
    BY <1>1, SMT
  <2>2. ks[from + i - 1] < ks[from + j - 1]
    BY <1>5, <2>1 DEF Rises
  <2> QED BY <1>2, <2>2
<1>7. ToSet(us) = Part(ks, from, last)
  <2>1. ASSUME NEW i \in from..last PROVE ks[i] \in ToSet(us)
    <3>1. i - from + 1 \in DOMAIN us /\ from + (i - from + 1) - 1 = i
      BY <1>1, <1>4, SMT
    <3>2. us[i - from + 1] = ks[i]
      BY <1>2, <1>4, <3>1
    <3> QED BY <3>1, <3>2 DEF ToSet
  <2>2. ASSUME NEW i \in DOMAIN us PROVE us[i] \in {ks[j] : j \in from..last}
    BY <1>2, <1>4, <1>5
  <2> QED BY <2>1, <2>2 DEF ToSet, Part
<1>8. \A j \in 1..Len(us) : u[j] = f[us[j]]
  <2> SUFFICES ASSUME NEW i \in 1..last - from + 1 PROVE u[i] = f[us[i]]
    BY <1>2
  <2>1. u[i] = ps[from + i - 1] /\ us[i] = ks[from + i - 1]
    BY <1>2, <1>3, Zenon
  <2>2. PICK j : j = from + i - 1
    OBVIOUS
  <2>3. j \in 1..Len(ks)
    BY <1>1, <2>2, SMT
  <2> QED BY <2>1, <2>2, <2>3, Zenon
<1> QED BY <1>2, <1>3, <1>6, <1>7, <1>8 DEF Tracks

\* The last place of a leaf that range takes.
TakenUpTo(n, from, last) ==
  /\ last \in (from - 1)..Len(n.keys) /\ Taken(n, from) = from..last
  /\ \A i \in from..last : n.keys[i] <= call.end
  /\ last < Len(n.keys) => call.end < n.keys[last + 1]

LEMMA TakenIs ==
  ASSUME NEW n, Whole(n), NEW from, from \in 1..Len(n.keys) + 1, call.end \in Int
  PROVE  \E last : TakenUpTo(n, from, last)
<1> PICK ks, m, e : ks = n.keys /\ m = Len(n.keys) /\ e = call.end
  OBVIOUS
<1>1. ks \in Seq(Int) /\ m \in Nat /\ Len(ks) = m /\ from \in Nat /\ from >= 1 /\ from <= m + 1
  <2>1. ks \in Seq(Int) /\ m \in Nat
    BY WholeIsStarted, LenProperties
  <2> QED BY <2>1, SMT
<1>2. \A i \in 1..m : ks[i] \in Int
  BY <1>1, LenProperties, ElementOfSeq
<1> DEFINE T == {i \in from..m + 1 : i = m + 1 \/ ~(ks[i] <= e)}
<1>3. T \subseteq Nat /\ T # {}
  <2>1. m + 1 \in from..m + 1 /\ from..m + 1 \subseteq Nat
    BY <1>1, SMT
  <2> QED BY <2>1
<1>4. PICK p \in T : \A i \in T : p <= i
  BY <1>3, LeastNat
<1>5. p \in from..m + 1 /\ (p = m + 1 \/ ~(ks[p] <= e)) /\ p \in Int
  BY <1>1, <1>4, SMT
<1>6. \A i \in from..m + 1 : i < p => i \in 1..m /\ ks[i] <= e
  <2> SUFFICES ASSUME NEW i \in from..m + 1, i < p PROVE i \in 1..m /\ ks[i] <= e
    OBVIOUS
  <2>1. ~(p <= i) /\ i \in 1..m
    BY <1>1, <1>5, SMT
  <2> QED BY <1>4, <2>1
<1> HIDE DEF T
<1> PICK last : last = p - 1
  OBVIOUS
<1>7. last \in (from - 1)..m /\ last \in Int /\ last + 1 = p
  BY <1>1, <1>5, SMT
<1>8. \A i \in from..last : i \in from..m + 1 /\ i < p
  BY <1>1, <1>7, SMT
<1>9. \A i \in from..last : ks[i] <= e
  BY <1>6, <1>8
<1>10. last < m => e < ks[last + 1]
  <2> SUFFICES ASSUME last < m PROVE e < ks[p]
    BY <1>7
  <2>1. p # m + 1 /\ p \in 1..m
    BY <1>1, <1>5, <1>7, SMT
  <2>2. ~(ks[p] <= e) /\ ks[p] \in Int
    BY <1>2, <1>5, <2>1
  <2> QED BY <2>2, SMT
<1>11. Taken(n, from) = {i \in from..m : \A j \in from..i : ks[j] <= e}
  BY DEF Taken
<1>12. ASSUME NEW i, i \in Taken(n, from) PROVE i \in from..last
  <2>1. i \in from..m /\ \A j \in from..i : ks[j] <= e
    BY <1>11, <1>12
  <2>2. CASE p <= i
    <3>1. p \in from..i /\ p # m + 1
      BY <1>1, <1>5, <2>1, <2>2, SMT
    <3> QED BY <1>5, <2>1, <3>1
  <2>3. CASE ~(p <= i)
    BY <1>1, <1>5, <1>7, <2>1, <2>3, SMT
  <2> QED BY <2>2, <2>3
<1>13. ASSUME NEW i, i \in from..last PROVE i \in Taken(n, from)
  <2>1. i \in from..m /\ \A j \in from..i : j \in from..last
    BY <1>1, <1>7, <1>13, SMT
  <2>2. \A j \in from..i : ks[j] <= e
    BY <1>9, <2>1
  <2> QED BY <1>11, <2>1, <2>2
<1>14. Taken(n, from) = from..last
  BY <1>12, <1>13
<1>15. TakenUpTo(n, from, last)
  BY <1>7, <1>9, <1>10, <1>14 DEF TakenUpTo
<1> QED BY <1>15

\* What the loop over a leaf does.
Collects(n, from, last) ==
  /\ found' = found \o SubSeq(n.pointers, from, last)
  /\ IF last = Len(n.keys) /\ from <= last /\ Last(n.pointers) # BlockNull
     THEN phase' = "range" /\ cursor' = Last(n.pointers)
     ELSE phase' = "returned" /\ cursor' = cursor

LEMMA RangeLeafIs ==
  ASSUME NEW n, Whole(n), NEW from, from \in 1..Len(n.keys) + 1, NEW last, TakenUpTo(n, from, last),
         RangeLeaf(n, from)
  PROVE  Collects(n, from, last)
<1> PICK m, taken, c : m = Len(n.keys) /\ taken = Taken(n, from) /\ c = Cardinality(Taken(n, from))
  OBVIOUS
<1>1. m \in Nat /\ from \in Int /\ last \in (from - 1)..m /\ taken = from..last /\ last \in Int
  <2>1. m \in Nat
    BY WholeIsStarted
  <2>2. last \in (from - 1)..m /\ taken = from..last
    BY DEF TakenUpTo
  <2> QED BY <2>1, <2>2, SMT
<1>2. c = last - from + 1
  <2>1. Cardinality(from..last) = IF from > last THEN 0 ELSE last - from + 1
    BY <1>1, FS_Interval
  <2>2. c = Cardinality(from..last)
    BY <1>1
  <2> QED BY <1>1, <2>1, <2>2, SMT
<1>3. from + c - 1 = last
  BY <1>1, <1>2, SMT
<1>4. m \in taken <=> last = m /\ from <= last
  BY <1>1, SMT
<1>5. found' = found \o SubSeq(n.pointers, from, from + c - 1)
  BY Zenon DEF RangeLeaf
<1>6. /\ phase' = IF m \in taken /\ Last(n.pointers) # BlockNull THEN "range" ELSE "returned"
      /\ cursor' = IF m \in taken /\ Last(n.pointers) # BlockNull THEN Last(n.pointers) ELSE cursor
  BY Zenon DEF RangeLeaf
<1>7. found' = found \o SubSeq(n.pointers, from, last)
  BY <1>3, <1>5
<1> QED BY <1>4, <1>6, <1>7 DEF Collects

\* Two rising sequences of the same values are the same.
LEMMA RisingIsOnly ==
  ASSUME NEW s, s \in Seq(Int), Rises(s), NEW t, t \in Seq(Int), Rises(t), ToSet(s) = ToSet(t)
  PROVE  Len(s) <= Len(t) /\ \A i \in 1..Len(s) : s[i] = t[i]
<1> PICK m, n : m = Len(s) /\ n = Len(t)
  OBVIOUS
<1>1. m \in Nat /\ n \in Nat /\ DOMAIN s = 1..m /\ DOMAIN t = 1..n
  BY LenProperties
<1>2. /\ \A i, j \in 1..m : i < j => s[i] < s[j]
      /\ \A i, j \in 1..n : i < j => t[i] < t[j]
  BY DEF Rises
<1>3. (\A i \in 1..m : s[i] \in Int) /\ (\A i \in 1..n : t[i] \in Int)
  BY <1>1, ElementOfSeq
<1>4. (\A i \in 1..m : \E j \in 1..n : t[j] = s[i]) /\ (\A i \in 1..n : \E j \in 1..m : s[j] = t[i])
  BY <1>1 DEF ToSet
<1> DEFINE T == {i \in 1..m : ~(i \in 1..n /\ s[i] = t[i])}
<1>5. T = {}
  <2> SUFFICES ASSUME T # {} PROVE FALSE
    OBVIOUS
  <2>1. T \subseteq Nat
    BY SMT
  <2>2. PICK p \in T : \A i \in T : p <= i
    BY <2>1, LeastNat
  <2>3. p \in 1..m /\ ~(p \in 1..n /\ s[p] = t[p])
    BY <2>2
  <2>4. \A i \in 1..m : i < p => i \in 1..n /\ s[i] = t[i]
    <3> SUFFICES ASSUME NEW i \in 1..m, i < p PROVE i \in 1..n /\ s[i] = t[i]
      OBVIOUS
    <3>1. ~(p <= i)
      BY <2>3, SMT
    <3> QED BY <2>2, <3>1
  <2> HIDE DEF T
  <2>5. PICK j \in 1..n : t[j] = s[p]
    BY <1>4, <2>3
  <2>6. CASE j < p
    <3>1. j \in 1..m
      BY <1>1, <2>3, <2>6, SMT
    <3>2. s[j] = t[j] /\ s[j] < s[p] /\ s[j] \in Int
      BY <1>2, <1>3, <2>3, <2>4, <2>6, <3>1
    <3> QED BY <2>5, <3>2, SMT
  <2>7. CASE j = p
    BY <2>3, <2>5, <2>7
  <2>8. CASE p < j
    <3>1. p \in 1..n
      BY <1>1, <2>3, <2>8, SMT
    <3>2. t[p] < t[j]
      BY <1>2, <2>8, <3>1
    <3>3. PICK i \in 1..m : s[i] = t[p]
      BY <1>4, <3>1
    <3>4. CASE i < p
      <4>1. i \in 1..n /\ s[i] = t[i]
        BY <2>4, <3>4
      <4>2. t[i] < t[p] /\ t[i] \in Int
        BY <1>2, <1>3, <3>1, <3>4, <4>1
      <4> QED BY <3>3, <4>1, <4>2, SMT
    <3>5. CASE i = p
      BY <2>3, <3>1, <3>3, <3>5
    <3>6. CASE p < i
      <4>1. s[p] < s[i] /\ s[p] \in Int /\ s[i] \in Int
        BY <1>2, <1>3, <2>3, <3>6
      <4> QED BY <2>5, <3>2, <3>3, <4>1, SMT
    <3>7. i < p \/ i = p \/ p < i
      BY <1>1, <2>3, SMT
    <3> QED BY <3>4, <3>5, <3>6, <3>7
  <2>9. j < p \/ j = p \/ p < j
    BY <1>1, <2>3, SMT
  <2> QED BY <2>6, <2>7, <2>8, <2>9
<1>6. \A i \in 1..m : i \in 1..n /\ s[i] = t[i]
  BY <1>5
<1>7. m <= n
  <2>1. CASE m = 0
    BY <1>1, <2>1, SMT
  <2>2. CASE m # 0
    <3>1. m \in 1..m
      BY <1>1, <2>2, SMT
    <3>2. m \in 1..n
      BY <1>6, <3>1
    <3> QED BY <1>1, <3>2, SMT
  <2> QED BY <2>1, <2>2
<1> QED BY <1>6, <1>7

LEMMA OneRisingSequence ==
  ASSUME NEW s, s \in Seq(Int), Rises(s), NEW t, t \in Seq(Int), Rises(t), ToSet(s) = ToSet(t)
  PROVE  s = t
<1>1. Len(s) <= Len(t) /\ \A i \in 1..Len(s) : s[i] = t[i]
  BY RisingIsOnly
<1>2. Len(t) <= Len(s)
  BY RisingIsOnly
<1>3. Len(s) \in Nat /\ Len(t) \in Nat
  BY LenProperties
<1>4. Len(s) = Len(t)
  BY <1>1, <1>2, <1>3, SMT
<1> QED BY <1>1, <1>4, SeqEqual

AllTo(f, a, e) == {k \in DOMAIN f : a <= k /\ k <= e}
AllUpTo(S, e)  == \A k \in S : k <= e

\* The keys of a leaf from a place on are those from b on.
Rest(g, id, ks, from, b) ==
  /\ from \in 1..Len(ks) /\ b \in Int /\ b < g.hi[id]
  /\ {ks[i] : i \in from..Len(ks)} = Within(g.map, b, g.hi[id])

\* range has all from a to the leaf it reads next, none of them above e.
Ahead(g, s, a, e, p) ==
  /\ p \in g.ids /\ g.nodes[p].leaf /\ a < g.lo[p]
  /\ Gathers(g.map, s, Within(g.map, a, g.lo[p])) /\ AllUpTo(Within(g.map, a, g.lo[p]), e)

LEMMA LeafFacts ==
  ASSUME NEW g, NEW cap, TreeShape(g), NodesFit(g, cap), AllStarted(g, {}),
         NEW id, id \in g.ids, NEW n, g.nodes[id] = n, n.leaf
  PROVE  /\ Whole(n) /\ Rises(n.keys) /\ g.lo[id] < g.hi[id] /\ g.lo[id] \in DOMAIN g.map
         /\ ToSet(n.keys) = Within(g.map, g.lo[id], g.hi[id])
         /\ \A j \in 1..Len(n.keys) : n.pointers[j] = g.map[n.keys[j]]
         /\ g.hi[id] <= MaxKey + 1
<1>1. NodeFits(g, id, cap) /\ Started(n)
  BY DEF NodesFit, AllStarted
<1>2. Whole(n) /\ SpanFits(g, id)
  BY <1>1 DEF NodeFits, Growing, Started
<1>3. Rises(n.keys) /\ LeafFits(g, id, n.keys, n.pointers)
  BY <1>1 DEF NodeFits
<1> QED BY <1>1, <1>2, <1>3 DEF LeafFits, SpanFits

LEMMA RestFromStart ==
  ASSUME NEW g, NEW cap, TreeShape(g), NodesFit(g, cap), AllStarted(g, {}),
         NEW id, id \in g.ids, NEW n, g.nodes[id] = n, n.leaf
  PROVE  Rest(g, id, n.keys, 1, g.lo[id])
<1> PICK ks, m : ks = n.keys /\ m = Len(n.keys)
  OBVIOUS
<1>1. /\ Whole(n) /\ g.lo[id] < g.hi[id] /\ g.lo[id] \in DOMAIN g.map
      /\ ToSet(ks) = Within(g.map, g.lo[id], g.hi[id])
  BY LeafFacts
<1>2. ks \in Seq(Int) /\ m \in Nat /\ DOMAIN ks = 1..m /\ g.lo[id] \in Int
  BY <1>1, WholeIsStarted, LenProperties, ShapeFacts
<1>3. g.lo[id] \in ToSet(ks)
  BY <1>1, <1>2 DEF Within
<1>4. PICK i \in 1..m : ks[i] = g.lo[id]
  BY <1>2, <1>3 DEF ToSet
<1>5. 1 \in 1..m
  BY <1>2, <1>4, SMT
<1>6. {ks[j] : j \in 1..m} = Within(g.map, g.lo[id], g.hi[id])
  BY <1>1, <1>2 DEF ToSet
<1> QED BY <1>1, <1>2, <1>5, <1>6 DEF Rest

LEMMA RestFromPlace ==
  ASSUME NEW g, NEW cap, TreeShape(g), NodesFit(g, cap), AllStarted(g, {}),
         NEW x, x \in Int, NEW id, Reaches(g, id, x), NEW n, g.nodes[id] = n, n.leaf,
         NEW at, at = LowerBound(n.keys, x)
  PROVE  /\ at \in 1..Len(n.keys) + 1
         /\ at <= Len(n.keys) => Rest(g, id, n.keys, at, x)
         /\ x \in DOMAIN g.map \/ (\A k \in DOMAIN g.map : x < k) => at <= Len(n.keys)
<1> PICK ks, m : ks = n.keys /\ m = Len(n.keys)
  OBVIOUS
<1>1. /\ id \in g.ids /\ x < g.hi[id]
      /\ g.lo[id] <= x \/ \A k \in DOMAIN g.map : g.lo[id] <= k
  BY DEF Reaches
<1>2. /\ Whole(n) /\ Rises(ks) /\ ToSet(ks) = Within(g.map, g.lo[id], g.hi[id])
      /\ g.lo[id] < g.hi[id] /\ g.lo[id] \in DOMAIN g.map
  BY <1>1, LeafFacts
<1>3. ks \in Seq(Int) /\ m \in Nat /\ Len(ks) = m /\ DOMAIN ks = 1..m
  BY <1>2, WholeIsStarted, LenProperties
<1>4. SplitsAt(ks, x, at)
  BY <1>2, <1>3, LowerBoundSplits
<1>5. /\ at \in 1..m + 1 /\ \A i \in 1..m : i < at => ks[i] < x
      /\ \A i \in 1..m : at <= i => x <= ks[i]
  BY <1>3, <1>4 DEF SplitsAt
<1>6. \A i \in 1..m : ks[i] \in Int
  BY <1>3, ElementOfSeq
<1>7. \A k \in DOMAIN g.map : k \in Int
  BY ShapeFacts
<1>8. ASSUME NEW i \in 1..m, at <= i PROVE ks[i] \in Within(g.map, x, g.hi[id])
  <2>1. ks[i] \in ToSet(ks) /\ x <= ks[i]
    BY <1>3, <1>5, <1>8 DEF ToSet
  <2> QED BY <1>2, <2>1 DEF Within
<1>9. ASSUME NEW k, k \in Within(g.map, x, g.hi[id]) PROVE \E i \in at..m : ks[i] = k
  <2>1. k \in DOMAIN g.map /\ x <= k /\ k < g.hi[id] /\ k \in Int
    BY <1>7, <1>9 DEF Within
  <2>2. g.lo[id] <= k
    <3>1. g.lo[id] \in Int
      BY <1>2, <1>7
    <3> QED BY <1>1, <2>1, <3>1, SMT
  <2>3. k \in ToSet(ks)
    BY <1>2, <2>1, <2>2 DEF Within
  <2>4. PICK i \in 1..m : ks[i] = k
    BY <1>3, <2>3 DEF ToSet
  <2>5. ~(i < at)
    <3>1. i < at => ks[i] < x
      BY <1>5
    <3> QED BY <2>1, <2>4, <3>1, SMT
  <2>6. i \in at..m
    BY <1>3, <1>5, <2>5, SMT
  <2> QED BY <2>4, <2>6
<1>10. \A i \in at..m : i \in 1..m /\ at <= i
  BY <1>3, <1>5, SMT
<1>11. {ks[i] : i \in at..m} = Within(g.map, x, g.hi[id])
  BY <1>8, <1>9, <1>10
<1>12. at <= m => Rest(g, id, ks, at, x)
  <2>1. at <= m => at \in 1..m
    BY <1>3, <1>5, SMT
  <2> QED BY <1>1, <1>11, <2>1 DEF Rest
<1>13. ASSUME x \in DOMAIN g.map \/ (\A k \in DOMAIN g.map : x < k) PROVE at <= m
  <2>1. CASE x \in DOMAIN g.map
    <3>1. x <= x
      BY SMT
    <3>2. x \in Within(g.map, x, g.hi[id])
      BY <1>1, <2>1, <3>1 DEF Within
    <3>3. \E i \in at..m : TRUE
      BY <1>9, <3>2
    <3> QED BY <1>3, <1>5, <3>3, SMT
  <2>2. CASE \A k \in DOMAIN g.map : x < k
    <3>1. x < g.lo[id] /\ g.lo[id] \in Int
      BY <1>2, <1>7, <2>2
    <3>2. x <= g.lo[id]
      BY <3>1, SMT
    <3>3. g.lo[id] \in Within(g.map, x, g.hi[id])
      BY <1>2, <3>2 DEF Within
    <3>4. \E i \in at..m : TRUE
      BY <1>9, <3>3
    <3> QED BY <1>3, <1>5, <3>4, SMT
  <2> QED BY <1>13, <2>1, <2>2
<1> QED BY <1>5, <1>12, <1>13

\* One leaf of range: all of it and on to the next leaf, or all that is left.
LEMMA RangeStep ==
  ASSUME NEW g, NEW cap, TreeShape(g), NodesFit(g, cap), AllStarted(g, {}), LinksFit(g, NoId),
         NEW id, id \in g.ids, NEW n, g.nodes[id] = n, n.leaf, call.end \in Int,
         NEW from, NEW b, Rest(g, id, n.keys, from, b), NEW a, a \in Int, a <= b,
         NEW last, TakenUpTo(n, from, last),
         NEW s, Gathers(g.map, s, Within(g.map, a, b)), AllUpTo(Within(g.map, a, b), call.end)
  PROVE  IF last = Len(n.keys) /\ from <= last /\ Last(n.pointers) # BlockNull
         THEN Ahead(g, s \o SubSeq(n.pointers, from, last), a, call.end, Last(n.pointers))
         ELSE Gathers(g.map, s \o SubSeq(n.pointers, from, last), AllTo(g.map, a, call.end))
<1> PICK ks, ps, m, e, p : /\ ks = n.keys /\ ps = n.pointers /\ m = Len(n.keys) /\ e = call.end
                           /\ p = Last(n.pointers)
  OBVIOUS
<1>1. /\ Whole(n) /\ Rises(ks) /\ \A j \in 1..m : ps[j] = g.map[ks[j]]
      /\ g.hi[id] <= MaxKey + 1
  BY LeafFacts
<1>2. /\ ks \in Seq(Int) /\ ps \in Seq(BlockIds) /\ Len(ps) = m + 1 /\ m \in Nat /\ Len(ks) = m
  BY <1>1, WholeIsStarted
<1>3. \A i \in 1..m : ks[i] \in Int
  BY <1>2, LenProperties, ElementOfSeq
<1>4. /\ from \in 1..m /\ b \in Int /\ b < g.hi[id]
      /\ {ks[i] : i \in from..m} = Within(g.map, b, g.hi[id])
  BY DEF Rest
<1>5. /\ last \in (from - 1)..m /\ \A i \in from..last : ks[i] <= e
      /\ last < m => e < ks[last + 1]
  BY DEF TakenUpTo
<1>6. /\ g.hi[id] \in Int /\ \A k \in DOMAIN g.map : k \in Int /\ k <= MaxKey
      /\ MaxKey \in Nat /\ e \in Int
  BY ShapeFacts
<1> PICK T, S, W : T = {ks[i] : i \in from..last} /\ S = Within(g.map, a, b) /\ W = Within(g.map, b, g.hi[id])
  OBVIOUS
<1>7. Tracks(g.map, SubSeq(ps, from, last), SubSeq(ks, from, last), T)
  <2>1. from \in 1..m + 1
    BY <1>2, <1>4, SMT
  <2>2. /\ Len(ps) = Len(ks) + 1 /\ from \in 1..Len(ks) + 1 /\ last \in (from - 1)..Len(ks)
        /\ \A j \in 1..Len(ks) : ps[j] = g.map[ks[j]]
    BY <1>1, <1>2, <1>5, <2>1
  <2>3. ks \in Seq(Int) /\ Rises(ks) /\ ps \in Seq(BlockIds)
    BY <1>1, <1>2
  <2>4. Tracks(g.map, SubSeq(ps, from, last), SubSeq(ks, from, last), Part(ks, from, last))
    BY ONLY <2>2, <2>3, PartTracks
  <2> QED BY <2>4 DEF Part
<1>8. \A i \in from..last : i \in from..m /\ i \in 1..m
  BY <1>2, <1>4, <1>5, SMT
<1>9. \A k \in T : k \in W /\ k <= e
  BY <1>4, <1>5, <1>8
<1>10. PICK ls : Tracks(g.map, s, ls, S)
  BY DEF Gathers
<1>11. \A x \in S, y \in T : x < y
  <2> SUFFICES ASSUME NEW x \in S, NEW y \in T PROVE x < y
    OBVIOUS
  <2>1. x \in DOMAIN g.map /\ x < b /\ y \in DOMAIN g.map /\ b <= y
    BY <1>9 DEF Within
  <2>2. x \in Int /\ y \in Int
    BY <1>6, <2>1
  <2> QED BY <1>4, <2>1, <2>2, SMT
<1> PICK t : t = s \o SubSeq(ps, from, last)
  OBVIOUS
<1>12. Gathers(g.map, t, S \cup T)
  <2>1. Tracks(g.map, t, ls \o SubSeq(ks, from, last), S \cup T)
    BY <1>7, <1>10, <1>11, TracksOn
  <2> QED BY <2>1 DEF Gathers
<1>13. a <= g.hi[id] /\ a < g.hi[id]
  BY <1>4, <1>6, SMT
<1>14. S \cup W = Within(g.map, a, g.hi[id])
  <2>1. ASSUME NEW k, k \in DOMAIN g.map
        PROVE  (a <= k /\ k < b) \/ (b <= k /\ k < g.hi[id]) <=> a <= k /\ k < g.hi[id]
    <3>1. k \in Int
      BY <1>6, <2>1
    <3> QED BY <1>4, <1>6, <3>1, SMT
  <2> QED BY <2>1 DEF Within
<1>15. Started(n)
  BY DEF AllStarted
<1>16. LinkFits(g, id, p)
  <2>1. id # NoId
    BY ShapeFacts
  <2> QED BY <1>15, <2>1 DEF LinksFit
<1>17. CASE last = m
  <2>1. T = W /\ from <= last
    <3>1. T = {ks[i] : i \in from..m}
      BY <1>17
    <3>2. from <= m
      BY <1>2, <1>4, SMT
    <3> QED BY <1>4, <1>17, <3>1, <3>2
  <2>2. Gathers(g.map, t, Within(g.map, a, g.hi[id])) /\ AllUpTo(Within(g.map, a, g.hi[id]), e)
    <3>1. S \cup T = Within(g.map, a, g.hi[id])
      BY <1>14, <2>1
    <3>2. \A k \in S \cup T : k <= e
      BY <1>9 DEF AllUpTo
    <3> QED BY <1>12, <3>1, <3>2 DEF AllUpTo
  <2>3. CASE p # BlockNull
    <3>1. p \in g.ids /\ g.nodes[p].leaf /\ g.lo[p] = g.hi[id]
      BY <1>16, <2>3 DEF LinkFits
    <3>2. Ahead(g, t, a, e, p)
      BY <1>13, <2>2, <3>1 DEF Ahead
    <3> QED BY <1>17, <2>1, <2>3, <3>2
  <2>4. CASE p = BlockNull
    <3>1. g.hi[id] = MaxKey + 1
      BY <1>16, <2>4 DEF LinkFits
    <3>2. Within(g.map, a, g.hi[id]) = AllTo(g.map, a, e)
      <4>1. ASSUME NEW k, k \in DOMAIN g.map PROVE k < g.hi[id]
        <5>1. k \in Int /\ k <= MaxKey
          BY <1>6, <4>1
        <5> QED BY <1>6, <3>1, <5>1, SMT
      <4>2. \A k \in Within(g.map, a, g.hi[id]) : k <= e
        BY <2>2 DEF AllUpTo
      <4> QED BY <4>1, <4>2 DEF Within, AllTo
    <3>3. Gathers(g.map, t, AllTo(g.map, a, e))
      BY <2>2, <3>2
    <3> QED BY <2>4, <3>3
  <2> QED BY <2>3, <2>4
<1>18. CASE last # m
  <2>1. last < m /\ last + 1 \in 1..m /\ last \in Int
    BY <1>2, <1>4, <1>5, <1>18, SMT
  <2>2. e < ks[last + 1] /\ ks[last + 1] \in Int
    BY <1>3, <1>5, <2>1
  <2>3. \A i, j \in 1..m : i < j => ks[i] < ks[j]
    BY <1>1, <1>2 DEF Rises
  <2>4. ASSUME NEW k, k \in W, k <= e PROVE k \in T
    <3>1. PICK i \in from..m : ks[i] = k
      BY <1>4, <2>4
    <3>2. i \in 1..m /\ i \in Int
      BY <1>2, <1>4, <3>1, SMT
    <3>3. i <= last
      <4>1. CASE i = last + 1
        BY <1>6, <2>2, <2>4, <3>1, <4>1, SMT
      <4>2. CASE last + 1 < i
        <5>1. ks[last + 1] < ks[i] /\ ks[i] \in Int
          BY <1>3, <2>1, <2>3, <3>2, <4>2
        <5> QED BY <1>6, <2>2, <2>4, <3>1, <5>1, SMT
      <4> QED BY <2>1, <3>2, <4>1, <4>2, SMT
    <3>4. i \in from..last
      BY <2>1, <3>1, <3>3, SMT
    <3> QED BY <3>1, <3>4
  <2>5. \A k \in DOMAIN g.map : k <= e => k < g.hi[id]
    <3>1. ks[last + 1] \in W
      <4>1. last + 1 \in from..m
        BY <1>2, <1>4, <1>5, <2>1, SMT
      <4> QED BY <1>4, <4>1
    <3>2. ks[last + 1] < g.hi[id]
      BY <3>1 DEF Within
    <3> SUFFICES ASSUME NEW k, k \in DOMAIN g.map, k <= e PROVE k < g.hi[id]
      OBVIOUS
    <3>3. k \in Int
      BY <1>6
    <3> QED BY <1>6, <2>2, <3>2, <3>3, SMT
  <2>6. ASSUME NEW k, k \in S \cup T PROVE k \in AllTo(g.map, a, e)
    <3>1. k \in Within(g.map, a, g.hi[id]) /\ k <= e
      BY <1>9, <1>14, <2>6 DEF AllUpTo
    <3> QED BY <3>1 DEF Within, AllTo
  <2>7. ASSUME NEW k, k \in AllTo(g.map, a, e) PROVE k \in S \cup T
    <3>1. k \in DOMAIN g.map /\ a <= k /\ k <= e
      BY <2>7 DEF AllTo
    <3>2. k \in Within(g.map, a, g.hi[id])
      BY <2>5, <3>1 DEF Within
    <3> QED BY <1>14, <2>4, <3>1, <3>2
  <2>8. S \cup T = AllTo(g.map, a, e)
    BY <2>6, <2>7
  <2>9. Gathers(g.map, t, AllTo(g.map, a, e))
    BY <1>12, <2>8
  <2> QED BY <1>18, <2>9
<1> QED BY <1>17, <1>18

-----------------------------------------------------------------------------
(* The store of the index.                                                 *)

Nodes == DiskAfter(pending)

\* The tree nodes that the process inserted and has not persisted.
TreeIds == {id \in ToSet(meta.btree) : base <= id}

StoreFits == IInv /\ open = TRUE /\ pending.to # "meta"

LEMMA NodesAreAll ==
  ASSUME StoreFits
  PROVE  DOMAIN Nodes = BlockIds
<1>1. DOMAIN disk = BlockIds
  BY DEF StoreFits, IInv, StoreTypeOK
<1> QED BY <1>1 DEF Nodes, DiskAfter, StoreFits

\* What an insertion and an update make of the nodes and of their ids.
Inserts(q, b) ==
  /\ q \in BlockIds \ {BlockNull} /\ \A i \in IdsOf(meta) : i < q
  /\ TreeIds' = TreeIds \cup {q} /\ Nodes' = [Nodes EXCEPT ![q] = b]
  /\ meta'.root = meta.root
Updates(id, b) == meta' = meta /\ base' = base /\ Nodes' = [Nodes EXCEPT ![id] = b]

LEMMA InsertFits ==
  ASSUME StoreFits, NEW b, b.kind = "btree", Insert(b)
  PROVE  StoreFits' /\ Inserts(NewId(meta), b)
<1> PICK c : c = Count(meta)
  OBVIOUS
<1>1. /\ meta \in MetaType /\ c \in Nat /\ c < MaxBlocks /\ c <= BlockNull
      /\ MaxBlocks \in Nat /\ \A id \in IdsOf(meta) : id < c
      /\ base \in Nat /\ base <= c
  BY InvFacts DEF StoreFits, Insert, IInv, StoreInv, BaseBetweenCounts
<1>2. c < BlockNull /\ c \in BlockIds \ {BlockNull}
  BY <1>1, BlocksAssumption, DiskStoreAssumption, SMT DEF BlockIds
<1>3. NewId(meta) = c
  BY <1>1, <1>2, RegisterLemma
<1>4. meta' = [meta EXCEPT !.btree = Append(meta.btree, c)]
  BY <1>3 DEF Insert, Register
<1>5. meta'.btree = Append(meta.btree, c) /\ meta'.root = meta.root /\ meta.btree \in Seq(BlockIds)
  BY <1>1, <1>4 DEF MetaType
<1>6. TreeIds' = TreeIds \cup {c}
  <2>1. ToSet(meta'.btree) = ToSet(meta.btree) \cup {c}
    BY <1>2, <1>5, AppendLemma
  <2>2. base' = base
    BY DEF Insert
  <2> QED BY <1>1, <2>1, <2>2 DEF TreeIds
<1>7. disk' = Nodes /\ pending' = BlockWrite(c, b)
  BY <1>3 DEF Insert, Apply, Nodes
<1>8. Nodes' = [disk' EXCEPT ![c] = b]
  BY <1>7 DEF Nodes, DiskAfter, BlockWrite
<1>9. StoreFits'
  <2>1. IInv'
    BY InsertInv DEF StoreFits
  <2>2. pending'.to # "meta" /\ open' = TRUE
    BY <1>7 DEF BlockWrite, Insert, StoreFits
  <2> QED BY <2>1, <2>2 DEF StoreFits
<1> QED BY <1>1, <1>2, <1>3, <1>5, <1>6, <1>7, <1>8, <1>9 DEF Inserts

LEMMA UpdateFits ==
  ASSUME StoreFits, NEW id \in TreeIds, NEW b, Update(id, b)
  PROVE  StoreFits' /\ Updates(id, b)
<1>1. meta' = meta /\ base' = base /\ disk' = Nodes /\ pending' = BlockWrite(id, b)
  BY DEF Update, Apply, Nodes
<1>2. Nodes' = [disk' EXCEPT ![id] = b]
  BY <1>1 DEF Nodes, DiskAfter, BlockWrite
<1>3. StoreFits'
  <2> PICK c : c = Count(meta)
    OBVIOUS
  <2>1. meta \in MetaType /\ c \in Nat /\ id < c /\ base \in Nat /\ base <= id
    BY InvFacts DEF StoreFits, TreeIds, IdsOf
  <2>2. id \in BlockIds
    BY <2>1, IdsAreBlockIds DEF TreeIds, IdsOf
  <2>3. id \in base..c - 1
    BY <2>1, <2>2, BlocksAssumption, SMT DEF BlockIds
  <2>4. IInv'
    BY <2>3, UpdateInv DEF StoreFits
  <2>5. pending'.to # "meta" /\ open' = TRUE
    BY <1>1 DEF BlockWrite, Update, StoreFits
  <2> QED BY <2>4, <2>5 DEF StoreFits
<1> QED BY <1>1, <1>2, <1>3 DEF Updates

LEMMA FetchFits ==
  ASSUME StoreFits, Fetch
  PROVE  StoreFits' /\ Nodes' = Nodes /\ meta' = meta
<1>1. meta' = meta /\ disk' = Nodes /\ pending' = NoWrite
  BY DEF Fetch, Apply, Nodes
<1>2. Nodes' = disk'
  BY <1>1 DEF Nodes, DiskAfter, NoWrite
<1>3. IInv'
  BY FetchInv DEF StoreFits
<1>4. pending'.to # "meta" /\ open' = TRUE
  BY <1>1 DEF NoWrite, Fetch, StoreFits
<1> QED BY <1>1, <1>2, <1>3, <1>4 DEF StoreFits

LEMMA SetRootFits ==
  ASSUME StoreFits, NEW id \in BlockIds, SetRoot(id)
  PROVE  StoreFits' /\ Nodes' = Nodes /\ meta'.root = id /\ TreeIds' = TreeIds
<1>1. meta' = [meta EXCEPT !.root = id] /\ disk' = disk /\ pending' = pending /\ open' = open /\ base' = base
  BY DEF SetRoot
<1>2. Nodes' = Nodes
  BY <1>1 DEF Nodes, DiskAfter
<1>3. IInv'
  BY SetRootInv DEF StoreFits
<1>4. meta'.root = id /\ meta'.btree = meta.btree
  BY <1>1, InvFacts DEF StoreFits, MetaType
<1> QED BY <1>1, <1>2, <1>3, <1>4 DEF StoreFits, TreeIds

LEMMA SameStoreFits ==
  ASSUME StoreFits, UNCHANGED storeVars
  PROVE  StoreFits' /\ Nodes' = Nodes /\ meta' = meta /\ TreeIds' = TreeIds
<1>1. IInv'
  BY StutterInv DEF StoreFits
<1> QED BY <1>1 DEF StoreFits, storeVars, Nodes, DiskAfter, TreeIds

-----------------------------------------------------------------------------
(* bulk_load.                                                              *)

\* A tree that is the one in the store.
Describes(g, f) == g.ids = TreeIds /\ g.nodes = Nodes /\ g.map = f

LeafStage(g) ==
  /\ levels = 0 /\ AtLeaves(g, capacity, work, propagate, nodeId)
  /\ \/ NoneInHand(g, work, propagate, node, nodeId, nextLeaf)
     \/ OneInHand(g, TRUE, work, propagate, node, nodeId, nextLeaf)
     \/ TwoInHand(g, work, propagate, node, nodeId, nextLeaf)
InnerStage(g) ==
  /\ levels \in Int /\ AtInner(g, capacity, work, propagate, nodeId, levels)
  /\ \/ NoneInHand(g, work, propagate, node, nodeId, nextLeaf)
     \/ OneInHand(g, FALSE, work, propagate, node, nodeId, nextLeaf)
Stands(g, h) == TreeStands(g, capacity, meta.root, h)
Idle == work = <<>> /\ propagate = <<>> /\ node = NoNode /\ nodeId = BlockNull /\ nextLeaf = NoId

LoadFits(g, f) ==
  /\ Describes(g, f)
  /\ phase = "leaf"     => LeafStage(g)
  /\ phase = "internal" => InnerStage(g)
  /\ phase \notin {"leaf", "internal"} => Stands(g, levels) /\ Idle

LEMMA CapacityFits ==
  ASSUME capacity \in Nat \ {0}
  PROVE  /\ capacity \in Nat /\ capacity >= 1
         /\ SplitAt \in Nat /\ SplitAt >= 1 /\ SplitAt <= capacity
<1>1. capacity \in Nat /\ capacity >= 1
  BY SMT
<1> QED BY <1>1, SMT DEF SplitAt

LEMMA BlankLeafIs ==
  \E e, h : /\ e = EmptyNode(TRUE) /\ h = 1 /\ h \in Int
            /\ BlankLeaf(e) /\ Blank(e, h) /\ e.kind = "btree"
<1> PICK e, h : e = EmptyNode(TRUE) /\ h = 1
  OBVIOUS
<1>1. h \in Int
  OBVIOUS
<1>2. e.keys = <<>> /\ e.pointers = <<>> /\ e.kind = "btree"
  BY DEF EmptyNode
<1>3. Growing(e)
  BY NewNode
<1>4. BlankLeaf(e) /\ Blank(e, h)
  BY <1>1, <1>2, <1>3 DEF BlankLeaf, Blank
<1> QED BY <1>1, <1>2, <1>4

LEMMA BlankInnerIs ==
  ASSUME NEW h, h \in Int
  PROVE  \E e : e = EmptyNode(FALSE) /\ BlankInner(e) /\ Blank(e, h) /\ e.kind = "btree"
<1> PICK e : e = EmptyNode(FALSE)
  OBVIOUS
<1>1. e.keys = <<>> /\ e.pointers = <<>> /\ ~e.leaf /\ e.kind = "btree"
  BY DEF EmptyNode
<1>2. Growing(e)
  BY NewNode
<1>3. BlankInner(e) /\ Blank(e, h)
  BY <1>1, <1>2 DEF BlankInner, Blank
<1> QED BY <1>1, <1>3

\* What is in hand is a node of the tree.
LEMMA HandIsNode ==
  ASSUME NEW g, NEW cap, NodesFit(g, cap), NEW n, NEW id, id \in g.ids, g.nodes[id] = n
  PROVE  n # NoNode /\ Growing(n) /\ Len(n.keys) <= cap /\ n.kind = "btree"
<1>1. Growing(n) /\ Len(n.keys) <= cap
  BY DEF NodesFit, NodeFits
<1>2. n.kind = "btree"
  BY <1>1 DEF Growing, Whole, NodeType
<1>3. NoNode.kind = "none"
  BY DEF NoNode
<1> QED BY <1>1, <1>2, <1>3

LEMMA NewLeafHolds ==
  ASSUME StoreFits, capacity \in Nat \ {0}, NEW f, NEW g, LoadFits(g, f), NewLeaf
  PROVE  StoreFits' /\ \E g2 : LoadFits(g2, f)'
<1>0. PICK e, h : /\ e = EmptyNode(TRUE) /\ h = 1 /\ h \in Int
                  /\ BlankLeaf(e) /\ Blank(e, h) /\ e.kind = "btree"
  BY BlankLeafIs
<1> PICK q, k, w, done : q = NewId(meta) /\ k = work[1][1] /\ w = work /\ done = propagate
  OBVIOUS
<1> PICK d2 : d2 = Append(done, <<k, q>>)
  OBVIOUS
<1>1. phase = "leaf" /\ w # <<>> /\ nextLeaf = NoId /\ Insert(e) /\ NeedsNode(capacity)
  BY <1>0 DEF NewLeaf
<1>2. propagate' = d2 /\ UNCHANGED <<capacity, phase, work, levels, callVars>>
  BY DEF NewLeaf
<1>3. StoreFits' /\ Inserts(q, e)
  BY <1>0, <1>1, InsertFits
<1>4. Describes(g, f) /\ LeafStage(g) /\ capacity \in Nat /\ capacity >= 1
  BY <1>1, CapacityFits DEF LoadFits
<1>5. q \in BlockIds \ {BlockNull} /\ \A i \in g.ids : i < q
  BY <1>3, <1>4 DEF Inserts, Describes, TreeIds, IdsOf
<1>6. PICK g2 : Extended(g, q, e, k, h, g2)
  BY ExtendedExists
<1>7. AtLeaves(g, capacity, w, done, nodeId)
  BY <1>4 DEF LeafStage
<1>8. TreeShape(g) /\ NodesFit(g, capacity) /\ PairsFit(g, w)
  BY <1>7 DEF AtLeaves, EntriesWait
<1>9. FirstPair(w, k) /\ Joins(d2, done, k, q)
  BY <1>1 DEF FirstPair, Joins
<1>10. Describes(g2, f)'
  BY <1>3, <1>4, <1>6 DEF Describes, Inserts, Extended
<1>11. CASE nodeId = BlockNull
  <2>1. node' = e /\ nodeId' = q /\ nextLeaf' = NoId
    BY <1>0, <1>11 DEF NewLeaf
  <2>2. NoneInHand(g, w, done, node, nodeId, nextLeaf)
    <3>1. nodeId \notin g.ids
      BY <1>8, <1>11, ShapeFacts
    <3> QED BY <1>4, <3>1 DEF LeafStage, OneInHand, TwoInHand
  <2>3. AtLeaves(g2, capacity, w, d2, q) /\ OneInHand(g2, TRUE, w, d2, e, q, NoId)
    BY <1>0, <1>4, <1>5, <1>6, <1>7, <1>9, <2>2, FirstLeafStep
  <2>4. LeafStage(g2)'
    BY <1>2, <1>4, <2>1, <2>3 DEF LeafStage
  <2> QED BY <1>1, <1>2, <1>3, <1>10, <2>4 DEF LoadFits
<1>12. CASE nodeId # BlockNull
  <2>1. nextLeaf' = q /\ node' = node /\ nodeId' = nodeId
    BY <1>12 DEF NewLeaf
  <2>2. OneInHand(g, TRUE, w, done, node, nodeId, nextLeaf)
    <3>1. NoId \notin g.ids
      BY <1>8, ShapeFacts
    <3> QED BY <1>1, <1>4, <1>12, <3>1 DEF LeafStage, NoneInHand, TwoInHand
  <2>3. NodeFull(node, capacity)
    <3>1. node # NoNode
      BY <1>8, <2>2, HandIsNode DEF OneInHand
    <3> QED BY <1>1, <3>1 DEF NeedsNode
  <2>4. AtLeaves(g2, capacity, w, d2, nodeId) /\ TwoInHand(g2, w, d2, node, nodeId, q)
    BY <1>0, <1>4, <1>5, <1>6, <1>7, <1>9, <2>2, <2>3, FurtherLeafStep
  <2>5. LeafStage(g2)'
    BY <1>2, <1>4, <2>1, <2>4 DEF LeafStage
  <2> QED BY <1>1, <1>2, <1>3, <1>10, <2>5 DEF LoadFits
<1> QED BY <1>11, <1>12

LEMMA GrownDescribes ==
  ASSUME NEW f, NEW g, Describes(g, f), NEW id, NEW m, Updates(id, m),
         NEW b, NEW g2, Grown(g, id, m, b, g2)
  PROVE  Describes(g2, f)'
<1>1. g2.ids = g.ids /\ g2.map = g.map /\ g2.nodes = [g.nodes EXCEPT ![id] = m]
  BY DEF Grown
<1>2. TreeIds' = TreeIds /\ Nodes' = [Nodes EXCEPT ![id] = m]
  BY DEF Updates, TreeIds
<1> QED BY <1>1, <1>2 DEF Describes

LEMMA LinkLeafHolds ==
  ASSUME StoreFits, capacity \in Nat \ {0}, NEW f, NEW g, LoadFits(g, f), LinkLeaf
  PROVE  StoreFits' /\ \E g2 : LoadFits(g2, f)'
<1>0. PICK e, h : /\ e = EmptyNode(TRUE) /\ h = 1 /\ h \in Int
                  /\ BlankLeaf(e) /\ Blank(e, h) /\ e.kind = "btree"
  BY BlankLeafIs
<1> PICK m, b : m = LinkTo(node, nextLeaf) /\ b = g.hi[nodeId]
  OBVIOUS
<1>1. phase = "leaf" /\ nextLeaf # NoId /\ Update(nodeId, m)
  BY DEF LinkLeaf
<1>2. /\ node' = e /\ nodeId' = nextLeaf /\ nextLeaf' = NoId
      /\ UNCHANGED <<capacity, phase, work, propagate, levels, callVars>>
  BY <1>0 DEF LinkLeaf
<1>3. Describes(g, f) /\ LeafStage(g) /\ capacity \in Nat
  BY <1>1, CapacityFits DEF LoadFits
<1>4. AtLeaves(g, capacity, work, propagate, nodeId)
  BY <1>3 DEF LeafStage
<1>5. TwoInHand(g, work, propagate, node, nodeId, nextLeaf)
  BY <1>1, <1>3 DEF LeafStage, NoneInHand, OneInHand
<1>6. nodeId \in TreeIds
  BY <1>3, <1>5 DEF TwoInHand, Describes
<1>7. StoreFits' /\ Updates(nodeId, m)
  BY <1>1, <1>6, UpdateFits
<1>8. PICK g2 : Grown(g, nodeId, m, b, g2)
  BY GrownExists
<1>9. /\ AtLeaves(g2, capacity, work, propagate, nextLeaf)
      /\ OneInHand(g2, TRUE, work, propagate, e, nextLeaf, NoId)
  BY <1>0, <1>3, <1>4, <1>5, <1>8, LinkLeafStep
<1>10. LeafStage(g2)'
  BY <1>2, <1>3, <1>9 DEF LeafStage
<1>11. Describes(g2, f)'
  BY <1>3, <1>7, <1>8, GrownDescribes
<1> QED BY <1>1, <1>2, <1>7, <1>10, <1>11 DEF LoadFits

LEMMA FillLeafHolds ==
  ASSUME StoreFits, capacity \in Nat \ {0}, NEW f, NEW g, LoadFits(g, f), FillLeaf
  PROVE  StoreFits' /\ \E g2 : LoadFits(g2, f)'
<1> PICK m, v : m = NodeInsert(node, work[1][1], work[1][2]) /\ v = Tail(work)
  OBVIOUS
<1>1. phase = "leaf" /\ nextLeaf = NoId /\ work # <<>> /\ ~NeedsNode(capacity) /\ Update(nodeId, m)
  BY DEF FillLeaf, Fill
<1>2. /\ node' = m /\ work' = v
      /\ UNCHANGED <<capacity, phase, propagate, nodeId, nextLeaf, levels, callVars>>
  BY DEF FillLeaf, Fill
<1>3. Describes(g, f) /\ LeafStage(g) /\ capacity \in Nat
  BY <1>1, CapacityFits DEF LoadFits
<1>4. AtLeaves(g, capacity, work, propagate, nodeId) /\ TreeShape(g)
  BY <1>3 DEF LeafStage, AtLeaves
<1>5. node # NoNode /\ ~NodeFull(node, capacity)
  BY <1>1 DEF NeedsNode
<1>6. OneInHand(g, TRUE, work, propagate, node, nodeId, nextLeaf)
  <2>1. NoId \notin g.ids
    BY <1>4, ShapeFacts
  <2> QED BY <1>1, <1>3, <1>5, <2>1 DEF LeafStage, NoneInHand, TwoInHand
<1>7. nodeId \in TreeIds
  BY <1>3, <1>6 DEF OneInHand, Describes
<1>8. StoreFits' /\ Updates(nodeId, m)
  BY <1>1, <1>7, UpdateFits
<1>9. PICK g2 : Grown(g, nodeId, m, Bound(v), g2)
  BY GrownExists
<1>10. /\ AtLeaves(g2, capacity, v, propagate, nodeId)
       /\ OneInHand(g2, TRUE, v, propagate, m, nodeId, nextLeaf)
  BY <1>1, <1>3, <1>4, <1>5, <1>6, <1>9, FillLeafStep
<1>11. LeafStage(g2)'
  BY <1>2, <1>3, <1>10 DEF LeafStage
<1>12. Describes(g2, f)'
  BY <1>3, <1>8, <1>9, GrownDescribes
<1> QED BY <1>1, <1>2, <1>8, <1>11, <1>12 DEF LoadFits

LEMMA FillInternalHolds ==
  ASSUME StoreFits, capacity \in Nat \ {0}, NEW f, NEW g, LoadFits(g, f), FillInternal
  PROVE  StoreFits' /\ \E g2 : LoadFits(g2, f)'
<1> PICK m, v, limit : m = NodeInsert(node, work[1][1], work[1][2]) /\ v = Tail(work) /\ limit = SplitAt
  OBVIOUS
<1>1. phase = "internal" /\ work # <<>> /\ ~NeedsNode(limit) /\ Update(nodeId, m)
  BY DEF FillInternal, Fill
<1>2. /\ node' = m /\ work' = v
      /\ UNCHANGED <<capacity, phase, propagate, nodeId, nextLeaf, levels, callVars>>
  BY DEF FillInternal, Fill
<1>3. Describes(g, f) /\ InnerStage(g) /\ capacity \in Nat /\ limit \in Nat /\ limit <= capacity
  BY <1>1, CapacityFits DEF LoadFits
<1>4. AtInner(g, capacity, work, propagate, nodeId, levels) /\ levels \in Int
  BY <1>3 DEF InnerStage
<1>5. node # NoNode /\ ~NodeFull(node, limit)
  BY <1>1 DEF NeedsNode
<1>6. OneInHand(g, FALSE, work, propagate, node, nodeId, nextLeaf)
  BY <1>3, <1>5 DEF InnerStage, NoneInHand
<1>7. nodeId \in TreeIds
  BY <1>3, <1>6 DEF OneInHand, Describes
<1>8. StoreFits' /\ Updates(nodeId, m)
  BY <1>1, <1>7, UpdateFits
<1>9. PICK g2 : Grown(g, nodeId, m, Bound(v), g2)
  BY GrownExists
<1>10. /\ AtInner(g2, capacity, v, propagate, nodeId, levels)
       /\ OneInHand(g2, FALSE, v, propagate, m, nodeId, nextLeaf)
  BY <1>1, <1>3, <1>4, <1>5, <1>6, <1>9, FillInternalStep
<1>11. InnerStage(g2)'
  BY <1>2, <1>4, <1>10 DEF InnerStage
<1>12. Describes(g2, f)'
  BY <1>3, <1>8, <1>9, GrownDescribes
<1> QED BY <1>1, <1>2, <1>8, <1>11, <1>12 DEF LoadFits

LEMMA NewInternalHolds ==
  ASSUME StoreFits, capacity \in Nat \ {0}, NEW f, NEW g, LoadFits(g, f), NewInternal
  PROVE  StoreFits' /\ \E g2 : LoadFits(g2, f)'
<1> PICK q, k, w, done, limit, h : /\ q = NewId(meta) /\ k = work[1][1] /\ w = work
                                   /\ done = propagate /\ limit = SplitAt /\ h = levels + 1
  OBVIOUS
<1> PICK d2 : d2 = Append(done, <<k, q>>)
  OBVIOUS
<1>1. phase = "internal" /\ w # <<>> /\ Insert(EmptyNode(FALSE)) /\ NeedsNode(limit)
  BY DEF NewInternal
<1>2. Describes(g, f) /\ InnerStage(g) /\ capacity \in Nat /\ limit \in Nat /\ limit >= 1
  BY <1>1, CapacityFits DEF LoadFits
<1>3. levels \in Int /\ h \in Int /\ NextUp(h, levels)
  BY <1>2 DEF InnerStage, NextUp
<1>4. PICK e : e = EmptyNode(FALSE) /\ BlankInner(e) /\ Blank(e, h) /\ e.kind = "btree"
  BY <1>3, BlankInnerIs
<1>5. /\ propagate' = d2 /\ node' = e /\ nodeId' = q /\ nextLeaf' = nextLeaf
      /\ UNCHANGED <<capacity, phase, work, levels, callVars>>
  BY <1>4 DEF NewInternal
<1>6. StoreFits' /\ Inserts(q, e)
  BY <1>1, <1>4, InsertFits
<1>7. q \in BlockIds \ {BlockNull} /\ \A i \in g.ids : i < q
  BY <1>2, <1>6 DEF Inserts, Describes, TreeIds, IdsOf
<1>8. PICK g2 : Extended(g, q, e, k, h, g2)
  BY ExtendedExists
<1>9. AtInner(g, capacity, w, done, nodeId, levels)
  BY <1>2 DEF InnerStage
<1>10. TreeShape(g) /\ NodesFit(g, capacity) /\ PairsFit(g, w) /\ LevelFits(g, w, done, h)
  BY <1>9 DEF AtInner, AboveLeaves, NodesWait
<1>11. FirstPair(w, k) /\ Joins(d2, done, k, q)
  BY <1>1 DEF FirstPair, Joins
<1>12. nextLeaf = NoId
  BY <1>2 DEF InnerStage, NoneInHand, OneInHand
<1>13. AllStarted(g, {}) /\ Behind(done, k)
  <2>1. CASE NoneInHand(g, w, done, node, nodeId, nextLeaf)
    BY <2>1 DEF NoneInHand, Behind
  <2>2. CASE OneInHand(g, FALSE, w, done, node, nodeId, nextLeaf)
    <3>1. node # NoNode
      BY <1>10, <2>2, HandIsNode DEF OneInHand
    <3>2. NodeFull(node, limit)
      BY <1>1, <3>1 DEF NeedsNode
    <3> QED BY <1>2, <1>10, <1>11, <2>2, <3>2, FullIsDone
  <2> QED BY <1>2, <2>1, <2>2 DEF InnerStage
<1>14. AtInner(g2, capacity, w, d2, q, levels) /\ OneInHand(g2, FALSE, w, d2, e, q, NoId)
  BY <1>2, <1>3, <1>4, <1>7, <1>8, <1>9, <1>11, <1>13, NewInternalStep
<1>15. InnerStage(g2)'
  BY <1>3, <1>5, <1>12, <1>14 DEF InnerStage
<1>16. Describes(g2, f)'
  BY <1>2, <1>6, <1>8 DEF Describes, Inserts, Extended
<1> QED BY <1>1, <1>5, <1>6, <1>15, <1>16 DEF LoadFits

\* At the end of a level all its nodes are complete.
LEMMA LevelIsDone ==
  ASSUME NEW f, NEW g, LoadFits(g, f), LevelDone, NEW h, h = levels + 1
  PROVE  LevelEnds(g, capacity, propagate, h) /\ nextLeaf = NoId /\ h \in Int /\ Describes(g, f)
<1> PICK w, done : w = work /\ done = propagate
  OBVIOUS
<1>1. w = <<>> /\ Describes(g, f)
  BY DEF LevelDone, LoadFits
<1>2. CASE phase = "leaf"
  <2>1. LeafStage(g) /\ levels = 0
    BY <1>2 DEF LoadFits, LeafStage
  <2>2. h = 1 /\ h \in Int
    BY <2>1, SMT
  <2>3. OneInHand(g, TRUE, w, done, node, nodeId, nextLeaf)
    BY <1>1, <2>1 DEF LeafStage, NoneInHand, TwoInHand
  <2>4. AtLeaves(g, capacity, w, done, nodeId)
    BY <2>1 DEF LeafStage
  <2>5. LevelEnds(g, capacity, done, 1)
    BY <1>1, <2>3, <2>4, LeavesEnd
  <2> QED BY <1>1, <2>2, <2>3, <2>5 DEF OneInHand
<1>3. CASE phase = "internal"
  <2>1. InnerStage(g)
    BY <1>3 DEF LoadFits
  <2>2. levels \in Int /\ h \in Int /\ NextUp(h, levels)
    BY <2>1, SMT DEF InnerStage, NextUp
  <2>3. OneInHand(g, FALSE, w, done, node, nodeId, nextLeaf)
    BY <1>1, <2>1 DEF InnerStage, NoneInHand
  <2>4. AtInner(g, capacity, w, done, nodeId, levels)
    BY <2>1 DEF InnerStage
  <2>5. LevelEnds(g, capacity, done, h)
    BY <1>1, <2>2, <2>3, <2>4, InnerEnds
  <2> QED BY <1>1, <2>2, <2>3, <2>5 DEF OneInHand
<1> QED BY <1>2, <1>3 DEF LevelDone

LEMMA NextLevelHolds ==
  ASSUME StoreFits, NEW f, NEW g, LoadFits(g, f), NextLevel
  PROVE  StoreFits' /\ \E g2 : LoadFits(g2, f)'
<1> PICK h, none : h = levels + 1 /\ none = <<>>
  OBVIOUS
<1>1. LevelEnds(g, capacity, propagate, h) /\ nextLeaf = NoId /\ h \in Int /\ Describes(g, f)
  BY LevelIsDone DEF NextLevel
<1>2. /\ phase' = "internal" /\ work' = propagate /\ propagate' = none /\ node' = NoNode
      /\ nodeId' = BlockNull /\ levels' = h /\ capacity' = capacity /\ nextLeaf' = NoId
      /\ UNCHANGED storeVars
  BY <1>1 DEF NextLevel
<1>3. /\ AtInner(g, capacity, propagate, none, BlockNull, h)
      /\ NoneInHand(g, propagate, none, NoNode, BlockNull, NoId)
  BY <1>1, NextLevelStep
<1>4. StoreFits' /\ Nodes' = Nodes /\ TreeIds' = TreeIds
  BY <1>2, SameStoreFits
<1>5. Describes(g, f)'
  BY <1>1, <1>4 DEF Describes
<1>6. InnerStage(g)'
  BY <1>1, <1>2, <1>3 DEF InnerStage
<1> QED BY <1>2, <1>4, <1>5, <1>6 DEF LoadFits

LEMMA RootDoneHolds ==
  ASSUME StoreFits, NEW f, NEW g, LoadFits(g, f), RootDone
  PROVE  StoreFits' /\ \E g2 : LoadFits(g2, f)'
<1> PICK h, root : h = levels + 1 /\ root = propagate[1][2]
  OBVIOUS
<1>1. LevelEnds(g, capacity, propagate, h) /\ nextLeaf = NoId /\ h \in Int /\ Describes(g, f) /\ work = <<>>
  BY LevelIsDone DEF RootDone, LevelDone
<1>2. /\ phase' = "loaded" /\ work' = <<>> /\ propagate' = <<>> /\ node' = NoNode
      /\ nodeId' = BlockNull /\ levels' = h /\ capacity' = capacity /\ nextLeaf' = NoId
      /\ SetRoot(root) /\ Len(propagate) = 1
  BY <1>1 DEF RootDone
<1>3. TreeStands(g, capacity, root, h)
  BY <1>1, <1>2, RootStep
<1>4. root \in BlockIds
  <2>1. root \in g.ids /\ TreeShape(g)
    BY <1>3 DEF TreeStands, RootFits, AboveLeaves
  <2> QED BY <2>1, ShapeFacts
<1>5. StoreFits' /\ Nodes' = Nodes /\ TreeIds' = TreeIds /\ meta'.root = root
  BY <1>2, <1>4, SetRootFits
<1>6. Describes(g, f)'
  BY <1>1, <1>5 DEF Describes
<1>7. Stands(g, levels)' /\ Idle'
  BY <1>2, <1>3, <1>5 DEF Stands, Idle
<1> QED BY <1>2, <1>5, <1>6, <1>7 DEF LoadFits

\* bulk_load starts: nothing is in its hands, and no node is in the store.
LEMMA LoadBegins ==
  ASSUME StoreFits, NEW f, MapFits(f), DOMAIN f # {}, BulkLoad(f), TreeIds = {},
         propagate = <<>>, node = NoNode, nodeId = BlockNull, nextLeaf = NoId
  PROVE  phase' = "leaf" /\ \E g : LoadFits(g, f)'
<1>1. /\ phase' = "leaf" /\ work' = Pairs(f) /\ levels' = 0
      /\ UNCHANGED <<capacity, propagate, node, nodeId, nextLeaf, callVars>> /\ UNCHANGED storeVars
  BY DEF BulkLoad
<1> PICK w, none, b, cap : w = Pairs(f) /\ none = <<>> /\ b = Nodes /\ cap = capacity
  OBVIOUS
<1>2. PairsInOrder(f, w)
  BY PairsOf
<1>3. DOMAIN b = BlockIds
  BY NodesAreAll
<1>4. PICK g : Bare(g, f, b)
  BY <1>3, BareExists
<1>5. AtLeaves(g, cap, w, none, BlockNull) /\ NoneInHand(g, w, none, NoNode, BlockNull, NoId)
  BY <1>2, <1>4, LoadStarts
<1>6. LeafStage(g)'
  BY <1>1, <1>5 DEF LeafStage
<1>7. Describes(g, f)'
  <2>1. g.ids = {} /\ g.map = f /\ g.nodes = b
    BY <1>4 DEF Bare
  <2>2. Nodes' = Nodes /\ TreeIds' = TreeIds
    BY <1>1, SameStoreFits
  <2> QED BY <2>1, <2>2 DEF Describes
<1> QED BY <1>1, <1>6, <1>7 DEF LoadFits

-----------------------------------------------------------------------------
(* get and range.                                                          *)

\* The blocks of a tree.
Shows(g) == \A id \in g.ids : Nodes[id] = g.nodes[id]

Asks ==
  /\ call.op \in {"get", "range"} /\ call.begin \in Int /\ call.end \in Int
  /\ call.begin <= MaxKey
HasRead(n) == reads \in [data : Int, btree : Int] /\ reads.btree = n

Answers(g, h) ==
  /\ call.op = "get" =>
       /\ found = IF call.begin \in DOMAIN g.map THEN <<g.map[call.begin]>> ELSE <<>>
       /\ HasRead(h)
  /\ call.op = "range" =>
       /\ found = <<>> \/ Gathers(g.map, found, AllTo(g.map, call.begin, call.end))
       /\ call.begin \in DOMAIN g.map \/ (\A k \in DOMAIN g.map : call.begin < k)
            => Gathers(g.map, found, AllTo(g.map, call.begin, call.end))

CallFits(g, h) ==
  /\ phase = "lookup" => /\ Asks /\ Reaches(g, cursor, call.begin)
                         /\ found = <<>> /\ HasRead(h - g.ht[cursor])
  /\ phase = "range" => Asks /\ call.op = "range" /\ Ahead(g, found, call.begin, call.end, cursor)
  /\ phase = "returned" => Asks /\ Answers(g, h)

Calling == phase \in {"lookup", "range", "returned"}

LEMMA StandsFacts ==
  ASSUME NEW g, NEW h, Stands(g, h)
  PROVE  /\ TreeShape(g) /\ NodesFit(g, capacity) /\ AllStarted(g, {}) /\ LinksFit(g, NoId)
         /\ RootFits(g, meta.root, h) /\ LeavesInOrder(g) /\ LeavesCover(g, MaxKey + 1)
  BY DEF Stands, TreeStands, AboveLeaves

\* A step of a call leaves the tree as it is.
LEMMA TreeKept ==
  ASSUME NEW g, NEW h, Stands(g, h), Shows(g), Nodes' = Nodes, meta' = meta, capacity' = capacity
  PROVE  Stands(g, h)' /\ Shows(g)'
  BY DEF Stands, Shows

LEMMA NodeRead ==
  ASSUME NEW g, NEW h, Stands(g, h), Shows(g), NEW id, id \in g.ids
  PROVE  NodeAt(id) = g.nodes[id] /\ Content(id) = g.nodes[id] /\ Whole(g.nodes[id])
<1>1. Nodes[id] = g.nodes[id]
  BY DEF Shows
<1>2. Content(id) = g.nodes[id]
  BY <1>1 DEF Content, Nodes
<1>3. NodeFits(g, id, capacity) /\ Started(g.nodes[id])
  BY StandsFacts DEF NodesFit, AllStarted
<1>4. Whole(g.nodes[id])
  BY <1>3 DEF NodeFits, Growing, Started
<1>5. Content(id).kind = "btree"
  BY <1>2, <1>4 DEF Whole, NodeType
<1> QED BY <1>2, <1>4, <1>5 DEF NodeAt

LEMMA OneMoreRead ==
  ASSUME NEW n, n \in Int, HasRead(n), reads' = [reads EXCEPT !.btree = @ + 1]
  PROVE  HasRead(n + 1)'
<1>1. reads \in [data : Int, btree : Int] /\ reads.btree = n
  BY DEF HasRead
<1>2. reads' \in [data : Int, btree : Int] /\ reads'.btree = n + 1
  BY <1>1, SMT
<1> QED BY <1>2 DEF HasRead

LEMMA HeightFacts ==
  ASSUME NEW g, NEW h, Stands(g, h), NEW id, id \in g.ids
  PROVE  h \in Int /\ g.ht[id] \in Int /\ id \in BlockIds
<1>1. TreeShape(g) /\ RootFits(g, meta.root, h)
  BY StandsFacts
<1>2. meta.root \in g.ids /\ g.ht[meta.root] = h
  BY <1>1 DEF RootFits
<1> QED BY <1>1, <1>2, ShapeFacts

LEMMA DescendHolds ==
  ASSUME StoreFits, NEW g, NEW h, Stands(g, h), Shows(g), CallFits(g, h), Descend
  PROVE  /\ StoreFits' /\ Nodes' = Nodes /\ meta' = meta /\ CallFits(g, h)' /\ capacity' = capacity
         /\ cursor' \in BlockIds /\ phase' = "lookup"
<1>1. /\ phase = "lookup" /\ phase' = "lookup" /\ Fetch /\ found' = found
      /\ ~NodeAt(cursor).leaf /\ cursor' = Child(NodeAt(cursor), call.begin)
      /\ reads' = [reads EXCEPT !.btree = @ + 1] /\ UNCHANGED <<capacity, loadVars, call>>
  BY DEF Descend, ReadNode
<1>2. StoreFits' /\ Nodes' = Nodes /\ meta' = meta
  BY <1>1, FetchFits
<1>3. Stands(g, h) /\ Shows(g)
  OBVIOUS
<1> PICK id, x, n : id = cursor /\ x = call.begin /\ n = g.nodes[cursor]
  OBVIOUS
<1>4. Asks /\ Reaches(g, id, x) /\ found = <<>> /\ HasRead(h - g.ht[id]) /\ x \in Int
  BY <1>1 DEF CallFits, Asks
<1>5. id \in g.ids
  BY <1>4 DEF Reaches
<1>6. n = NodeAt(cursor) /\ ~n.leaf
  BY <1>1, <1>3, <1>5, NodeRead
<1> PICK c : c = Child(n, x)
  OBVIOUS
<1>7. Reaches(g, c, x) /\ g.ht[c] = g.ht[id] - 1
  BY <1>3, <1>4, <1>6, StandsFacts, ChildReaches
<1>8. cursor' = c
  BY <1>1, <1>6
<1>9. HasRead(h - g.ht[c])'
  <2>1. h \in Int /\ g.ht[id] \in Int
    BY <1>3, <1>5, HeightFacts
  <2>2. h - g.ht[id] \in Int /\ h - g.ht[c] = (h - g.ht[id]) + 1
    BY <1>7, <2>1, SMT
  <2> PICK q, q2 : q = h - g.ht[id] /\ q2 = h - g.ht[c]
    OBVIOUS
  <2>3. HasRead(q + 1)'
    BY <1>1, <1>4, <2>2, OneMoreRead
  <2> QED BY <2>2, <2>3 DEF HasRead
<1>10. Asks' /\ Reaches(g, cursor, call.begin)' /\ found' = <<>> /\ HasRead(h - g.ht[cursor])'
  <2>1. call' = call
    BY <1>1
  <2>2. Asks'
    BY <1>4, <2>1 DEF Asks
  <2>3. Reaches(g, cursor, call.begin)'
    BY <1>7, <1>8, <2>1
  <2> QED BY <1>1, <1>4, <1>8, <1>9, <2>2, <2>3
<1>11. CallFits(g, h)'
  BY <1>1, <1>10 DEF CallFits
<1>12. c \in BlockIds
  BY <1>3, <1>7, HeightFacts DEF Reaches
<1> QED BY <1>1, <1>2, <1>3, <1>8, <1>11, <1>12

\* The outcome of a loop over one leaf.
LEMMA RangeHolds ==
  ASSUME NEW g, NEW h, Stands(g, h), Asks, call.op = "range", call' = call,
         NEW id, id \in g.ids, id = cursor, NEW n, g.nodes[id] = n, n.leaf,
         NEW from, NEW b, Rest(g, id, n.keys, from, b), call.begin <= b,
         Gathers(g.map, found, Within(g.map, call.begin, b)),
         AllUpTo(Within(g.map, call.begin, b), call.end), RangeLeaf(n, from)
  PROVE  CallFits(g, h)' /\ cursor' \in BlockIds /\ phase' \in {"range", "returned"}
<1>1. call.begin \in Int /\ call.end \in Int
  BY DEF Asks
<1>2. TreeShape(g) /\ NodesFit(g, capacity) /\ AllStarted(g, {}) /\ LinksFit(g, NoId)
  BY StandsFacts
<1>3. Whole(n)
  BY <1>2, LeafFacts
<1> PICK m : m = Len(n.keys)
  OBVIOUS
<1>4. from \in 1..m /\ from \in 1..m + 1
  <2>1. from \in 1..m /\ m \in Nat
    BY <1>3, WholeIsStarted DEF Rest
  <2> QED BY <2>1, SMT
<1>5. PICK last : TakenUpTo(n, from, last)
  BY <1>1, <1>3, <1>4, TakenIs
<1> PICK t, p : t = found \o SubSeq(n.pointers, from, last) /\ p = Last(n.pointers)
  OBVIOUS
<1>6. /\ found' = t
      /\ IF last = m /\ from <= last /\ p # BlockNull
         THEN phase' = "range" /\ cursor' = p
         ELSE phase' = "returned" /\ cursor' = cursor
  <2>1. from \in 1..Len(n.keys) + 1
    BY <1>4
  <2>2. Collects(n, from, last)
    BY <1>3, <1>5, <2>1, RangeLeafIs
  <2> QED BY <2>2 DEF Collects
<1>7. IF last = m /\ from <= last /\ p # BlockNull
      THEN Ahead(g, t, call.begin, call.end, p)
      ELSE Gathers(g.map, t, AllTo(g.map, call.begin, call.end))
  BY <1>1, <1>2, <1>5, RangeStep
<1>8. Asks' /\ call'.op = "range" /\ call'.begin = call.begin /\ call'.end = call.end
  BY DEF Asks
<1>9. CASE last = m /\ from <= last /\ p # BlockNull
  <2>1. Ahead(g, found, call.begin, call.end, cursor)'
    BY <1>6, <1>7, <1>8, <1>9
  <2>2. p \in BlockIds
    BY <1>2, <1>7, <1>9, ShapeFacts DEF Ahead
  <2> QED BY <1>6, <1>8, <1>9, <2>1, <2>2 DEF CallFits
<1>10. CASE ~(last = m /\ from <= last /\ p # BlockNull)
  <2>1. Gathers(g.map, found, AllTo(g.map, call.begin, call.end))'
    BY <1>6, <1>7, <1>8, <1>10
  <2>2. Answers(g, h)'
    BY <1>8, <2>1 DEF Answers
  <2>3. id \in BlockIds
    BY <1>2, ShapeFacts
  <2> QED BY <1>6, <1>8, <1>10, <2>2, <2>3 DEF CallFits
<1> QED BY <1>9, <1>10

LEMMA NextLeafHolds ==
  ASSUME StoreFits, NEW g, NEW h, Stands(g, h), Shows(g), CallFits(g, h), NextLeafOfRange
  PROVE  /\ StoreFits' /\ Nodes' = Nodes /\ meta' = meta /\ CallFits(g, h)' /\ capacity' = capacity
         /\ cursor' \in BlockIds /\ phase' \in {"range", "returned"}
<1> PICK id, x, n : id = cursor /\ x = call.begin /\ n = g.nodes[cursor]
  OBVIOUS
<1>1. /\ phase = "range" /\ Fetch /\ RangeLeaf(NodeAt(cursor), 1)
      /\ UNCHANGED <<capacity, loadVars, call>>
  BY DEF NextLeafOfRange, ReadNode
<1>2. StoreFits' /\ Nodes' = Nodes /\ meta' = meta
  BY <1>1, FetchFits
<1>3. Stands(g, h) /\ Asks /\ call.op = "range" /\ Ahead(g, found, x, call.end, id)
  BY <1>1 DEF CallFits
<1>4. /\ id \in g.ids /\ n.leaf /\ x < g.lo[id]
      /\ Gathers(g.map, found, Within(g.map, x, g.lo[id])) /\ AllUpTo(Within(g.map, x, g.lo[id]), call.end)
  BY <1>3 DEF Ahead
<1>5. n = NodeAt(cursor)
  BY <1>3, <1>4, NodeRead
<1>6. TreeShape(g) /\ Rest(g, id, n.keys, 1, g.lo[id])
  BY <1>3, <1>4, StandsFacts, RestFromStart
<1>7. x <= g.lo[id]
  <2>1. g.lo[id] \in Int /\ x \in Int
    BY <1>3, <1>4, <1>6, ShapeFacts DEF Asks
  <2> QED BY <1>4, <2>1, SMT
<1>8. CallFits(g, h)' /\ cursor' \in BlockIds /\ phase' \in {"range", "returned"}
  BY <1>1, <1>3, <1>4, <1>5, <1>6, <1>7, RangeHolds
<1> QED BY <1>1, <1>2, <1>8

LEMMA ReachLeafHolds ==
  ASSUME StoreFits, NEW g, NEW h, Stands(g, h), Shows(g), CallFits(g, h), ReachLeaf
  PROVE  /\ StoreFits' /\ Nodes' = Nodes /\ meta' = meta /\ CallFits(g, h)' /\ capacity' = capacity
         /\ cursor' \in BlockIds /\ phase' \in {"range", "returned"}
<1> PICK id, x, n, at : /\ id = cursor /\ x = call.begin /\ n = g.nodes[cursor]
                        /\ at = LowerBound(n.keys, x)
  OBVIOUS
<1>1. /\ phase = "lookup" /\ Fetch /\ NodeAt(cursor).leaf
      /\ reads' = [reads EXCEPT !.btree = @ + 1] /\ UNCHANGED <<capacity, loadVars, call>>
  BY DEF ReachLeaf, ReadNode
<1>2. StoreFits' /\ Nodes' = Nodes /\ meta' = meta
  BY <1>1, FetchFits
<1>3. /\ Stands(g, h) /\ Asks /\ Reaches(g, id, x) /\ found = <<>> /\ HasRead(h - g.ht[id])
      /\ x \in Int
  BY <1>1 DEF CallFits, Asks
<1>4. id \in g.ids /\ x < g.hi[id]
  BY <1>3 DEF Reaches
<1>5. n = NodeAt(cursor) /\ n.leaf
  BY <1>1, <1>3, <1>4, NodeRead
<1>6. TreeShape(g) /\ NodesFit(g, capacity) /\ AllStarted(g, {}) /\ LinksFit(g, NoId) /\ id \in BlockIds
  BY <1>3, <1>4, StandsFacts, HeightFacts
<1>7. IF call.op = "get" THEN GetLeaf(n, at) ELSE RangeLeaf(n, at)
  BY <1>5 DEF ReachLeaf
<1>8. call' = call
  BY <1>1
<1>9. CASE call.op = "get"
  <2>1. /\ found' = IF at <= Len(n.keys) /\ n.keys[at] = x THEN <<n.pointers[at]>> ELSE <<>>
        /\ phase' = "returned" /\ cursor' = cursor
    BY <1>7, <1>9 DEF GetLeaf
  <2>2. GetFinds(g, n, at, x)
    BY <1>3, <1>5, <1>6, GetIsRight
  <2>3. found' = IF x \in DOMAIN g.map THEN <<g.map[x]>> ELSE <<>>
    BY <2>1, <2>2 DEF GetFinds
  <2>4. HasRead(h)'
    <3>1. LeafFits(g, id, n.keys, n.pointers)
      BY <1>4, <1>5, <1>6 DEF NodesFit, NodeFits
    <3>2. g.ht[id] = 1 /\ h \in Int
      BY <1>3, <1>4, <3>1, HeightFacts DEF LeafFits
    <3> PICK q : q = h - g.ht[id]
      OBVIOUS
    <3>3. q \in Int /\ q + 1 = h
      BY <3>2, SMT
    <3>4. HasRead(q + 1)'
      BY <1>1, <1>3, <3>3, OneMoreRead
    <3> QED BY <1>8, <3>3, <3>4 DEF HasRead
  <2>5. Answers(g, h)'
    BY <1>8, <1>9, <2>3, <2>4 DEF Answers
  <2>6. Asks'
    BY <1>3, <1>8 DEF Asks
  <2>7. CallFits(g, h)'
    BY <2>1, <2>5, <2>6 DEF CallFits
  <2> QED BY <1>1, <1>2, <1>6, <2>1, <2>7
<1>10. CASE call.op = "range"
  <2>1. RangeLeaf(n, at)
    BY <1>7, <1>10
  <2>2. /\ at \in 1..Len(n.keys) + 1
        /\ at <= Len(n.keys) => Rest(g, id, n.keys, at, x)
        /\ x \in DOMAIN g.map \/ (\A k \in DOMAIN g.map : x < k) => at <= Len(n.keys)
    BY <1>3, <1>5, <1>6, RestFromPlace
  <2>3. CallFits(g, h)' /\ cursor' \in BlockIds /\ phase' \in {"range", "returned"}
    <3>1. CASE at <= Len(n.keys)
      <4>1. Within(g.map, x, x) = {}
        <5>1. \A k \in DOMAIN g.map : ~(x <= k /\ k < x)
          <6>1. \A k \in DOMAIN g.map : k \in Int
            BY <1>6, ShapeFacts
          <6> QED BY <1>3, <6>1, SMT
        <5> QED BY <5>1 DEF Within
      <4>2. Gathers(g.map, found, Within(g.map, x, x)) /\ AllUpTo(Within(g.map, x, x), call.end)
        BY <1>3, <4>1, NothingGathered DEF AllUpTo
      <4>3. x <= x
        BY <1>3, SMT
      <4>4. Rest(g, id, n.keys, at, x)
        BY <2>2, <3>1
      <4> QED BY <1>3, <1>4, <1>5, <1>8, <1>10, <2>1, <4>2, <4>3, <4>4, RangeHolds
    <3>2. CASE ~(at <= Len(n.keys))
      <4> PICK m : m = Len(n.keys)
        OBVIOUS
      <4>1. Whole(n) /\ call.end \in Int
        BY <1>3, <1>4, <1>5, <1>6, LeafFacts DEF Asks
      <4>2. n.pointers \in Seq(BlockIds) /\ m \in Nat
        BY <4>1, WholeIsStarted
      <4>3. PICK last : TakenUpTo(n, at, last)
        BY <2>2, <4>1, TakenIs
      <4>4. last \in (at - 1)..m
        BY <4>3 DEF TakenUpTo
      <4>5. at = m + 1 /\ last = m /\ ~(at <= last)
        BY <2>2, <3>2, <4>2, <4>4, SMT
      <4>6. /\ found' = found \o SubSeq(n.pointers, at, last)
            /\ phase' = "returned" /\ cursor' = cursor
        BY <2>1, <2>2, <4>1, <4>3, <4>5, RangeLeafIs DEF Collects
      <4>7. found' = <<>>
        <5>1. SubSeq(n.pointers, at, last) = <<>>
          BY <4>2, <4>5, SMT
        <5> QED BY <1>3, <4>6, <5>1, SMT
      <4>8. Answers(g, h)'
        BY <1>8, <1>10, <2>2, <3>2, <4>7 DEF Answers
      <4>9. Asks'
        BY <1>3, <1>8 DEF Asks
      <4> QED BY <1>6, <4>6, <4>8, <4>9 DEF CallFits
    <3> QED BY <3>1, <3>2
  <2> QED BY <1>1, <1>2, <2>3
<1> QED BY <1>3, <1>9, <1>10 DEF Asks
=============================================================================
