----------------------------- MODULE TreeProofs -----------------------------
(***************************************************************************)
(* project1's B+tree, for any keys and any node capacity: what bulk_load   *)
(* leaves in the store is a search tree with linked leaves, and get and    *)
(* range answer from it.  The inductive invariant says that there is a     *)
(* tree (IndexProofs) which the blocks in the store, the pairs that wait   *)
(* and the node under construction are parts of, and where in that tree a  *)
(* call has come.                                                          *)
(***************************************************************************)
EXTENDS BTreeClient, IndexProofs

-----------------------------------------------------------------------------
(* The inductive invariant.                                                *)

InputFits == DOMAIN input \subseteq Keys /\ input = [key \in DOMAIN input |-> PointerOf(key)]

CursorFits ==
  /\ cursor \in BlockIds \cup {NoId}
  /\ ~Calling => found = <<>>

\* Nothing was loaded, or an empty map was.
Barren ==
  /\ DOMAIN input = {} /\ phase \in {"ready", "loaded", "returned"}
  /\ Idle /\ meta.root = BlockNull /\ meta.btree = <<>> /\ levels = 0
  /\ phase = "returned" => Asks /\ found = <<>> /\ reads = NoReads

Grows(g) ==
  /\ DOMAIN input # {} /\ (phase \in {"leaf", "internal", "loaded"} \/ Calling)
  /\ LoadFits(g, input) /\ CallFits(g, levels)

IndexInv ==
  /\ StoreFits /\ base = 0 /\ capacity \in Capacities /\ InputFits /\ CursorFits
  /\ Barren \/ (DOMAIN input # {} /\ \E g : Grows(g))

\* All nodes in the store are the process's.
LEMMA AllOwn ==
  ASSUME StoreFits, base = 0
  PROVE  TreeIds = ToSet(meta.btree)
<1>1. \A i \in ToSet(meta.btree) : i \in Nat
  BY InvFacts, IdsAreBlockIds, BlocksAssumption, SMT DEF StoreFits, IdsOf, BlockIds
<1>2. \A i \in ToSet(meta.btree) : base <= i
  BY <1>1, SMT
<1> QED BY <1>2 DEF TreeIds

\* A step of bulk_load or of a call persists nothing.
LEMMA BaseKept == ASSUME LoadStep \/ CallStep \/ UNCHANGED storeVars PROVE base' = base
<1>1. CASE LoadStep
  BY <1>1 DEF LoadStep, NewLeaf, LinkLeaf, FillLeaf, Fill, NewInternal, FillInternal, NextLevel,
     RootDone, Insert, Update, SetRoot, storeVars
<1>2. CASE CallStep
  BY <1>2 DEF CallStep, Descend, ReachLeaf, NextLeafOfRange, ReadNode, Fetch
<1>3. CASE UNCHANGED storeVars
  BY <1>3 DEF storeVars
<1> QED BY <1>1, <1>2, <1>3

LEMMA KeysAreSmall == \A k \in Keys : k \in Int /\ k <= MaxKey
<1>1. Keys \subseteq 0..MaxKey /\ MaxKey \in Nat
  BY BTreeClientAssumption, BlocksAssumption
<1> QED BY <1>1, SMT

\* A step of a call leaves the tree as it is.
LEMMA CallKeeps ==
  ASSUME NEW f, NEW g, LoadFits(g, f), Nodes' = Nodes, meta' = meta, base' = base,
         UNCHANGED <<capacity, loadVars>>, phase \notin {"leaf", "internal"},
         phase' \notin {"leaf", "internal"}
  PROVE  LoadFits(g, f)' /\ Stands(g, levels)
<1>1. Describes(g, f) /\ Stands(g, levels) /\ Idle
  BY DEF LoadFits
<1>2. TreeIds' = TreeIds
  BY DEF TreeIds
<1>3. Describes(g, f)'
  BY <1>1, <1>2 DEF Describes
<1>4. Idle'
  BY <1>1 DEF Idle, loadVars
<1>5. Stands(g, levels)'
  BY <1>1 DEF Stands, loadVars
<1> QED BY <1>1, <1>3, <1>4, <1>5 DEF LoadFits

LEMMA InputIsMap ==
  ASSUME InputFits
  PROVE  MapFits(input) /\ \A k \in DOMAIN input : input[k] = PointerOf(k)
<1>1. DOMAIN input \subseteq Keys /\ input = [key \in DOMAIN input |-> PointerOf(key)]
  BY DEF InputFits
<1>2. \A k \in DOMAIN input : input[k] = k
  BY <1>1 DEF PointerOf
<1>3. DOMAIN input \subseteq 0..MaxKey /\ DOMAIN input \subseteq BlockIds
  BY <1>1, BTreeClientAssumption
<1> QED BY <1>2, <1>3 DEF MapFits, PointerOf

LEMMA StartInv == ASSUME Init PROVE IndexInv
<1>1. StoreTypeOK
  <2>1. header \in Seq(BlockIds) /\ base \in 0..BlockNull /\ DOMAIN disk = BlockIds
    BY BlocksAssumption, SMT DEF Init
  <2>2. meta \in MetaType
    BY FreshFacts DEF Init
  <2> QED BY <2>1, <2>2 DEF Init, StoreTypeOK, MetaType
<1>2. IdsBelowCount
  <2>1. Count(meta) = 0 /\ IdsOf(meta) = {}
    BY FreshFacts DEF Init
  <2>2. 0 <= MaxBlocks
    BY DiskStoreAssumption, SMT
  <2> QED BY <2>1, <2>2 DEF IdsBelowCount
<1>3. header = <<>> /\ FileCount = 0
  BY SMT DEF Init, FileCount, Word
<1>4. FileIdsBelowCount
  BY <1>3, DiskStoreAssumption, SMT DEF FileIdsBelowCount
<1>5. BaseBetweenCounts /\ PendingIsRecent
  <2>1. Count(meta) = 0 /\ base = 0
    BY FreshFacts DEF Init
  <2> QED BY <1>3, <2>1, SMT DEF Init, BaseBetweenCounts, PendingIsRecent, NoWrite
<1>6. StoreFits
  BY <1>1, <1>2, <1>4, <1>5 DEF IInv, StoreInv, StoreFits, Init, NoWrite
<1>7. input = <<>> /\ DOMAIN input = {}
  BY SMT DEF Init
<1>8. InputFits
  BY <1>7, SMT DEF InputFits
<1>9. capacity \in Capacities /\ phase = "ready" /\ cursor = NoId /\ found = <<>> /\ levels = 0 /\ Idle
  BY DEF Init, TreeInit, Idle
<1>10. CursorFits
  BY <1>9 DEF CursorFits
<1>11. meta.root = BlockNull /\ meta.btree = <<>>
  BY DEF Init, FreshMeta
<1>12. Barren
  BY <1>7, <1>9, <1>11 DEF Barren
<1> QED BY <1>5, <1>6, <1>8, <1>9, <1>10, <1>12 DEF IndexInv, Init

LEMMA LoadInv == ASSUME IndexInv, Load PROVE IndexInv'
<1>1. PICK keys \in SUBSET Keys : BulkLoad([key \in keys |-> PointerOf(key)])
                                  /\ input' = [key \in keys |-> PointerOf(key)]
  BY DEF Load
<1> PICK f : f = [key \in keys |-> PointerOf(key)]
  OBVIOUS
<1>2. /\ phase = "ready" /\ input' = f
      /\ phase' = IF DOMAIN f = {} THEN "loaded" ELSE "leaf"
      /\ work' = Pairs(f) /\ levels' = 0
      /\ UNCHANGED <<capacity, propagate, node, nodeId, nextLeaf, callVars, storeVars>>
  BY <1>1 DEF BulkLoad
<1>3. Barren /\ StoreFits /\ base = 0 /\ base' = base /\ CursorFits /\ capacity \in Capacities
  BY <1>2, BaseKept DEF IndexInv, Grows, Calling
<1>4. DOMAIN f = keys /\ InputFits'
  <2>1. DOMAIN f = keys
    OBVIOUS
  <2> QED BY <1>2, <2>1 DEF InputFits
<1>5. StoreFits' /\ Nodes' = Nodes /\ meta' = meta /\ TreeIds' = TreeIds
  BY <1>2, <1>3, SameStoreFits
<1>6. CursorFits'
  BY <1>2, <1>3 DEF CursorFits, callVars, Calling
<1>7. /\ propagate' = <<>> /\ node' = NoNode /\ nodeId' = BlockNull /\ nextLeaf' = NoId
      /\ capacity' \in Capacities
  BY <1>2, <1>3 DEF Barren, Idle
<1>8. CASE keys = {}
  <2>1. work' = <<>>
    <3>1. DOMAIN f = {}
      BY <1>4, <1>8
    <3>2. Cardinality(DOMAIN f) = 0
      BY <3>1, FS_EmptySet
    <3>3. DOMAIN InOrder(DOMAIN f) = {}
      BY <3>2, SMT DEF InOrder
    <3>4. Pairs(f) = [i \in {} |-> <<InOrder(DOMAIN f)[i], f[InOrder(DOMAIN f)[i]]>>]
      BY <3>3 DEF Pairs
    <3>5. Pairs(f) = <<>>
      BY <3>4, SMT
    <3> QED BY <1>2, <3>5
  <2>2. Idle'
    BY <1>7, <2>1 DEF Idle
  <2>3. Barren'
    BY <1>2, <1>3, <1>4, <1>5, <1>8, <2>2 DEF Barren
  <2> QED BY <1>3, <1>4, <1>5, <1>6, <1>7, <2>3 DEF IndexInv
<1>9. CASE keys # {}
  <2>1. MapFits(f)
    <3>1. \A k \in keys : f[k] = k
      BY DEF PointerOf
    <3>2. keys \subseteq 0..MaxKey /\ keys \subseteq BlockIds
      BY BTreeClientAssumption
    <3> QED BY <1>4, <3>1, <3>2 DEF MapFits
  <2>2. TreeIds = {}
    <3>1. meta.btree = <<>>
      BY <1>3 DEF Barren
    <3> QED BY <3>1, SMT DEF TreeIds, ToSet
  <2>3. BulkLoad(f) /\ DOMAIN f # {} /\ propagate = <<>> /\ node = NoNode /\ nodeId = BlockNull /\ nextLeaf = NoId
    BY <1>1, <1>3, <1>4, <1>9 DEF Barren, Idle
  <2>4. phase' = "leaf" /\ \E g : LoadFits(g, f)'
    BY <1>3, <2>1, <2>2, <2>3, LoadBegins
  <2>5. PICK g : LoadFits(g, f)'
    BY <2>4
  <2>6. LoadFits(g, input)'
    BY <1>2, <2>5 DEF LoadFits, Describes, LeafStage, InnerStage, Stands, Idle
  <2>7. CallFits(g, levels)'
    BY <2>4 DEF CallFits
  <2>8. DOMAIN input' # {}
    BY <1>2, <1>4, <1>9
  <2>9. Grows(g)'
    BY <2>4, <2>6, <2>7, <2>8 DEF Grows
  <2> QED BY <1>3, <1>4, <1>5, <1>6, <1>7, <2>8, <2>9 DEF IndexInv
<1> QED BY <1>8, <1>9

LEMMA LoadStepInv == ASSUME IndexInv, LoadStep, input' = input PROVE IndexInv'
<1>1. phase \in {"leaf", "internal"}
  BY DEF LoadStep, NewLeaf, LinkLeaf, FillLeaf, NewInternal, FillInternal, NextLevel, RootDone, LevelDone
<1>2. DOMAIN input # {} /\ StoreFits /\ base = 0 /\ base' = base /\ capacity \in Capacities /\ InputFits /\ CursorFits
  BY <1>1, BaseKept DEF IndexInv, Barren
<1> PICK f : f = input
  OBVIOUS
<1>3. PICK g : LoadFits(g, f) /\ capacity \in Nat \ {0}
  BY <1>1, BTreeClientAssumption DEF IndexInv, Barren, Grows
<1>4. StoreFits' /\ \E g2 : LoadFits(g2, f)'
  <2>1. CASE NewLeaf
    BY <1>2, <1>3, <2>1, NewLeafHolds
  <2>2. CASE LinkLeaf
    BY <1>2, <1>3, <2>2, LinkLeafHolds
  <2>3. CASE FillLeaf
    BY <1>2, <1>3, <2>3, FillLeafHolds
  <2>4. CASE NewInternal
    BY <1>2, <1>3, <2>4, NewInternalHolds
  <2>5. CASE FillInternal
    BY <1>2, <1>3, <2>5, FillInternalHolds
  <2>6. CASE NextLevel
    BY <1>2, <1>3, <2>6, NextLevelHolds
  <2>7. CASE RootDone
    BY <1>2, <1>3, <2>7, RootDoneHolds
  <2> QED BY <2>1, <2>2, <2>3, <2>4, <2>5, <2>6, <2>7 DEF LoadStep
<1>5. phase' \in {"leaf", "internal", "loaded"} /\ UNCHANGED <<capacity, callVars>>
  BY <1>1 DEF LoadStep, NewLeaf, LinkLeaf, FillLeaf, Fill, NewInternal, FillInternal, NextLevel, RootDone
<1>6. capacity' \in Capacities /\ InputFits' /\ CursorFits'
  <2>1. InputFits'
    BY <1>2 DEF InputFits
  <2>2. CursorFits'
    BY <1>1, <1>2, <1>5 DEF CursorFits, Calling, callVars
  <2> QED BY <1>2, <1>5, <2>1, <2>2
<1>7. PICK g2 : LoadFits(g2, f)'
  BY <1>4
<1>8. CallFits(g2, levels)'
  BY <1>5 DEF CallFits
<1>9. Grows(g2)'
  <2>1. LoadFits(g2, input)'
    BY <1>7
  <2> QED BY <1>2, <1>5, <1>8, <2>1 DEF Grows
<1>10. DOMAIN input' # {}
  BY <1>2
<1> QED BY <1>2, <1>4, <1>6, <1>9, <1>10 DEF IndexInv

LEMMA StartInvKept ==
  ASSUME IndexInv, Loaded, NEW op \in {"get", "range"}, NEW begin \in Keys, NEW end \in Keys,
         StartCall(op, begin, end), input' = input
  PROVE  IndexInv'
<1>1. /\ call' = [op |-> op, begin |-> begin, end |-> end] /\ cursor' = meta.root
      /\ found' = <<>> /\ reads' = NoReads
      /\ phase' = IF meta.root = BlockNull THEN "returned" ELSE "lookup"
      /\ UNCHANGED <<capacity, loadVars>> /\ UNCHANGED storeVars
  BY DEF StartCall
<1>2. StoreFits /\ base = 0 /\ base' = base /\ capacity \in Capacities /\ InputFits /\ CursorFits /\ phase \in {"loaded", "returned"}
  BY <1>1, BaseKept DEF IndexInv, Loaded
<1>3. StoreFits' /\ Nodes' = Nodes /\ meta' = meta /\ TreeIds' = TreeIds
  BY <1>1, <1>2, SameStoreFits
<1>4. Asks' /\ InputFits' /\ capacity' \in Capacities
  <2>1. \A k \in Keys : k \in Int /\ k <= MaxKey
    BY KeysAreSmall
  <2> QED BY <1>1, <1>2, <2>1 DEF Asks, InputFits
<1>5. meta.root \in BlockIds
  BY <1>2, InvFacts DEF StoreFits, MetaType
<1>6. CursorFits'
  BY <1>1, <1>5 DEF CursorFits
<1>7. CASE Barren
  <2>1. meta.root = BlockNull /\ Idle
    BY <1>7 DEF Barren
  <2>2. Idle'
    BY <1>1, <2>1 DEF Idle, loadVars
  <2>3. Barren'
    BY <1>1, <1>3, <1>4, <1>7, <2>1, <2>2 DEF Barren, loadVars
  <2> QED BY <1>2, <1>3, <1>4, <1>6, <2>3 DEF IndexInv
<1>8. CASE ~Barren
  <2>1. DOMAIN input # {} /\ \E g : Grows(g)
    BY <1>8 DEF IndexInv
  <2>2. PICK g : LoadFits(g, input)
    BY <2>1 DEF Grows
  <2> PICK h, f : h = levels /\ f = input
    OBVIOUS
  <2>3. LoadFits(g, f)' /\ Stands(g, h)
    BY <1>1, <1>2, <1>3, <2>2, CallKeeps
  <2> PICK root : root = meta.root
    OBVIOUS
  <2>4. TreeShape(g) /\ RootFits(g, root, h)
    BY <2>3, StandsFacts
  <2>5. /\ root \in g.ids /\ g.hi[root] = MaxKey + 1 /\ g.ht[root] = h
        /\ \A k \in DOMAIN g.map : g.lo[root] <= k
    BY <2>4 DEF RootFits
  <2>6. root # BlockNull /\ phase' = "lookup"
    BY <1>1, <2>4, <2>5, ShapeFacts
  <2>7. begin < MaxKey + 1
    BY BTreeClientAssumption, BlocksAssumption, SMT
  <2>8. Reaches(g, root, begin)
    BY <2>5, <2>7 DEF Reaches
  <2>9. HasRead(h - g.ht[cursor])'
    <3>1. h \in Int
      BY <2>3, <2>5, HeightFacts
    <3>2. h - h = 0
      BY <3>1, SMT
    <3>3. reads' \in [data : Int, btree : Int] /\ reads'.btree = 0
      BY <1>1 DEF NoReads
    <3> QED BY <1>1, <2>5, <3>2, <3>3 DEF HasRead
  <2>10. Reaches(g, cursor, call.begin)'
    BY <1>1, <2>8
  <2>11. CallFits(g, h)'
    BY <1>1, <1>4, <2>6, <2>9, <2>10 DEF CallFits
  <2>12. Grows(g)' /\ DOMAIN input' # {}
    <3>1. LoadFits(g, input)' /\ CallFits(g, levels)'
      BY <1>1, <2>3, <2>11 DEF loadVars
    <3> QED BY <2>1, <2>6, <3>1 DEF Grows, Calling
  <2> QED BY <1>2, <1>3, <1>4, <1>6, <2>12 DEF IndexInv
<1> QED BY <1>7, <1>8

LEMMA CallStepInv == ASSUME IndexInv, CallStep, input' = input PROVE IndexInv'
<1>1. phase \in {"lookup", "range"} /\ Calling
  BY DEF CallStep, Descend, ReachLeaf, NextLeafOfRange, Calling
<1>2. DOMAIN input # {} /\ StoreFits /\ base = 0 /\ base' = base /\ capacity \in Capacities /\ InputFits /\ CursorFits
  BY <1>1, BaseKept DEF IndexInv, Barren
<1> PICK f, h : f = input /\ h = levels
  OBVIOUS
<1>3. PICK g : LoadFits(g, f) /\ CallFits(g, h)
  BY <1>1 DEF IndexInv, Barren, Grows
<1>4. Stands(g, h) /\ Shows(g)
  BY <1>1, <1>3 DEF LoadFits, Describes, Shows
<1>5. /\ StoreFits' /\ Nodes' = Nodes /\ meta' = meta /\ CallFits(g, h)' /\ capacity' = capacity
      /\ cursor' \in BlockIds /\ phase' \in {"lookup", "range", "returned"}
  <2>1. CASE Descend
    BY <1>2, <1>3, <1>4, <2>1, DescendHolds
  <2>2. CASE ReachLeaf
    BY <1>2, <1>3, <1>4, <2>2, ReachLeafHolds
  <2>3. CASE NextLeafOfRange
    BY <1>2, <1>3, <1>4, <2>3, NextLeafHolds
  <2> QED BY <2>1, <2>2, <2>3 DEF CallStep
<1>6. UNCHANGED loadVars
  BY DEF CallStep, Descend, ReachLeaf, NextLeafOfRange, ReadNode
<1>7. LoadFits(g, f)'
  BY <1>1, <1>2, <1>3, <1>5, <1>6, CallKeeps
<1>8. Calling' /\ InputFits' /\ capacity' \in Capacities
  BY <1>2, <1>5 DEF InputFits, Calling
<1>9. CursorFits'
  BY <1>5, <1>8 DEF CursorFits
<1>10. LoadFits(g, input)' /\ CallFits(g, levels)'
  BY <1>5, <1>6, <1>7 DEF loadVars
<1>11. Grows(g)' /\ DOMAIN input' # {}
  BY <1>2, <1>8, <1>10 DEF Grows
<1> QED BY <1>2, <1>5, <1>8, <1>9, <1>11 DEF IndexInv

LEMMA StayInv == ASSUME IndexInv, UNCHANGED vars PROVE IndexInv'
<1>1. UNCHANGED <<capacity, phase, work, propagate, node, nodeId, nextLeaf, levels>>
      /\ UNCHANGED <<call, cursor, found, reads>> /\ UNCHANGED storeVars /\ input' = input
  BY DEF vars, treeVars
<1>2. StoreFits' /\ Nodes' = Nodes /\ meta' = meta /\ TreeIds' = TreeIds
  BY <1>1, SameStoreFits DEF IndexInv
<1>3. base' = 0 /\ capacity' \in Capacities /\ InputFits' /\ CursorFits'
  BY <1>1, BaseKept DEF IndexInv, InputFits, CursorFits, Calling
<1>4. Idle' = Idle
  BY <1>1 DEF Idle
<1>5. Barren => Barren'
  BY <1>1, <1>2, <1>4 DEF Barren, Asks
<1>6. ASSUME NEW g, Grows(g) PROVE Grows(g)'
  <2>1. LoadFits(g, input)'
    BY <1>1, <1>2, <1>4, <1>6 DEF Grows, LoadFits, Describes, LeafStage, InnerStage, Stands
  <2>2. CallFits(g, levels)'
    BY <1>1, <1>6 DEF Grows, CallFits, Asks, HasRead, Answers
  <2> QED BY <1>1, <1>6, <2>1, <2>2 DEF Grows, Calling
<1> QED BY <1>1, <1>2, <1>3, <1>5, <1>6 DEF IndexInv

LEMMA IndexInvHolds == Spec => []IndexInv
<1>1. Init => IndexInv
  BY StartInv
<1>2. IndexInv /\ [Next]_vars => IndexInv'
  <2> SUFFICES ASSUME IndexInv, [Next]_vars PROVE IndexInv'
    OBVIOUS
  <2>1. CASE Load
    BY <2>1, LoadInv
  <2>2. CASE LoadStep /\ UNCHANGED input
    BY <2>2, LoadStepInv
  <2>3. CASE Get
    <3>1. PICK key \in Keys : StartCall("get", key, key)
      BY <2>3 DEF Get
    <3>2. Loaded /\ input' = input
      BY <2>3 DEF Get
    <3> QED BY <3>1, <3>2, StartInvKept
  <2>4. CASE Range_
    <3>1. PICK begin \in Keys, end \in Keys : StartCall("range", begin, end)
      BY <2>4 DEF Range_
    <3>2. Loaded /\ input' = input
      BY <2>4 DEF Range_
    <3> QED BY <3>1, <3>2, StartInvKept
  <2>5. CASE CallStep /\ UNCHANGED input
    BY <2>5, CallStepInv
  <2>6. CASE UNCHANGED vars
    BY <2>6, StayInv
  <2> QED BY <2>1, <2>2, <2>3, <2>4, <2>5, <2>6 DEF Next
<1> QED BY <1>1, <1>2, PTL DEF Spec

-----------------------------------------------------------------------------
(* What the invariant says of get and range.                               *)

LEMMA EmptyInOrder == InOrder({}) = <<>>
<1>1. Cardinality({}) = 0
  BY FS_EmptySet
<1>2. DOMAIN InOrder({}) = 1..0 /\ 1..0 = {}
  BY <1>1, SMT DEF InOrder
<1>3. InOrder({}) = [i \in {} |-> 0]
  <2>1. InOrder({}) = [i \in DOMAIN InOrder({}) |-> InOrder({})[i]]
    BY DEF InOrder
  <2> QED BY <1>2, <2>1
<1>4. <<>> = [i \in {} |-> 0]
  BY SMT
<1> QED BY <1>3, <1>4

\* What is gathered for all keys of the range is what is expected.
LEMMA GatheredIsExpected ==
  ASSUME InputFits, NEW s, Gathers(input, s, AllTo(input, call.begin, call.end))
  PROVE  s = Expected
<1> PICK S : S = InRange
  OBVIOUS
<1>1. S = AllTo(input, call.begin, call.end)
  BY DEF InRange, AllTo
<1>2. PICK ks : Tracks(input, s, ks, S)
  BY <1>1 DEF Gathers
<1>3. /\ ks \in Seq(Int) /\ Rises(ks) /\ ToSet(ks) = S
      /\ s \in Seq(BlockIds) /\ Len(s) = Len(ks) /\ \A j \in 1..Len(ks) : s[j] = input[ks[j]]
  BY <1>2 DEF Tracks
<1>4. S \in SUBSET Int /\ IsFiniteSet(S)
  <2>1. S \subseteq 0..MaxKey
    BY InputIsMap DEF InRange, MapFits
  <2>2. IsFiniteSet(0..MaxKey)
    BY BlocksAssumption, FS_Interval, SMT
  <2>3. IsFiniteSet(S)
    BY <2>1, <2>2, FS_Subset
  <2>4. 0..MaxKey \subseteq Int
    BY BlocksAssumption, SMT
  <2> QED BY <2>1, <2>3, <2>4
<1> PICK ls : ls = InOrder(S)
  OBVIOUS
<1>5. ls \in Seq(S) /\ ToSet(ls) = S /\ Len(ls) = Cardinality(S)
      /\ \A i, j \in 1..Cardinality(S) : i < j => ls[i] < ls[j]
  BY <1>4, KeysInOrder
<1>6. ls \in Seq(Int) /\ Rises(ls)
  <2>1. DOMAIN ls = 1..Len(ls) /\ \A i \in 1..Len(ls) : ls[i] \in Int
    BY <1>4, <1>5, LenProperties, ElementOfSeq
  <2>2. ls \in Seq(Int)
    <3>1. ls = [i \in 1..Len(ls) |-> ls[i]] /\ Len(ls) \in Nat
      BY <1>5, <2>1, LenProperties
    <3> QED BY <2>1, <3>1, SeqDef
  <2> QED BY <1>5, <2>2 DEF Rises
<1>7. ks = ls
  BY <1>3, <1>5, <1>6, OneRisingSequence
<1>8. Expected = [i \in DOMAIN ls |-> input[ls[i]]]
  BY DEF Expected
<1>9. DOMAIN s = 1..Len(s) /\ DOMAIN ls = 1..Len(ls)
  BY <1>3, <1>6, LenProperties
<1>10. s = [i \in DOMAIN s |-> s[i]]
  BY <1>3, SMT
<1> QED BY <1>3, <1>7, <1>8, <1>9, <1>10

LEMMA NothingExpected == ASSUME DOMAIN input = {} PROVE Expected = <<>>
<1>1. InRange = {}
  BY DEF InRange
<1>2. InOrder(InRange) = <<>>
  BY <1>1, EmptyInOrder
<1>3. Expected = [i \in DOMAIN <<>> |-> input[(<<>>)[i]]]
  BY <1>2 DEF Expected
<1>4. DOMAIN <<>> = {}
  BY SMT
<1>5. <<>> = [i \in {} |-> input[(<<>>)[i]]]
  BY SMT
<1> QED BY <1>3, <1>4, <1>5

\* btree.h:55-58, for every capacity and every map of keys: get gives the
\* pointer of a key that was loaded and none for any other, and reads one node
\* per level.
THEOREM GetIsExact == Spec => []GetFindsTheKey
<1>1. IndexInv => GetFindsTheKey
  <2> SUFFICES ASSUME IndexInv, phase = "returned", call.op = "get"
               PROVE  /\ found = IF call.begin \in DOMAIN input THEN <<input[call.begin]>> ELSE <<>>
                      /\ reads.btree = levels
    BY DEF GetFindsTheKey
  <2>1. CASE Barren
    <3>1. found = <<>> /\ reads.btree = 0 /\ levels = 0 /\ DOMAIN input = {}
      BY <2>1 DEF Barren, NoReads
    <3> QED BY <3>1
  <2>2. CASE ~Barren
    <3>1. PICK g : Grows(g)
      BY <2>2 DEF IndexInv
    <3>2. g.map = input /\ Answers(g, levels)
      BY <3>1 DEF Grows, LoadFits, Describes, CallFits
    <3> QED BY <3>2 DEF Answers, HasRead
  <2> QED BY <2>1, <2>2
<1> QED BY <1>1, IndexInvHolds, PTL

\* btree.h:61-64, for every capacity and every map of keys: range gives the
\* pointers of all keys in the range, in key order, or none at all; and all of
\* them when begin is a key or below every key.
THEOREM RangeIsExact == Spec => []RangeIsExactOrEmpty
<1>1. IndexInv => RangeIsExactOrEmpty
  <2> SUFFICES ASSUME IndexInv, phase = "returned", call.op = "range"
               PROVE  /\ found \in {Expected, <<>>}
                      /\ call.begin \in DOMAIN input \/ (\A key \in DOMAIN input : call.begin < key)
                           => found = Expected
    BY DEF RangeIsExactOrEmpty
  <2>1. CASE Barren
    <3>1. found = <<>> /\ DOMAIN input = {}
      BY <2>1 DEF Barren
    <3> QED BY <3>1, NothingExpected
  <2>2. CASE ~Barren
    <3>1. PICK g : Grows(g)
      BY <2>2 DEF IndexInv
    <3>2. g.map = input /\ Answers(g, levels)
      BY <3>1 DEF Grows, LoadFits, Describes, CallFits
    <3>3. InputFits
      BY DEF IndexInv
    <3>4. Gathers(input, found, AllTo(input, call.begin, call.end)) => found = Expected
      BY <3>3, GatheredIsExpected
    <3> QED BY <3>2, <3>4 DEF Answers
  <2> QED BY <2>1, <2>2
<1> QED BY <1>1, IndexInvHolds, PTL

-----------------------------------------------------------------------------
(* Types.                                                                  *)

LEMMA FoundTypes ==
  ASSUME InputFits, NEW s, NEW S, S \subseteq DOMAIN input, Gathers(input, s, S)
  PROVE  s \in Seq({PointerOf(key) : key \in Keys})
<1>1. PICK ks : Tracks(input, s, ks, S)
  BY DEF Gathers
<1>2. /\ ks \in Seq(Int) /\ ToSet(ks) = S /\ s \in Seq(BlockIds) /\ Len(s) = Len(ks)
      /\ \A j \in 1..Len(ks) : s[j] = input[ks[j]]
  BY <1>1 DEF Tracks
<1>3. Len(s) \in Nat /\ DOMAIN s = 1..Len(s) /\ DOMAIN ks = 1..Len(ks)
  BY <1>2, LenProperties
<1>4. \A j \in 1..Len(s) : s[j] \in {PointerOf(key) : key \in Keys}
  <2> SUFFICES ASSUME NEW j \in 1..Len(s) PROVE s[j] \in {PointerOf(key) : key \in Keys}
    OBVIOUS
  <2>1. ks[j] \in S
    BY <1>2, <1>3 DEF ToSet
  <2>2. ks[j] \in DOMAIN input /\ ks[j] \in Keys /\ s[j] = input[ks[j]]
    BY <1>2, <2>1 DEF InputFits
  <2>3. s[j] = PointerOf(ks[j])
    BY <2>2, InputIsMap
  <2> QED BY <2>2, <2>3
<1>5. s = [j \in 1..Len(s) |-> s[j]]
  BY <1>2, <1>3, SMT
<1> HIDE DEF PointerOf
<1> QED BY <1>3, <1>4, <1>5, SeqDef

LEMMA AnswerTypes ==
  ASSUME InputFits, NEW g, g.map = input, Asks, Answers(g, levels)
  PROVE  found \in Seq({PointerOf(key) : key \in Keys})
<1> PICK P : P = {PointerOf(key) : key \in Keys}
  OBVIOUS
<1>1. <<>> \in Seq(P)
  BY SMT
<1>2. CASE call.op = "get"
  <2>1. CASE call.begin \in DOMAIN input
    <3>1. found = <<input[call.begin]>>
      BY <1>2, <2>1 DEF Answers
    <3>2. input[call.begin] \in P
      BY <2>1, InputIsMap DEF InputFits
    <3> QED BY <3>1, <3>2, SMT
  <2>2. CASE call.begin \notin DOMAIN input
    BY <1>1, <1>2, <2>2 DEF Answers
  <2> QED BY <2>1, <2>2
<1>3. CASE call.op = "range"
  <2>1. AllTo(input, call.begin, call.end) \subseteq DOMAIN input
    BY DEF AllTo
  <2> QED BY <1>1, <1>3, <2>1, FoundTypes DEF Answers
<1> QED BY <1>2, <1>3 DEF Asks

LEMMA PairTypes ==
  ASSUME InputFits, NEW g, g.map = input, NEW w, PairsFit(g, w)
  PROVE  w \in Seq(Keys \X BlockIds)
<1>1. w \in Seq((DOMAIN input) \X BlockIds)
  BY DEF PairsFit
<1>2. (DOMAIN input) \X BlockIds \subseteq Keys \X BlockIds
  BY DEF InputFits
<1> PICK A, B : A = (DOMAIN input) \X BlockIds /\ B = Keys \X BlockIds
  OBVIOUS
<1>3. w \in Seq(A) /\ A \subseteq B
  BY <1>1, <1>2
<1>4. w \in Seq(B)
  BY ONLY <1>3, SMT
<1> QED BY <1>4

\* The types of the tree's state: what is under construction never holds more
\* than capacity keys, pairs are keys with block ids, what is found are
\* pointers that were loaded.
THEOREM TreeTypesAreKept == Spec => []TreeTypeOK
<1>1. IndexInv => TreeTypeOK
  <2> SUFFICES ASSUME IndexInv PROVE TreeTypeOK
    OBVIOUS
  <2>1. StoreFits /\ capacity \in Capacities /\ InputFits /\ CursorFits
    BY DEF IndexInv
  <2>2. cursor \in BlockIds \cup {NoId} /\ BlockNull \in BlockIds
    BY <2>1, BlocksAssumption, SMT DEF CursorFits, BlockIds
  <2>3. phase \in {"ready", "leaf", "internal", "loaded", "lookup", "range", "returned"}
    BY DEF IndexInv, Barren, Grows, Calling
  <2>4. <<>> \in Seq(Keys \X BlockIds)
    BY SMT
  <2>5. /\ work \in Seq(Keys \X BlockIds) /\ propagate \in Seq(Keys \X BlockIds)
        /\ node = NoNode \/ Len(node.keys) <= capacity
        /\ nodeId \in BlockIds /\ nextLeaf \in BlockIds \cup {NoId}
    <3>1. CASE Idle
      BY <2>2, <2>4, <3>1 DEF Idle
    <3>2. CASE ~Idle
      <4>1. PICK g : Grows(g)
        BY <3>2 DEF IndexInv, Barren
      <4>2. g.map = input /\ (LeafStage(g) \/ InnerStage(g))
        BY <3>2, <4>1 DEF Grows, LoadFits, Describes, Calling
      <4>3. /\ TreeShape(g) /\ NodesFit(g, capacity) /\ PairsFit(g, work) /\ PairsFit(g, propagate)
        BY <4>2 DEF LeafStage, InnerStage, AtLeaves, AtInner, AboveLeaves, EntriesWait, NodesWait, LevelFits
      <4>4. work \in Seq(Keys \X BlockIds) /\ propagate \in Seq(Keys \X BlockIds)
        BY <2>1, <4>2, <4>3, PairTypes
      <4>5. \/ node = NoNode /\ nodeId = BlockNull /\ nextLeaf = NoId
            \/ /\ nodeId \in g.ids /\ g.nodes[nodeId] = node
               /\ nextLeaf \in g.ids \cup {NoId}
        BY <4>2 DEF LeafStage, InnerStage, NoneInHand, OneInHand, TwoInHand
      <4>6. nodeId \in g.ids /\ g.nodes[nodeId] = node => Len(node.keys) <= capacity
        BY <4>3, HandIsNode
      <4>7. g.ids \subseteq BlockIds
        BY <4>3 DEF TreeShape
      <4> QED BY <2>2, <4>4, <4>5, <4>6, <4>7
    <3> QED BY <3>1, <3>2
  <2>6. found \in Seq({PointerOf(key) : key \in Keys})
    <3>1. <<>> \in Seq({PointerOf(key) : key \in Keys})
      BY SMT
    <3>2. CASE Barren
      BY <2>1, <3>1, <3>2 DEF Barren, CursorFits, Calling
    <3>3. CASE ~Barren
      <4>1. PICK g : Grows(g)
        BY <3>3 DEF IndexInv
      <4>2. g.map = input /\ CallFits(g, levels)
        BY <4>1 DEF Grows, LoadFits, Describes
      <4>3. CASE phase = "returned"
        BY <2>1, <4>2, <4>3, AnswerTypes DEF CallFits
      <4>4. CASE phase = "range"
        <5> PICK S : S = Within(g.map, call.begin, g.lo[cursor])
          OBVIOUS
        <5>1. Gathers(input, found, S) /\ S \subseteq DOMAIN input
          BY <4>2, <4>4 DEF CallFits, Ahead, Within
        <5> QED BY <2>1, <5>1, FoundTypes
      <4>5. CASE phase \notin {"range", "returned"}
        BY <2>1, <3>1, <4>2, <4>5 DEF CallFits, CursorFits, Calling
      <4> QED BY <4>3, <4>4, <4>5
    <3> QED BY <3>2, <3>3
  <2> QED BY <2>1, <2>2, <2>3, <2>5, <2>6 DEF TreeTypeOK
<1> QED BY <1>1, IndexInvHolds, PTL

-----------------------------------------------------------------------------
(* The leaves.                                                             *)

LEMMA LoadedTree ==
  ASSUME IndexInv, Loaded, DOMAIN input # {}
  PROVE  \E g : Stands(g, levels) /\ Shows(g) /\ g.ids = ToSet(meta.btree) /\ g.map = input
<1>1. PICK g : Grows(g) /\ phase \in {"loaded", "returned"}
  BY DEF IndexInv, Barren, Loaded
<1>2. Describes(g, input) /\ Stands(g, levels)
  BY <1>1 DEF Grows, LoadFits
<1>3. StoreFits /\ base = 0
  BY DEF IndexInv
<1> QED BY <1>2, <1>3, AllOwn DEF Describes, Shows

\* A leaf begins with the key it stands from.
LEMMA LeafBegins ==
  ASSUME NEW g, NEW cap, TreeShape(g), NodesFit(g, cap), AllStarted(g, {}),
         NEW id, id \in g.ids, NEW n, g.nodes[id] = n, n.leaf
  PROVE  n.keys # <<>> /\ n.keys[1] = g.lo[id]
<1> PICK ks, m : ks = n.keys /\ m = Len(n.keys)
  OBVIOUS
<1>1. /\ Whole(n) /\ Rises(ks) /\ g.lo[id] < g.hi[id] /\ g.lo[id] \in DOMAIN g.map
      /\ ToSet(ks) = Within(g.map, g.lo[id], g.hi[id])
  BY LeafFacts
<1>2. /\ ks \in Seq(Int) /\ m \in Nat /\ Len(ks) = m /\ DOMAIN ks = 1..m /\ g.lo[id] \in Int
      /\ \A k \in DOMAIN g.map : k \in Int
  BY <1>1, WholeIsStarted, LenProperties, ShapeFacts
<1>3. g.lo[id] \in ToSet(ks)
  BY <1>1, <1>2 DEF Within
<1>4. PICK i \in 1..m : ks[i] = g.lo[id]
  BY <1>2, <1>3 DEF ToSet
<1>5. 1 \in 1..m
  BY <1>2, <1>4, SMT
<1>6. g.lo[id] <= ks[1] /\ ks[1] \in Int
  <2>1. ks[1] \in ToSet(ks)
    BY <1>2, <1>5 DEF ToSet
  <2> QED BY <1>1, <1>2, <2>1 DEF Within
<1>7. ks[1] = g.lo[id]
  <2>1. CASE i = 1
    BY <1>4, <2>1
  <2>2. CASE i # 1
    <3>1. 1 < i
      BY <1>2, <2>2, SMT
    <3>2. ks[1] < ks[i]
      BY <1>1, <1>2, <1>5, <3>1 DEF Rises
    <3> QED BY <1>2, <1>4, <1>6, <3>2, SMT
  <2> QED BY <2>1, <2>2
<1>8. ks # <<>>
  BY <1>2, <1>5, SMT
<1> QED BY <1>7, <1>8

\* The keys above a leaf are those from where it ends.
LEMMA AboveLeaf ==
  ASSUME NEW g, Stands(g, levels), Shows(g), g.map = input, NEW id, id \in g.ids, g.nodes[id].leaf
  PROVE  /\ KeysOf(id) = Within(input, g.lo[id], g.hi[id])
         /\ KeysAbove(id) = {key \in DOMAIN input : g.hi[id] <= key}
<1> PICK n : n = g.nodes[id]
  OBVIOUS
<1>1. TreeShape(g) /\ NodesFit(g, capacity) /\ AllStarted(g, {})
  BY StandsFacts
<1>2. /\ g.lo[id] < g.hi[id] /\ g.lo[id] \in DOMAIN input
      /\ ToSet(n.keys) = Within(input, g.lo[id], g.hi[id])
  BY <1>1, LeafFacts
<1>3. NodeOf(id) = n
  BY NodeRead DEF NodeOf
<1>4. KeysOf(id) = Within(input, g.lo[id], g.hi[id])
  BY <1>2, <1>3 DEF KeysOf
<1>5. g.lo[id] \in Int /\ g.hi[id] \in Int /\ \A k \in DOMAIN input : k \in Int
  <2>1. id \in BlockIds
    BY <1>1, ShapeFacts
  <2> QED BY <1>1, <2>1, ShapeFacts
<1>6. ASSUME NEW key \in DOMAIN input
      PROVE  (\A k \in KeysOf(id) : k < key) <=> g.hi[id] <= key
  <2>1. ASSUME g.hi[id] <= key, NEW k \in KeysOf(id) PROVE k < key
    <3>1. k \in DOMAIN input /\ k < g.hi[id]
      BY <1>4, <2>1 DEF Within
    <3>2. k \in Int /\ key \in Int
      BY <1>5, <3>1
    <3> QED BY <1>5, <2>1, <3>1, <3>2, SMT
  <2>2. ASSUME \A k \in KeysOf(id) : k < key PROVE g.hi[id] <= key
    <3>1. g.lo[id] \in KeysOf(id)
      BY <1>2, <1>4, <1>5, SMT DEF Within
    <3>2. g.lo[id] < key
      BY <2>2, <3>1
    <3>3. key \in Int
      BY <1>5
    <3>4. CASE key < g.hi[id]
      <4>1. g.lo[id] <= key
        BY <1>5, <3>2, <3>3, SMT
      <4>2. key \in KeysOf(id)
        BY <1>4, <3>4, <4>1 DEF Within
      <4>3. key < key
        BY <2>2, <4>2
      <4> QED BY <3>3, <4>3, SMT
    <3> QED BY <1>5, <3>3, <3>4, SMT
  <2> QED BY <2>1, <2>2
<1> QED BY <1>4, <1>6 DEF KeysAbove

LEMMA LeafIsLinked ==
  ASSUME NEW g, Stands(g, levels), Shows(g), g.map = input, g.ids = ToSet(meta.btree),
         NEW id, id \in g.ids, g.nodes[id].leaf
  PROVE  LinkedInOrder(id)
<1> PICK n, link : n = g.nodes[id] /\ link = Last(n.pointers)
  OBVIOUS
<1>1. TreeShape(g) /\ NodesFit(g, capacity) /\ AllStarted(g, {}) /\ LinksFit(g, NoId)
  BY StandsFacts
<1>2. Whole(n) /\ Rises(n.keys) /\ n.keys # <<>>
  BY <1>1, LeafFacts, LeafBegins
<1>3. NodeOf(id) = n
  BY NodeRead DEF NodeOf
<1>4. KeysAbove(id) = {key \in DOMAIN input : g.hi[id] <= key}
  BY AboveLeaf
<1>5. LinkFits(g, id, link)
  <2>1. id # NoId /\ Started(n)
    BY <1>1, <1>2, ShapeFacts, WholeIsStarted
  <2> QED BY <1>1, <2>1 DEF LinksFit
<1>6. CASE link = BlockNull
  <2>1. g.hi[id] = MaxKey + 1
    BY <1>5, <1>6 DEF LinkFits
  <2>2. \A k \in DOMAIN input : ~(g.hi[id] <= k)
    <3>1. \A k \in DOMAIN input : k \in Int /\ k <= MaxKey /\ MaxKey \in Nat
      BY <1>1, ShapeFacts
    <3> QED BY <2>1, <3>1, SMT
  <2>3. KeysAbove(id) = {}
    BY <1>4, <2>2
  <2> QED BY <1>2, <1>3, <1>6, <2>3 DEF LinkedInOrder, Rises
<1>7. CASE link # BlockNull
  <2>1. link \in g.ids /\ g.nodes[link].leaf /\ g.lo[link] = g.hi[id]
    BY <1>5, <1>7 DEF LinkFits
  <2>2. NodeOf(link) = g.nodes[link]
    BY <2>1, NodeRead DEF NodeOf
  <2>3. NodeOf(link).keys[1] = g.hi[id] /\ g.lo[link] \in DOMAIN input
    BY <1>1, <2>1, <2>2, LeafBegins, LeafFacts
  <2>4. g.hi[id] \in DOMAIN input /\ g.hi[id] <= g.hi[id]
    <3>1. g.hi[id] \in Int
      BY <1>1, <2>1, <2>3, ShapeFacts
    <3> QED BY <2>1, <2>3, <3>1, SMT
  <2>5. NodeOf(link).keys[1] \in KeysAbove(id)
    BY <1>4, <2>3, <2>4
  <2>6. \A key \in KeysAbove(id) : NodeOf(link).keys[1] <= key
    BY <1>4, <2>3
  <2>7. link \in LeafIds
    BY <2>1, <2>2 DEF LeafIds
  <2>8. KeysAbove(id) # {}
    BY <2>5
  <2> QED BY <1>2, <1>3, <2>5, <2>6, <2>7, <2>8 DEF LinkedInOrder, Rises
<1> QED BY <1>6, <1>7

\* For every capacity and every map of keys, bulk_load leaves leaves that share
\* out the keys and are linked in key order, the last one to no block
\* (btree.cpp load_leaf, which inserts a leaf before its left sibling links to
\* it).
THEOREM LeavesStayLinked == Spec => []LeavesAreLinked
<1>1. IndexInv => LeavesAreLinked
  <2> SUFFICES ASSUME IndexInv, Loaded, DOMAIN input # {}
               PROVE  /\ \A id \in LeafIds : LinkedInOrder(id)
                      /\ \A i, j \in LeafIds : i # j => KeysOf(i) \cap KeysOf(j) = {}
                      /\ UNION {KeysOf(id) : id \in LeafIds} = DOMAIN input
    BY DEF LeavesAreLinked
  <2>1. PICK g : Stands(g, levels) /\ Shows(g) /\ g.ids = ToSet(meta.btree) /\ g.map = input
    BY LoadedTree
  <2>2. /\ TreeShape(g) /\ NodesFit(g, capacity) /\ AllStarted(g, {})
        /\ LeavesInOrder(g) /\ LeavesCover(g, MaxKey + 1)
    BY <2>1, StandsFacts
  <2>3. \A id \in g.ids : NodeOf(id) = g.nodes[id]
    BY <2>1, NodeRead DEF NodeOf
  <2>4. \A id : id \in LeafIds <=> id \in g.ids /\ g.nodes[id].leaf
    BY <2>1, <2>3 DEF LeafIds
  <2>5. \A id \in LeafIds : LinkedInOrder(id)
    BY <2>1, <2>4, LeafIsLinked
  <2>6. \A id \in LeafIds : KeysOf(id) = Within(input, g.lo[id], g.hi[id])
    BY <2>1, <2>4, AboveLeaf
  <2>7. \A id \in LeafIds : g.lo[id] \in Int /\ g.hi[id] \in Int /\ id \in Nat
    <3>1. \A id \in LeafIds : id \in BlockIds /\ id \in Nat
      BY <2>2, <2>4, ShapeFacts
    <3> QED BY <2>2, <3>1, ShapeFacts
  <2>8. \A k \in DOMAIN input : k \in Int /\ k < MaxKey + 1
    <3>1. \A k \in DOMAIN input : k \in Int /\ k <= MaxKey /\ MaxKey \in Nat
      BY <2>1, <2>2, ShapeFacts
    <3> QED BY <3>1, SMT
  <2>9. ASSUME NEW i \in LeafIds, NEW j \in LeafIds, i < j PROVE KeysOf(i) \cap KeysOf(j) = {}
    <3>1. g.hi[i] <= g.lo[j]
      BY <2>2, <2>4, <2>9 DEF LeavesInOrder
    <3>2. ASSUME NEW k, k \in KeysOf(i), k \in KeysOf(j) PROVE FALSE
      <4>1. k \in DOMAIN input /\ k < g.hi[i] /\ g.lo[j] <= k
        BY <2>6, <3>2 DEF Within
      <4>2. k \in Int /\ g.hi[i] \in Int /\ g.lo[j] \in Int
        BY <2>7, <2>8, <4>1
      <4> QED BY <3>1, <4>1, <4>2, SMT
    <3> QED BY <3>2
  <2>10. \A i, j \in LeafIds : i # j => KeysOf(i) \cap KeysOf(j) = {}
    <3> SUFFICES ASSUME NEW i \in LeafIds, NEW j \in LeafIds, i # j PROVE KeysOf(i) \cap KeysOf(j) = {}
      OBVIOUS
    <3>1. i < j \/ j < i
      BY <2>7, SMT
    <3>2. KeysOf(i) \cap KeysOf(j) = KeysOf(j) \cap KeysOf(i)
      OBVIOUS
    <3> QED BY <2>9, <3>1, <3>2
  <2>11. ASSUME NEW k \in DOMAIN input PROVE \E id \in LeafIds : k \in KeysOf(id)
    <3>1. k < MaxKey + 1
      BY <2>8
    <3>2. PICK id \in g.ids : g.nodes[id].leaf /\ g.lo[id] <= k /\ k < g.hi[id]
      BY <2>1, <2>2, <3>1 DEF LeavesCover
    <3>3. id \in LeafIds
      BY <2>4, <3>2
    <3> QED BY <2>6, <3>2, <3>3 DEF Within
  <2>12. \A id \in LeafIds : KeysOf(id) \subseteq DOMAIN input
    BY <2>6 DEF Within
  <2>13. UNION {KeysOf(id) : id \in LeafIds} = DOMAIN input
    <3> HIDE DEF KeysOf, LeafIds
    <3> QED BY <2>11, <2>12
  <2> QED BY <2>5, <2>10, <2>13
<1> QED BY <1>1, IndexInvHolds, PTL

-----------------------------------------------------------------------------
(* Subtrees.                                                               *)

Below(id) == ToSet(NodeOf(id).pointers) \cap 0..(id - 1)
SubtreeOf(s, id) ==
  IF NodeOf(id).leaf \/ Below(id) = {}
  THEN [height |-> 1, keys |-> ToSet(NodeOf(id).keys)]
  ELSE [height |-> 1 + s[CHOOSE p \in Below(id) : TRUE].height,
        keys   |-> UNION {s[p].keys : p \in Below(id)}]
IsSubtree(s, most) == s = [id \in 0..most |-> SubtreeOf(s, id)]

LEMMA SubtreeLocal ==
  ASSUME NEW g, NEW h, NEW id, id \in Nat, \A p \in 0..id - 1 : g[p] = h[p]
  PROVE  SubtreeOf(g, id) = SubtreeOf(h, id)
<1> PICK B, q : B = Below(id) /\ q = CHOOSE p \in Below(id) : TRUE
  OBVIOUS
<1>1. \A p \in B : g[p] = h[p]
  BY DEF Below
<1>2. {g[p].keys : p \in B} = {h[p].keys : p \in B}
  BY <1>1
<1>3. B # {} => q \in B
  BY Zenon
<1>4. B # {} => g[q] = h[q]
  BY <1>1, <1>3
<1>5. CASE NodeOf(id).leaf \/ B = {}
  BY <1>5 DEF SubtreeOf
<1>6. CASE ~(NodeOf(id).leaf \/ B = {})
  <2>1. SubtreeOf(g, id) = [height |-> 1 + g[q].height, keys |-> UNION {g[p].keys : p \in B}]
    BY <1>6, Zenon DEF SubtreeOf
  <2>2. SubtreeOf(h, id) = [height |-> 1 + h[q].height, keys |-> UNION {h[p].keys : p \in B}]
    BY <1>6, Zenon DEF SubtreeOf
  <2>3. g[q] = h[q]
    BY <1>4, <1>6
  <2> PICK G, H : G = {g[p].keys : p \in B} /\ H = {h[p].keys : p \in B}
    OBVIOUS
  <2>4. G = H
    BY <1>2
  <2>5. SubtreeOf(g, id) = [height |-> 1 + g[q].height, keys |-> UNION G]
    BY <2>1, Zenon
  <2>6. SubtreeOf(h, id) = [height |-> 1 + h[q].height, keys |-> UNION H]
    BY <2>2, Zenon
  <2> QED BY <2>3, <2>4, <2>5, <2>6
<1> QED BY <1>5, <1>6

LEMMA SubtreeExists ==
  ASSUME NEW most, most \in Nat
  PROVE  \E s : IsSubtree(s, most)
<1> DEFINE Bad == {n \in Nat : ~\E s : IsSubtree(s, n)}
<1> SUFFICES ASSUME Bad # {} PROVE FALSE
  BY Zenon
<1>1. PICK n \in Bad : \A m \in Bad : n <= m
  BY LeastNat, Zenon
<1>2. n \in Nat /\ ~\E s : IsSubtree(s, n)
  BY Zenon
<1>3. CASE n = 0
  <2> DEFINE none == [id \in 0..0 |-> 0]
             g == [id \in 0..0 |-> SubtreeOf(none, id)]
  <2>1. \A id \in 0..0 : SubtreeOf(none, id) = SubtreeOf(g, id)
    <3> SUFFICES ASSUME NEW id \in 0..0 PROVE SubtreeOf(none, id) = SubtreeOf(g, id)
      BY Zenon
    <3>1. id \in Nat /\ \A k \in 0..id - 1 : none[k] = g[k]
      BY SMT
    <3> HIDE DEF none, g
    <3> QED BY <3>1, SubtreeLocal
  <2>2. IsSubtree(g, 0)
    BY <2>1, Zenon DEF IsSubtree
  <2> QED BY <1>2, <1>3, <2>2, Zenon
<1>4. CASE n # 0
  <2>1. n - 1 \in Nat /\ ~(n <= n - 1)
    BY <1>2, <1>4, SMT
  <2>2. PICK g : IsSubtree(g, n - 1)
    BY <1>1, <2>1, Zenon
  <2> DEFINE h == [id \in 0..n |-> IF id = n THEN SubtreeOf(g, n) ELSE g[id]]
  <2>3. \A k \in 0..n - 1 : h[k] = g[k] /\ g[k] = SubtreeOf(g, k)
    BY <1>2, <2>2, SMT DEF IsSubtree
  <2>4. ASSUME NEW id \in 0..n PROVE h[id] = SubtreeOf(h, id)
    <3>1. id \in Nat /\ \A k \in 0..id - 1 : k \in 0..n - 1
      BY <1>2, SMT
    <3>2. SubtreeOf(h, id) = SubtreeOf(g, id)
      <4> HIDE DEF h
      <4>1. \A k \in 0..id - 1 : h[k] = g[k]
        BY <2>3, <3>1, Zenon
      <4> QED BY <3>1, <4>1, SubtreeLocal
    <3>3. CASE id = n
      BY <3>2, <3>3, Zenon
    <3>4. CASE id # n
      <4>1. id \in 0..n - 1
        BY <1>2, <3>4, SMT
      <4> QED BY <2>3, <3>2, <4>1, Zenon
    <3> QED BY <3>3, <3>4
  <2>5. IsSubtree(h, n)
    BY <2>4, Zenon DEF IsSubtree
  <2> QED BY <1>2, <2>5, Zenon
<1> QED BY <1>3, <1>4

LEMMA SubtreeUnfolds ==
  \A id \in BlockIds : Subtree[id] = SubtreeOf(Subtree, id)
<1> DEFINE t == CHOOSE s : IsSubtree(s, BlockNull)
<1>1. IsSubtree(t, BlockNull)
  <2>1. BlockNull \in Nat
    BY BlocksAssumption
  <2> QED BY <2>1, SubtreeExists, Zenon
<1>2. Subtree = t
  BY Zenon DEF Subtree, IsSubtree, SubtreeOf, Below, BlockIds
<1> HIDE DEF t
<1>3. \A id \in 0..BlockNull : t[id] = SubtreeOf(t, id)
  BY <1>1, Zenon DEF IsSubtree
<1> QED BY <1>2, <1>3 DEF BlockIds

\* What an internal node stands for is what its children do.
InnerOf(g, id, n) ==
  /\ Whole(n) /\ Rises(n.keys) /\ InnerFits(g, id, n.keys, n.pointers) /\ g.lo[id] < g.hi[id]
  /\ g.hi[id] <= MaxKey + 1

LEMMA InnerFacts ==
  ASSUME NEW g, Stands(g, levels), NEW id, id \in g.ids, NEW n, g.nodes[id] = n, ~n.leaf
  PROVE  InnerOf(g, id, n)
<1>1. NodesFit(g, capacity) /\ AllStarted(g, {})
  BY StandsFacts
<1>2. NodeFits(g, id, capacity) /\ Started(n)
  BY <1>1 DEF NodesFit, AllStarted
<1>3. Whole(n) /\ SpanFits(g, id)
  BY <1>2 DEF NodeFits, Growing, Started
<1> QED BY <1>2, <1>3 DEF NodeFits, SpanFits, InnerOf

\* The span of a child lies in that of its parent.
LEMMA ChildWithin ==
  ASSUME NEW g, Stands(g, levels), NEW id, id \in g.ids, NEW n, g.nodes[id] = n, ~n.leaf,
         NEW p, p \in ToSet(n.pointers)
  PROVE  ChildFits(g, id, p) /\ g.lo[id] <= g.lo[p] /\ g.hi[p] <= g.hi[id]
<1>1. InnerOf(g, id, n) /\ TreeShape(g)
  BY InnerFacts, StandsFacts
<1> PICK ks, ps, m : ks = n.keys /\ ps = n.pointers /\ m = Len(n.keys)
  OBVIOUS
<1>2. /\ ks \in Seq(Int) /\ m \in Nat /\ Len(ps) = m + 1 /\ Len(ks) = m /\ ps # <<>>
      /\ ps \in Seq(BlockIds)
  BY <1>1, WholeIsStarted DEF InnerOf, Started
<1>3. DOMAIN ps = 1..m + 1 /\ \A i \in 1..m : ks[i] \in Int
  BY <1>2, LenProperties, ElementOfSeq
<1>4. PICK j \in 1..m + 1 : p = ps[j]
  BY <1>3 DEF ToSet
<1>5. /\ \A i \in 1..m + 1 : ChildFits(g, id, ps[i])
      /\ \A i \in 1..m : g.hi[ps[i]] = ks[i] /\ g.lo[ps[i + 1]] = ks[i] /\ ks[i] < g.hi[id]
      /\ g.lo[ps[1]] = g.lo[id] /\ g.hi[ps[m + 1]] = g.hi[id]
      /\ \A i, k \in 1..m : i < k => ks[i] < ks[k]
  BY <1>1, <1>2 DEF InnerOf, InnerFits, Rises
<1>6. g.lo[id] \in Int /\ g.hi[id] \in Int
  <2>1. id \in BlockIds
    BY <1>1, ShapeFacts
  <2> QED BY <1>1, <2>1, ShapeFacts
<1>7. g.hi[p] <= g.hi[id]
  <2>1. CASE j = m + 1
    BY <1>4, <1>5, <1>6, <2>1, SMT
  <2>2. CASE j # m + 1
    <3>1. j \in 1..m
      BY <1>2, <1>4, <2>2, SMT
    <3>2. g.hi[p] = ks[j] /\ ks[j] < g.hi[id] /\ ks[j] \in Int
      BY <1>3, <1>4, <1>5, <3>1
    <3> QED BY <1>6, <3>2, SMT
  <2> QED BY <2>1, <2>2
<1>8. g.lo[id] <= g.lo[p]
  <2>1. CASE j = 1
    BY <1>4, <1>5, <1>6, <2>1, SMT
  <2>2. CASE j # 1
    <3> PICK i : i = j - 1
      OBVIOUS
    <3>1. i \in 1..m /\ i + 1 = j /\ 1 \in 1..m /\ 1 \in 1..m + 1
      BY <1>2, <1>4, <2>2, SMT
    <3>2. g.lo[p] = ks[i] /\ ks[i] \in Int /\ ks[1] \in Int
      BY <1>3, <1>4, <1>5, <3>1
    <3>3. g.lo[ps[1]] <= g.hi[ps[1]] /\ g.hi[ps[1]] = ks[1]
      BY <1>5, <3>1 DEF ChildFits
    <3>4. ks[1] <= ks[i]
      <4>1. CASE i = 1
        BY <3>2, <4>1, SMT
      <4>2. CASE i # 1
        <5>1. 1 < i
          BY <1>2, <3>1, <4>2, SMT
        <5>2. ks[1] < ks[i]
          BY <1>5, <3>1, <5>1
        <5> QED BY <3>2, <5>2, SMT
      <4> QED BY <4>1, <4>2
    <3> QED BY <1>5, <1>6, <3>2, <3>3, <3>4, SMT
  <2> QED BY <2>1, <2>2
<1> QED BY <1>4, <1>5, <1>7, <1>8

\* Every key an internal node stands for is in one of its children.
LEMMA ChildHas ==
  ASSUME NEW g, Stands(g, levels), NEW id, id \in g.ids, NEW n, g.nodes[id] = n, ~n.leaf,
         NEW k, k \in Within(g.map, g.lo[id], g.hi[id])
  PROVE  \E p \in ToSet(n.pointers) : k \in Within(g.map, g.lo[p], g.hi[p])
<1>1. InnerOf(g, id, n) /\ TreeShape(g) /\ NodesFit(g, capacity) /\ AllStarted(g, {})
  BY InnerFacts, StandsFacts
<1>2. k \in DOMAIN g.map /\ g.lo[id] <= k /\ k < g.hi[id]
  BY DEF Within
<1>3. k \in Int
  BY <1>1, <1>2, ShapeFacts
<1>4. Reaches(g, id, k)
  BY <1>2 DEF Reaches
<1> PICK c : c = Child(n, k)
  OBVIOUS
<1>5. Reaches(g, c, k)
  BY <1>1, <1>3, <1>4, ChildReaches
<1>6. g.lo[c] <= k /\ k < g.hi[c]
  BY <1>2, <1>5 DEF Reaches
<1>7. PICK j : ChildAt(n, k, j)
  BY <1>1, <1>3, ChildIsRight DEF InnerOf
<1>8. c \in ToSet(n.pointers)
  <2>1. n.pointers \in Seq(BlockIds)
    BY <1>1, WholeIsStarted DEF InnerOf
  <2>2. DOMAIN n.pointers = 1..Len(n.pointers)
    BY <2>1, LenProperties
  <2> QED BY <1>7, <2>2 DEF ChildAt, ToSet
<1> QED BY <1>2, <1>6, <1>8 DEF Within

\* A subtree is as high as its node stands, and has the keys it stands for.
SubtreeIs(g, id) == Height(id) = g.ht[id] /\ KeysUnder(id) = Within(g.map, g.lo[id], g.hi[id])

LEMMA LeafSubtree ==
  ASSUME NEW g, Stands(g, levels), Shows(g), NEW id, id \in g.ids, g.nodes[id].leaf
  PROVE  SubtreeIs(g, id)
<1> PICK n : n = g.nodes[id]
  OBVIOUS
<1>1. TreeShape(g) /\ NodesFit(g, capacity) /\ AllStarted(g, {}) /\ id \in BlockIds
  BY StandsFacts, HeightFacts
<1>2. NodeFits(g, id, capacity)
  BY <1>1 DEF NodesFit
<1>3. LeafFits(g, id, n.keys, n.pointers)
  BY <1>2 DEF NodeFits
<1>4. NodeOf(id) = n
  BY NodeRead DEF NodeOf
<1>5. Subtree[id] = [height |-> 1, keys |-> ToSet(n.keys)]
  BY <1>1, <1>4, SubtreeUnfolds DEF SubtreeOf
<1> QED BY <1>3, <1>5 DEF LeafFits, SubtreeIs, Height, KeysUnder

LEMMA InnerSubtree ==
  ASSUME NEW g, Stands(g, levels), Shows(g), NEW id, id \in g.ids, ~g.nodes[id].leaf,
         \A p \in g.ids : p < id => SubtreeIs(g, p)
  PROVE  SubtreeIs(g, id)
<1> PICK n, ps, B : n = g.nodes[id] /\ ps = ToSet(g.nodes[id].pointers) /\ B = Below(id)
  OBVIOUS
<1>1. TreeShape(g) /\ InnerOf(g, id, n) /\ id \in BlockIds /\ g.ht[id] \in Int
  BY StandsFacts, HeightFacts, InnerFacts
<1>2. NodeOf(id) = n
  BY NodeRead DEF NodeOf
<1>3. \A p \in ps : /\ p \in g.ids /\ p < id /\ g.ht[p] = g.ht[id] - 1
                    /\ g.lo[id] <= g.lo[p] /\ g.hi[p] <= g.hi[id]
  BY ChildWithin DEF ChildFits
<1>4. B = ps
  <2>1. \A p \in ps : p \in Nat /\ p <= id - 1
    <3>1. \A p \in ps : p \in Nat /\ p < id /\ id \in Nat
      BY <1>1, <1>3, ShapeFacts
    <3> QED BY <3>1, SMT
  <2>2. \A p \in ps : p \in 0..(id - 1)
    <3>1. id \in Nat
      BY <1>1, ShapeFacts
    <3> QED BY <2>1, <3>1, SMT
  <2> QED BY <1>2, <2>2 DEF Below
<1>5. B # {}
  <2>1. n.pointers \in Seq(BlockIds) /\ Len(n.pointers) = Len(n.keys) + 1 /\ Len(n.keys) \in Nat
    BY <1>1, WholeIsStarted DEF InnerOf
  <2>2. DOMAIN n.pointers = 1..Len(n.pointers) /\ 1 \in 1..Len(n.pointers)
    <3>1. DOMAIN n.pointers = 1..Len(n.pointers)
      BY <2>1, LenProperties
    <3>2. 1 \in 1..Len(n.pointers)
      BY <2>1, SMT
    <3> QED BY <3>1, <3>2
  <2> QED BY <1>4, <2>2 DEF ToSet
<1> PICK q : q = CHOOSE p \in B : TRUE
  OBVIOUS
<1>6. q \in ps
  BY <1>4, <1>5
<1>7. \A p \in ps : SubtreeIs(g, p)
  BY <1>3
<1>8. Subtree[id] = [height |-> 1 + Subtree[q].height, keys |-> UNION {Subtree[p].keys : p \in B}]
  <2>1. Subtree[id] = SubtreeOf(Subtree, id)
    BY <1>1, SubtreeUnfolds
  <2> QED BY <1>2, <1>5, <2>1, Zenon DEF SubtreeOf
<1>9. Height(id) = g.ht[id]
  <2>1. Subtree[q].height = g.ht[id] - 1
    BY <1>3, <1>6, <1>7 DEF SubtreeIs, Height
  <2>2. Height(id) = 1 + Subtree[q].height
    BY <1>8 DEF Height
  <2> QED BY <1>1, <2>1, <2>2, SMT
<1>10. KeysUnder(id) = UNION {KeysUnder(p) : p \in ps}
  BY <1>4, <1>8 DEF KeysUnder
<1> PICK W : W = Within(g.map, g.lo[id], g.hi[id])
  OBVIOUS
<1>11. \A p \in ps : KeysUnder(p) = Within(g.map, g.lo[p], g.hi[p])
  BY <1>7 DEF SubtreeIs
<1>12. ASSUME NEW p \in ps, NEW k \in KeysUnder(p) PROVE k \in W
  <2>1. k \in DOMAIN g.map /\ g.lo[p] <= k /\ k < g.hi[p]
    BY <1>11 DEF Within
  <2>2. p \in BlockIds
    BY <1>1, <1>3, ShapeFacts
  <2>3. k \in Int /\ g.lo[p] \in Int /\ g.hi[p] \in Int /\ g.lo[id] \in Int /\ g.hi[id] \in Int
    BY <1>1, <2>1, <2>2, ShapeFacts
  <2>4. g.lo[id] <= g.lo[p] /\ g.hi[p] <= g.hi[id]
    BY <1>3
  <2>5. g.lo[id] <= k /\ k < g.hi[id]
    BY <2>1, <2>3, <2>4, SMT
  <2> QED BY <2>1, <2>5 DEF Within
<1>13. ASSUME NEW k \in W PROVE \E p \in ps : k \in KeysUnder(p)
  BY <1>11, ChildHas
<1> HIDE DEF KeysUnder
<1>14. KeysUnder(id) = W
  BY <1>10, <1>12, <1>13
<1> QED BY <1>9, <1>14 DEF SubtreeIs

LEMMA SubtreesAre ==
  ASSUME NEW g, Stands(g, levels), Shows(g)
  PROVE  \A id \in g.ids : SubtreeIs(g, id)
<1> DEFINE T == {id \in g.ids : ~SubtreeIs(g, id)}
<1> SUFFICES ASSUME T # {} PROVE FALSE
  OBVIOUS
<1>1. T \subseteq Nat
  BY StandsFacts, ShapeFacts
<1>2. PICK id \in T : \A p \in T : id <= p
  BY <1>1, LeastNat
<1>3. id \in g.ids /\ ~SubtreeIs(g, id) /\ id \in Nat
  BY <1>1, <1>2
<1>4. ASSUME NEW p \in g.ids, p < id PROVE SubtreeIs(g, p)
  <2>1. p \in Nat
    BY StandsFacts, ShapeFacts
  <2>2. ~(id <= p)
    BY <1>3, <1>4, <2>1, SMT
  <2> QED BY <1>2, <2>2
<1> QED BY <1>3, <1>4, LeafSubtree, InnerSubtree

LEMMA NodeSeparates ==
  ASSUME NEW g, Stands(g, levels), Shows(g), NEW id, id \in g.ids
  PROVE  WellSeparated(id) /\ Len(NodeOf(id).keys) <= capacity
<1> PICK n : n = g.nodes[id]
  OBVIOUS
<1>1. NodeOf(id) = n
  BY NodeRead DEF NodeOf
<1>2. Len(n.keys) <= capacity
  BY StandsFacts DEF NodesFit, NodeFits
<1>3. CASE n.leaf
  BY <1>1, <1>2, <1>3 DEF WellSeparated
<1>4. CASE ~n.leaf
  <2>1. InnerOf(g, id, n) /\ TreeShape(g)
    BY <1>4, InnerFacts, StandsFacts
  <2> PICK ks, ps, m : ks = n.keys /\ ps = n.pointers /\ m = Len(n.keys)
    OBVIOUS
  <2>2. /\ ks \in Seq(Int) /\ ps \in Seq(BlockIds) /\ m \in Nat /\ Len(ps) = m + 1 /\ Len(ks) = m
        /\ ps # <<>>
    BY <2>1, WholeIsStarted DEF InnerOf, Started
  <2>3. DOMAIN ps = 1..m + 1 /\ DOMAIN ks = 1..m /\ \A i \in 1..m : ks[i] \in Int
    BY <2>2, LenProperties, ElementOfSeq
  <2>4. /\ \A i \in 1..m + 1 : ChildFits(g, id, ps[i])
        /\ \A i \in 1..m : g.hi[ps[i]] = ks[i] /\ g.lo[ps[i + 1]] = ks[i]
    BY <2>1, <2>2 DEF InnerOf, InnerFits
  <2>5. \A i \in 1..m + 1 : ps[i] \in g.ids /\ ps[i] < id /\ g.ht[ps[i]] = g.ht[id] - 1
    BY <2>4 DEF ChildFits
  <2>6. \A p \in g.ids : SubtreeIs(g, p)
    BY SubtreesAre
  <2>7. \A i \in DOMAIN ps : ps[i] < id /\ Height(ps[i]) = Height(id) - 1
    BY <2>3, <2>5, <2>6 DEF SubtreeIs
  <2>8. \A i \in 1..m : i \in 1..m + 1 /\ i + 1 \in 1..m + 1
    BY <2>2, SMT
  <2>9. ASSUME NEW i \in 1..m PROVE \A k \in KeysUnder(ps[i]) : k < ks[i]
    <3>1. KeysUnder(ps[i]) = Within(g.map, g.lo[ps[i]], g.hi[ps[i]])
      BY <2>5, <2>6, <2>8 DEF SubtreeIs
    <3> QED BY <2>4, <3>1 DEF Within
  <2>10. ASSUME NEW i \in 1..m PROVE \A k \in KeysUnder(ps[i + 1]) : k >= ks[i]
    <3>1. KeysUnder(ps[i + 1]) = Within(g.map, g.lo[ps[i + 1]], g.hi[ps[i + 1]])
      BY <2>5, <2>6, <2>8 DEF SubtreeIs
    <3>2. \A k \in KeysUnder(ps[i + 1]) : k \in DOMAIN g.map /\ ks[i] <= k
      BY <2>4, <3>1 DEF Within
    <3>3. \A k \in KeysUnder(ps[i + 1]) : k \in Int
      BY <2>1, <3>2, ShapeFacts
    <3>4. ks[i] \in Int
      BY <2>3
    <3> QED BY <3>2, <3>3, <3>4, SMT
  <2>11. WellSeparated(id)
    BY <1>1, <2>2, <2>3, <2>7, <2>9, <2>10 DEF WellSeparated
  <2> QED BY <1>1, <1>2, <2>11
<1> QED BY <1>3, <1>4

\* For every capacity and every map of keys, what bulk_load leaves is a search
\* tree over exactly the keys given, with all leaves at one depth, as high as
\* the number of levels it returns, and with no node over its capacity
\* (btree.h:46-49, btree.cpp load_leaf and load_internal).
THEOREM TreeStaysSearchTree == Spec => []TreeIsSearchTree
<1>1. IndexInv => TreeIsSearchTree
  <2> SUFFICES ASSUME IndexInv, Loaded, DOMAIN input # {}
               PROVE  /\ \A id \in ToSet(meta.btree) :
                           WellSeparated(id) /\ Len(NodeOf(id).keys) <= capacity
                      /\ KeysUnder(meta.root) = DOMAIN input
                      /\ Height(meta.root) = levels
    BY DEF TreeIsSearchTree
  <2>1. PICK g : Stands(g, levels) /\ Shows(g) /\ g.ids = ToSet(meta.btree) /\ g.map = input
    BY LoadedTree
  <2>2. \A id \in ToSet(meta.btree) : WellSeparated(id) /\ Len(NodeOf(id).keys) <= capacity
    BY <2>1, NodeSeparates
  <2> PICK root : root = meta.root
    OBVIOUS
  <2>3. RootFits(g, root, levels) /\ TreeShape(g)
    BY <2>1, StandsFacts
  <2>4. /\ root \in g.ids /\ g.hi[root] = MaxKey + 1 /\ g.ht[root] = levels
        /\ \A k \in DOMAIN input : g.lo[root] <= k
    BY <2>1, <2>3 DEF RootFits
  <2>5. SubtreeIs(g, root)
    BY <2>1, <2>4, SubtreesAre
  <2>6. Within(input, g.lo[root], g.hi[root]) = DOMAIN input
    <3>1. \A k \in DOMAIN input : k \in Int /\ k <= MaxKey /\ MaxKey \in Nat
      BY <2>1, <2>3, ShapeFacts
    <3>2. \A k \in DOMAIN input : k < MaxKey + 1
      BY <3>1, SMT
    <3> QED BY <2>4, <3>2 DEF Within
  <2> QED BY <2>1, <2>2, <2>4, <2>5, <2>6 DEF SubtreeIs
<1> QED BY <1>1, IndexInvHolds, PTL
=============================================================================
