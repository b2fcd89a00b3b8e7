----------------------------- MODULE LoadProofs -----------------------------
(***************************************************************************)
(* Proofs about what a load of project1's program leaves in the file:      *)
(* blocks of their kind, whole tables, and nodes and links that a query    *)
(* can follow.                                                             *)
(***************************************************************************)
EXTENDS DatabaseProofs

-----------------------------------------------------------------------------
(* Every block is written as the kind it is registered for.                *)

\* The ids from base on stand at the end of their list and ascend: those before
\* them are smaller, whatever order a damaged file gave them.
Recent(m, b) == AscendsFrom(m.data, b) /\ AscendsFrom(m.btree, b)
IsTreeId(id) == id \in ToSet(meta.btree) \ ToSet(meta.data)

\* The buffered block, and the nodes bulk_load has in its hands, are in the
\* list of their kind, and tree nodes in no other.
KindInv ==
  /\ Recent(meta, base)
  /\ pending.to = "block" =>
       \/ pending.block.kind = "data" /\ pending.id \in ToSet(meta.data)
       \/ pending.block.kind = "btree" /\ IsTreeId(pending.id)
  /\ nodeId # BlockNull => IsTreeId(nodeId)
  /\ nextLeaf # NoId => IsTreeId(nextLeaf)

LEMMA AllOld ==
  ASSUME NEW m \in MetaType, NEW b \in Nat, \A id \in IdsOf(m) : id < b
  PROVE  Recent(m, b)
<1>1. ASSUME NEW s \in Seq(BlockIds), \A y \in ToSet(s) : y < b
      PROVE  AscendsFrom(s, b)
  <2>1. \A i \in 1..Len(s) : s[i] < b /\ s[i] \in Nat
    <3>1. \A i \in 1..Len(s) : s[i] \in BlockIds /\ i \in DOMAIN s
      BY SMT
    <3>2. BlockIds \subseteq Nat
      BY BlocksAssumption, SMT DEF BlockIds
    <3> QED BY <1>1, <3>1, <3>2 DEF ToSet
  <2> QED BY <2>1, SMT DEF AscendsFrom
<1> QED BY <1>1, MetaFacts DEF Recent, IdsOf

LEMMA AppendAscendsFrom ==
  ASSUME NEW s \in Seq(BlockIds), NEW b \in Nat, AscendsFrom(s, b),
         NEW x \in BlockIds, \A y \in ToSet(s) : y < x
  PROVE  AscendsFrom(Append(s, x), b)
<1> DEFINE a == Append(s, x)
           n == Len(s)
<1>1. /\ n \in Nat /\ Len(a) = n + 1 /\ a[n + 1] = x
      /\ \A i \in 1..n : a[i] = s[i] /\ s[i] \in BlockIds /\ i \in DOMAIN s
  BY SMT
<1>2. \A i \in 1..n : s[i] < x
  BY <1>1 DEF ToSet
<1>3. BlockIds \subseteq Nat
  BY BlocksAssumption, SMT DEF BlockIds
<1>4. \A i, j \in 1..n : i <= j /\ b <= s[i] => s[i] <= s[j]
  BY DEF AscendsFrom
<1> HIDE DEF a, n
<1> SUFFICES ASSUME NEW i \in 1..n + 1, NEW j \in 1..n + 1, i <= j, b <= a[i]
             PROVE  a[i] <= a[j]
  BY <1>1 DEF AscendsFrom, a
<1>5. CASE j \in 1..n
  <2>1. i \in 1..n
    BY <1>1, <1>5, SMT
  <2> QED BY <1>1, <1>4, <1>5, <2>1
<1>6. CASE j \notin 1..n
  <2>1. j = n + 1 /\ (i \in 1..n \/ i = n + 1)
    BY <1>1, <1>6, SMT
  <2>2. a[i] \in Nat /\ x \in Nat /\ (a[i] < x \/ a[i] = x)
    BY <1>1, <1>2, <1>3, <2>1
  <2> QED BY <1>1, <2>1, <2>2, SMT
<1> QED BY <1>5, <1>6

\* A new id is greater than the others (Metadata::new_id): registering it keeps
\* the lists fit for the search, and it is in its own list only.
LEMMA InsertLists ==
  ASSUME IInv, Recent(meta, base), NEW block, Insert(block)
  PROVE  /\ Recent(meta', base')
         /\ block.kind = "data" => NewId(meta) \in ToSet(meta'.data)
         /\ block.kind # "data" =>
              /\ NewId(meta) \in ToSet(meta'.btree) \ ToSet(meta'.data)
              /\ \A id : IsTreeId(id) => IsTreeId(id)'
<1> DEFINE c == Count(meta)
<1>1. /\ meta \in MetaType /\ c \in Nat /\ c < MaxBlocks /\ base \in Nat
      /\ \A id \in IdsOf(meta) : id < c
      /\ meta' = Register(meta, block.kind) /\ base' = base
  BY InvFacts DEF Insert, Ready, IInv, StoreInv
<1>2. c < BlockNull /\ c \in BlockIds
  <2>1. c \in Nat /\ c < MaxBlocks
    BY <1>1
  <2> HIDE DEF c
  <2> QED BY <2>1, BlocksAssumption, DiskStoreAssumption, SMT DEF BlockIds
<1>3. NewId(meta) = c
  BY <1>1, <1>2, RegisterLemma
<1>4. meta.data \in Seq(BlockIds) /\ meta.btree \in Seq(BlockIds)
  BY <1>1, MetaFacts
<1>5. (\A y \in ToSet(meta.data) : y < c) /\ (\A y \in ToSet(meta.btree) : y < c)
  BY <1>1 DEF IdsOf
<1>6. c \notin ToSet(meta.data)
  <2>1. c \in Nat
    BY <1>1
  <2> HIDE DEF c
  <2>2. ~(c < c)
    BY <2>1, SMT
  <2> QED BY <1>5, <2>2
<1> HIDE DEF c
<1>7. CASE block.kind = "data"
  <2>1. meta'.data = Append(meta.data, c) /\ meta'.btree = meta.btree
    BY <1>1, <1>3, <1>7 DEF Register, MetaType
  <2>2. AscendsFrom(meta'.data, base) /\ ToSet(meta'.data) = ToSet(meta.data) \cup {c}
    BY <1>1, <1>2, <1>4, <1>5, <2>1, AppendAscendsFrom, AppendLemma DEF Recent
  <2> QED BY <1>1, <1>3, <1>7, <2>1, <2>2 DEF Recent
<1>8. CASE block.kind # "data"
  <2>1. meta'.btree = Append(meta.btree, c) /\ meta'.data = meta.data
    BY <1>1, <1>3, <1>8 DEF Register, MetaType
  <2>2. AscendsFrom(meta'.btree, base) /\ ToSet(meta'.btree) = ToSet(meta.btree) \cup {c}
    BY <1>1, <1>2, <1>4, <1>5, <2>1, AppendAscendsFrom, AppendLemma DEF Recent
  <2> QED BY <1>1, <1>3, <1>6, <1>8, <2>1, <2>2 DEF Recent, IsTreeId
<1> QED BY <1>7, <1>8

\* Opening and persisting leave no recent id, and nothing else moves the lists.
LEMMA StoreStepLists ==
  ASSUME IInv, IInv', Recent(meta, base), StoreStep
  PROVE  Recent(meta', base')
<1>1. CASE \E block : Insert(block)
  BY <1>1, InsertLists
<1>2. CASE Open \/ PersistFlush \/ Close \/ Crash
  <2>1. base' = Count(meta')
    <3>1. CASE Open \/ PersistFlush
      BY <3>1 DEF Open, PersistFlush
    <3>2. CASE Close \/ Crash
      BY <3>2, FreshFacts DEF Close, Crash, Forget
    <3> QED BY <1>2, <3>1, <3>2
  <2>2. /\ meta' \in MetaType /\ Count(meta') \in Nat
        /\ \A id \in IdsOf(meta') : id < Count(meta')
    BY MetaFacts DEF IInv, StoreInv, IdsBelowCount, StoreTypeOK, MetaType
  <2> QED BY <2>1, <2>2, AllOld
<1>3. CASE \/ UNCHANGED storeVars \/ (\E id \in Own : \E block : Update(id, block))
           \/ Fetch \/ PersistWrite
  BY <1>3 DEF storeVars, Update, Fetch, PersistWrite
<1>4. CASE \E id \in BlockIds : SetRoot(id)
  <2>1. meta'.data = meta.data /\ meta'.btree = meta.btree /\ base' = base
    BY <1>4, InvFacts DEF SetRoot, MetaType
  <2> QED BY <2>1 DEF Recent
<1> QED BY <1>1, <1>2, <1>3, <1>4 DEF StoreStep

\* bulk_load inserts and updates tree nodes.
LEMMA LoadStepKinds ==
  ASSUME IInv, BuildInv, KindInv, BuildInv', pc = "index", LoadStep, Recent(meta', base')
  PROVE  KindInv'
<1>1. CASE NewLeaf \/ NewInternal
  <2>1. PICK leaf \in BOOLEAN : Insert(EmptyNode(leaf))
    BY <1>1 DEF NewLeaf, NewInternal
  <2>2. EmptyNode(leaf).kind = "btree"
    BY DEF EmptyNode
  <2> PICK new : new = NewId(meta)
    OBVIOUS
  <2>3. IsTreeId(new)' /\ \A id : IsTreeId(id) => IsTreeId(id)'
    BY <2>1, <2>2, InsertLists DEF KindInv, IsTreeId
  <2>4. pending'.to = "block" /\ pending'.block.kind = "btree" /\ pending'.id = new
    BY <2>1, <2>2 DEF Insert, BlockWrite
  <2>5. nodeId' \in {nodeId, new} /\ nextLeaf' \in {nextLeaf, new, NoId}
    BY <1>1 DEF NewLeaf, NewInternal
  <2>6. /\ nodeId' # BlockNull => IsTreeId(nodeId)'
        /\ nextLeaf' # NoId => IsTreeId(nextLeaf)'
    <3>1. /\ nodeId # BlockNull => IsTreeId(nodeId)
          /\ nextLeaf # NoId => IsTreeId(nextLeaf)
      BY DEF KindInv
    <3>2. \A id : IsTreeId(id)' <=> id \in ToSet(meta'.btree) \ ToSet(meta'.data)
      BY DEF IsTreeId
    <3> QED BY <2>3, <2>5, <3>1, <3>2 DEF IsTreeId
  <2> QED BY <2>3, <2>4, <2>6 DEF KindInv, IsTreeId
<1>2. CASE LinkLeaf \/ FillLeaf \/ FillInternal
  <2>1. PICK n : /\ Update(nodeId, n) /\ IsNode(n) /\ nodeId # BlockNull
                 /\ nodeId' \in {nodeId, nextLeaf} /\ nextLeaf' \in {nextLeaf, NoId}
                 /\ nodeId' = nextLeaf => nextLeaf # NoId \/ nodeId' = nodeId
    <3>1. CASE LinkLeaf
      <4>1. Update(nodeId, LinkTo(node, nextLeaf)) /\ nodeId # BlockNull /\ IsNode(node)
        BY <3>1 DEF LinkLeaf, BuildInv
      <4> QED BY <3>1, <4>1, NodeStaysNode DEF LinkLeaf
    <3>2. CASE FillLeaf \/ FillInternal
      <4>1. node # NoNode /\ Fill
        BY <3>2 DEF FillLeaf, FillInternal, NeedsNode
      <4>2. nodeId # BlockNull /\ IsNode(node)
        BY <4>1 DEF BuildInv
      <4> QED BY <4>1, <4>2, NodeStaysNode DEF Fill
    <3> QED BY <1>2, <3>1, <3>2
  <2>2. IsTreeId(nodeId) /\ (nextLeaf # NoId => IsTreeId(nextLeaf))
    BY <2>1 DEF KindInv
  <2>3. meta' = meta /\ pending' = BlockWrite(nodeId, n) /\ n.kind = "btree"
    BY <2>1 DEF Update, IsNode
  <2>4. \A id : IsTreeId(id) => IsTreeId(id)'
    BY <2>3 DEF IsTreeId
  <2>5. pending'.to = "block" /\ pending'.block.kind = "btree" /\ pending'.id = nodeId
    BY <2>3 DEF BlockWrite
  <2> QED BY <2>1, <2>2, <2>4, <2>5 DEF KindInv
<1>3. CASE NextLevel \/ RootDone
  <2>1. pending' = pending /\ meta'.data = meta.data /\ meta'.btree = meta.btree
    BY <1>3, InvFacts DEF NextLevel, RootDone, SetRoot, storeVars, MetaType
  <2>2. nodeId' \in {nodeId, BlockNull} /\ nextLeaf' = nextLeaf
    BY <1>3 DEF NextLevel, RootDone
  <2>3. \A id : IsTreeId(id) => IsTreeId(id)'
    BY <2>1 DEF IsTreeId
  <2> QED BY <2>1, <2>2, <2>3 DEF KindInv
<1> QED BY <1>1, <1>2, <1>3 DEF LoadStep

\* Outside of bulk_load there is no node in anyone's hands, and only the data
\* blocks of a load are written.
LEMMA OtherSteps ==
  ASSUME IInv, BuildInv, [Next]_vars, ~IndexStep
  PROVE  /\ (nodeId' = BlockNull /\ nextLeaf' = NoId) \/ UNCHANGED vars
         /\ ~InsertData => pending'.to # "block" \/ UNCHANGED <<pending, meta>>
<1>1. nodeId = BlockNull => nextLeaf = NoId
  BY DEF BuildInv
<1>2. pc # "index" => nodeId = BlockNull
  BY DEF BuildInv
<1>3. CASE OpenToLoad \/ OpenToQuery
  <2>1. pending' = pending /\ pending.to # "block"
    BY <1>3 DEF OpenToLoad, OpenToQuery, Open, IInv, StoreInv, PendingIsRecent
  <2>2. pc = "closed" /\ UNCHANGED <<nodeId, nextLeaf>>
    BY <1>3 DEF OpenToLoad, OpenToQuery, treeVars
  <2> QED BY <1>1, <1>2, <2>1, <2>2
<1>4. CASE InMemory
  BY <1>1, <1>2, <1>4 DEF InMemory, StartLoad, ReadRow, TableRead, AskScan, LookupReturns,
     SkipSeen, Answer, treeVars, loadVars, storeVars
<1>5. CASE AtEnd
  <2>1. (Close \/ Crash) /\ Gone
    BY <1>5 DEF AtEnd, ReadRowThrows, PrintRootThrows, LookupFails, ReadDataFails,
       Exit, Dies, Ends
  <2> QED BY <2>1 DEF Gone, TreeReset, Close, Crash, Forget, NoWrite
<1>6. CASE Reading
  <2>1. Fetch /\ pc # "index" /\ UNCHANGED <<nodeId, nextLeaf>>
    BY <1>6 DEF Reading, PrintRoot, LookupStep, CallStep, Descend, ReachLeaf,
       NextLeafOfRange, ReadNode, SkipBlock, TakeBlock, ReadData, loadVars
  <2> QED BY <1>1, <1>2, <2>1 DEF Fetch, NoWrite
<1>7. CASE InsertData
  BY <1>1, <1>2, <1>7 DEF InsertData, treeVars
<1>8. CASE StartIndex
  BY <1>1, <1>2, <1>8 DEF StartIndex, BulkLoad, storeVars
<1>9. CASE AskIndex
  BY <1>1, <1>2, <1>9 DEF AskIndex, StartCall, loadVars, storeVars
<1>10. CASE Persist
  <2>1. nodeId = BlockNull
    BY <1>10 DEF Persist, BuildInv
  <2> QED BY <1>1, <1>10, <2>1 DEF Persist, PersistWrite, MetaWrite, treeVars
<1>11. CASE Flush
  BY <1>1, <1>2, <1>11 DEF Flush, PersistFlush, NoWrite, treeVars
<1>12. CASE UNCHANGED vars
  BY <1>12 DEF vars, storeVars
<1> QED BY <1>3, <1>4, <1>5, <1>6, <1>7, <1>8, <1>9, <1>10, <1>11, <1>12, NextCases

LEMMA NextKinds ==
  ASSUME DataInv, DataInv', KindInv, [Next]_vars
  PROVE  KindInv'
<1>1. IInv /\ IInv' /\ BuildInv /\ BuildInv' /\ TableInv
  BY DEF DataInv
<1>2. StoreStep /\ Recent(meta', base')
  BY <1>1, NextBuilds, StoreStepLists DEF KindInv
<1>3. CASE IndexStep
  BY <1>1, <1>2, <1>3, LoadStepKinds DEF IndexStep
<1>4. CASE ~IndexStep
  <2>1. /\ (nodeId' = BlockNull /\ nextLeaf' = NoId) \/ UNCHANGED vars
        /\ ~InsertData => pending'.to # "block" \/ UNCHANGED <<pending, meta>>
    BY <1>1, <1>4, OtherSteps
  <2>2. \/ nodeId' = BlockNull /\ nextLeaf' = NoId
        \/ UNCHANGED <<nodeId, nextLeaf, meta>>
    BY <2>1 DEF vars, storeVars, treeVars
  <2>3. /\ nodeId' # BlockNull => IsTreeId(nodeId)'
        /\ nextLeaf' # NoId => IsTreeId(nextLeaf)'
    BY <2>2 DEF KindInv, IsTreeId
  <2>4. CASE ~InsertData
    <3>1. pending'.to = "block" =>
            \/ pending'.block.kind = "data" /\ pending'.id \in ToSet(meta'.data)
            \/ pending'.block.kind = "btree" /\ IsTreeId(pending.id)'
      BY <2>1, <2>4 DEF KindInv, IsTreeId
    <3> QED BY <1>2, <2>3, <3>1 DEF KindInv
  <2>5. CASE InsertData
    <3> DEFINE key == Min(DOMAIN blocks)
               last == Last(blocks[key])
               block == [last EXCEPT !.next = NextOf(key)]
    <3>1. key \in DOMAIN blocks
      BY <1>1, <2>5, FirstKey
    <3>2. last \in Chunk(key)
      BY <1>1, <3>1, UnplacedShrinks DEF TableInv
    <3>3. block.kind = "data" /\ Insert(block)
      BY <2>5, <3>2 DEF InsertData, Chunk
    <3> HIDE DEF block
    <3>4. NewId(meta) \in ToSet(meta'.data)
      BY <1>1, <3>3, InsertLists DEF KindInv
    <3>5. pending'.to = "block" /\ pending'.block = block /\ pending'.id = NewId(meta)
      BY <3>3 DEF Insert, BlockWrite
    <3> QED BY <1>2, <2>3, <3>3, <3>4, <3>5 DEF KindInv
  <2> QED BY <2>4, <2>5
<1> QED BY <1>3, <1>4

\* A recent id is found as the kind of its list.
LEMMA RecentIsFound ==
  ASSUME NEW m \in MetaType, NEW b \in Nat, Recent(m, b), NEW id \in Int, b <= id
  PROVE  /\ id \in ToSet(m.data) => KindOf(m, id) = "data"
         /\ id \in ToSet(m.btree) \ ToSet(m.data) => KindOf(m, id) = "btree"
<1>1. m.data \in Seq(Int) /\ m.btree \in Seq(Int)
  <2>1. BlockIds \subseteq Int
    BY BlocksAssumption, SMT DEF BlockIds
  <2>2. m.data \in Seq(BlockIds) /\ m.btree \in Seq(BlockIds)
    BY MetaFacts
  <2> QED BY <2>1, <2>2, SeqMonotonic, Zenon
<1>2. AscendsFrom(m.data, id) /\ AscendsFrom(m.btree, id)
  <2>1. ASSUME NEW s \in Seq(Int), AscendsFrom(s, b) PROVE AscendsFrom(s, id)
    <3>1. \A i \in 1..Len(s) : s[i] \in Int
      BY SMT
    <3> QED BY <2>1, <3>1, SMT DEF AscendsFrom
  <2> QED BY <1>1, <2>1 DEF Recent
<1>3. /\ BinarySearch(m.data, id) <=> id \in ToSet(m.data)
      /\ BinarySearch(m.btree, id) <=> id \in ToSet(m.btree)
  BY <1>1, <1>2, BinarySearchIsRight, Zenon
<1> QED BY <1>3, Zenon DEF KindOf

LEMMA KindKept == Spec => [](DataInv /\ KindInv)
<1>1. Init => KindInv
  <2> SUFFICES ASSUME Init PROVE KindInv
    OBVIOUS
  <2>1. IInv /\ meta = FreshMeta /\ base = 0 /\ pending = NoWrite
    BY InitInv DEF Init, StoreInit
  <2>2. meta \in MetaType /\ Count(meta) = 0 /\ \A id \in IdsOf(meta) : id < 0
    BY <2>1, FreshFacts DEF IInv, StoreTypeOK, MetaType, StoreInv, IdsBelowCount
  <2>3. Recent(meta, base)
    BY <2>1, <2>2, AllOld
  <2> QED BY <2>1, <2>3 DEF Init, TreeInit, KindInv, NoWrite
<1>2. DataInv /\ DataInv' /\ KindInv /\ [Next]_vars => KindInv'
  BY NextKinds
<1> QED BY DataKept, <1>1, <1>2, PTL DEF Spec

\* Every block goes to the file as the kind its id is registered for: every
\* insert and update of every load, also in a database that an earlier process
\* left with torn or overwritten metadata.
THEOREM WritesKeepKinds == Spec => []WritesKeepTheKind
<1>1. DataInv /\ KindInv => WritesKeepTheKind
  <2> SUFFICES ASSUME DataInv, KindInv, pending.to = "block"
               PROVE  KindOf(meta, pending.id) = pending.block.kind
    BY DEF WritesKeepTheKind
  <2>1. /\ meta \in MetaType /\ base \in Nat /\ base <= pending.id
    BY InvFacts DEF DataInv, IInv, StoreInv, PendingIsRecent
  <2>2. pending.id \in Int
    <3>1. pending.id \in BlockIds
      BY DEF DataInv, IInv, StoreTypeOK, NoWrite
    <3> QED BY <3>1, BlocksAssumption, SMT DEF BlockIds
  <2> QED BY <2>1, <2>2, RecentIsFound DEF KindInv, IsTreeId
<1> QED BY KindKept, <1>1, PTL

-----------------------------------------------------------------------------
(* Tables appear in the file at once.                                      *)

\* Records of blocks as get_block finds them, the buffered write settled.
Held(ids) == UNION {ToSet(RecordsOf(Content(id))) : id \in ids}

\* The data blocks that the process found, and those it has inserted.
OldData == {id \in ToSet(meta.data) : id < base}
NewData == {id \in ToSet(meta.data) : base <= id}

\* A load that has begun and not persisted: the table is in three parts, its
\* rows, the chains, and the new blocks, and the file is what it was.
Loading == pc \in {"rows", "data", "index", "flush"}
LoadInv ==
  /\ pending.to = "meta" => pc = "flush"
  /\ pc = "load" => loads < MaxLoads
  /\ pc \in {"load", "rows"} => NewData = {}
  /\ \A key \in DOMAIN keyPointers : keyPointers[key] \in BlockIds
  /\ pc = "load" \/ Loading => Held(OldData) = Stored
  /\ Loading =>
       /\ loads \in 1..MaxLoads
       /\ \A r \in Stored : r.load < loads
       /\ \E input \in Inputs :
            /\ ToSet(RowsOf(input, loads)) = ToSet(rows) \cup InChains \cup Held(NewData)
            /\ pc # "rows" => BadRow \notin ToSet(input)

\* What get_block finds does not depend on whether the write is settled.
LEMMA ContentStays ==
  ASSUME IInv, MetaFits, NEW id \in BlockIds,
         \/ Fetch \/ PersistWrite \/ PersistFlush \/ UNCHANGED <<disk, pending>>
  PROVE  Content(id)' = Content(id)
<1>1. Content(id) = DiskAfter(pending)[id] /\ Content(id)' = DiskAfter(pending)'[id]
  BY DEF Content
<1>2. CASE UNCHANGED <<disk, pending>>
  BY <1>2 DEF Content, DiskAfter
<1>3. CASE Fetch \/ PersistFlush
  <2>1. disk' = DiskAfter(pending) /\ pending' = NoWrite
    BY <1>3 DEF Fetch, PersistFlush, Apply
  <2> QED BY <1>1, <2>1 DEF DiskAfter, NoWrite
<1>4. CASE PersistWrite
  <2>1. disk' = DiskAfter(pending) /\ pending' = MetaWrite(Encode(meta))
    BY <1>4 DEF PersistWrite, Apply
  <2>2. DiskAfter(pending)'[id] = IF ClearOf(id, Len(Encode(meta))) THEN disk'[id] ELSE Garbage
    BY <2>1 DEF DiskAfter, MetaWrite
  <2>3. ClearOf(id, Len(Encode(meta)))
    BY WholeImageIsClear
  <2> QED BY <1>1, <2>1, <2>2, <2>3
<1> QED BY <1>2, <1>3, <1>4

LEMMA ContentWritten ==
  ASSUME IInv, NEW id \in BlockIds, NEW at \in BlockIds, NEW block,
         Apply(pending), pending' = BlockWrite(at, block)
  PROVE  Content(id)' = IF id = at THEN block ELSE Content(id)
<1>1. Content(id) = DiskAfter(pending)[id] /\ Content(id)' = DiskAfter(pending)'[id]
  BY DEF Content
<1>2. disk' = DiskAfter(pending) /\ DOMAIN DiskAfter(pending) = BlockIds
  BY DEF Apply, DiskAfter, IInv, StoreTypeOK
<1>3. DiskAfter(pending)' = [disk' EXCEPT ![at] = block]
  BY DEF DiskAfter, BlockWrite
<1> QED BY <1>1, <1>2, <1>3

\* Old blocks stay as they are.
LEMMA OldBlockStays ==
  ASSUME IInv, MetaFits, StoreStep, NEW id \in BlockIds, id < base \/ ~open
  PROVE  disk'[id] = disk[id]
<1>1. CASE disk' = disk
  BY <1>1
<1>2. CASE open /\ \E write \in {NoWrite, pending} \cup TornWrites : Apply(write)
  <2>1. PICK write : WriteOK(write) /\ Apply(write)
    BY <1>2, TornOK
  <2>2. ~(base <= id)
    <3>1. base \in Nat /\ id \in Nat
      BY InvFacts, BlocksAssumption, SMT DEF BlockIds
    <3> QED BY <1>2, <3>1, SMT
  <2> QED BY <2>1, <2>2, ApplyKeeps
<1> QED BY <1>1, <1>2, StoreStepWrites

\* The file's metadata is the one before, or, with the flush of persist() or a
\* death in it, the process's.
LEMMA HeaderStep ==
  ASSUME IInv, MetaFits, ~TornMeta, StoreStep
  PROVE  \/ header' = header
         \/ /\ pending.to = "meta" /\ FileMeta' = meta
            /\ \A id \in BlockIds : disk'[id] = disk[id] /\ Content(id) = disk[id]
<1>1. CASE disk' = disk /\ header' = header
  BY <1>1
<1>2. ASSUME open, NEW write \in {NoWrite, pending} \cup TornWrites, Apply(write)
      PROVE  \/ header' = header
             \/ /\ pending.to = "meta" /\ FileMeta' = meta
                /\ \A id \in BlockIds : disk'[id] = disk[id] /\ Content(id) = disk[id]
  <2>1. CASE write.to # "meta"
    BY <1>2, <2>1 DEF Apply, HeaderAfter
  <2>2. CASE write.to = "meta"
    <3>1. write = pending /\ pending.to = "meta" /\ pending.words = Encode(meta)
      BY <1>2, <2>2 DEF TornWrites, NoWrite, BlockWrite, IInv, StoreInv, PendingIsRecent
    <3>2. header' = Overlay(Encode(meta), header) /\ header \in Seq(BlockIds)
      BY <1>2, <3>1 DEF Apply, HeaderAfter, IInv, StoreTypeOK
    <3>3. FileMeta' = meta
      BY <3>2, InvFacts, RoundTrip DEF FileMeta
    <3>4. disk' = DiskAfter(pending)
      BY <1>2, <3>1 DEF Apply
    <3>5. ASSUME NEW id \in BlockIds PROVE disk'[id] = disk[id] /\ Content(id) = disk[id]
      <4>1. DiskAfter(pending)[id] = IF ClearOf(id, Len(Encode(meta))) THEN disk[id] ELSE Garbage
        BY <3>1 DEF DiskAfter
      <4>2. ClearOf(id, Len(Encode(meta)))
        BY WholeImageIsClear
      <4> QED BY <3>4, <4>1, <4>2 DEF Content
    <3> QED BY <3>1, <3>3, <3>5
  <2> QED BY <2>1, <2>2
<1>3. \/ disk' = disk /\ header' = header
      \/ open /\ \E write \in {NoWrite, pending} \cup TornWrites : Apply(write)
  BY DEF StoreStep, Open, Insert, Update, SetRoot, Fetch, PersistWrite, PersistFlush,
         Close, Crash, Ready, storeVars
<1> QED BY <1>1, <1>2, <1>3

\* A list in the file names blocks that every process knows as old.
LEMMA FileDataIsOld ==
  ASSUME IInv, NEW id \in ToSet(FileMeta.data)
  PROVE  id \in BlockIds /\ (id < base \/ ~open)
<1> DEFINE f == FileCount
<1>1. /\ FileMeta \in MetaType /\ f \in Nat
      /\ \A x \in IdsOf(FileMeta) : x < f
  BY InvFacts, DecodeLemma DEF FileMeta
<1>2. id \in IdsOf(FileMeta)
  BY DEF IdsOf
<1>3. id \in BlockIds /\ id \in Nat
  BY <1>1, <1>2, IdsAreBlockIds, BlocksAssumption, SMT DEF BlockIds
<1>4. open => f <= base /\ base \in Nat
  BY InvFacts DEF IInv, StoreInv, BaseBetweenCounts
<1>5. id < f
  BY <1>1, <1>2
<1> HIDE DEF f
<1>6. open => id < base
  BY <1>1, <1>3, <1>4, <1>5, SMT
<1> QED BY <1>3, <1>6

LEMMA StoredStays ==
  ASSUME IInv, MetaFits, ~TornMeta, StoreStep
  PROVE  \/ Stored' = Stored
         \/ pending.to = "meta" /\ Stored' = Held(ToSet(meta.data))
<1>1. CASE header' = header
  <2>1. FileMeta' = FileMeta
    BY <1>1 DEF FileMeta
  <2>2. \A id \in ToSet(FileMeta.data) : disk'[id] = disk[id]
    BY FileDataIsOld, OldBlockStays
  <2>3. \A id \in ToSet(FileMeta.data) : RecordsIn(id)' = RecordsIn(id)
    BY <2>2 DEF RecordsIn
  <2> QED BY <2>1, <2>3 DEF Stored
<1>2. CASE /\ pending.to = "meta" /\ FileMeta' = meta
           /\ \A id \in BlockIds : disk'[id] = disk[id] /\ Content(id) = disk[id]
  <2>1. ToSet(meta.data) \subseteq BlockIds
    BY InvFacts, IdsAreBlockIds DEF IdsOf
  <2>2. \A id \in ToSet(meta.data) : RecordsIn(id)' = ToSet(RecordsOf(Content(id)))
    BY <1>2, <2>1, NothingOnce DEF RecordsIn, RecordsOf, IsData
  <2>3. Stored' = UNION {RecordsIn(id)' : id \in ToSet(meta.data)}
    BY <1>2 DEF Stored
  <2> QED BY <1>2, <2>2, <2>3 DEF Held
<1> QED BY <1>1, <1>2, HeaderStep

\* Settling or buffering the metadata moves no record.
LEMMA HeldStays ==
  ASSUME IInv, MetaFits, base' = base, meta'.data = meta.data,
         \/ Fetch \/ PersistWrite \/ PersistFlush \/ UNCHANGED <<disk, pending>>
  PROVE  Held(OldData)' = Held(OldData) /\ Held(NewData)' = Held(NewData) /\ NewData' = NewData
<1>1. OldData \subseteq BlockIds /\ NewData \subseteq BlockIds
  BY InvFacts, IdsAreBlockIds DEF IdsOf, OldData, NewData
<1>2. OldData' = OldData /\ NewData' = NewData
  BY DEF OldData, NewData
<1>3. \A id \in BlockIds : Content(id)' = Content(id)
  BY ContentStays
<1>4. /\ \A id \in OldData : RecordsOf(Content(id))' = RecordsOf(Content(id))
      /\ \A id \in NewData : RecordsOf(Content(id))' = RecordsOf(Content(id))
  BY <1>1, <1>3 DEF RecordsOf, IsData
<1> QED BY <1>2, <1>4 DEF Held

\* A row goes from the rows into the chain of its key.
LEMMA ReadRowGathers ==
  ASSUME TableInv, ReadRow
  PROVE  ToSet(rows)' \cup InChains' = ToSet(rows) \cup InChains
<1> DEFINE r == Head(rows)
           rest == Tail(rows)
<1>1. /\ r \in ToSet(rows) /\ ToSet(rest) \subseteq ToSet(rows)
      /\ r \notin ToSet(rest) /\ r \in Rows
  BY TailOnce DEF TableInv, ReadRow
<1>2. ToSet(rows) = {r} \cup ToSet(rest)
  BY HeadOrTail DEF TableInv, ReadRow
<1>3. r.key \in Nat
  BY <1>1 DEF TableInv, ReadRow, Throws
<1>4. /\ rows' = rest
      /\ blocks' = [key \in DOMAIN blocks \cup {r.key} |->
                      IF key = r.key THEN Grouped(r) ELSE blocks[key]]
  BY DEF ReadRow
<1> HIDE DEF r, rest
<1>5. InChain(Grouped(r)) = InChain(ChainOf(r.key)) \cup {r}
  BY <1>1, <1>3, GroupedKeeps
<1>6. InChains' = UNION {InChain(blocks'[key]) : key \in DOMAIN blocks'}
  BY DEF InChains, InChain
<1>7. InChains' \subseteq InChains \cup {r}
  <2> SUFFICES ASSUME NEW key \in DOMAIN blocks' PROVE InChain(blocks'[key]) \subseteq InChains \cup {r}
    BY <1>6
  <2>1. CASE key = r.key
    <3>1. InChain(ChainOf(r.key)) \subseteq InChains
      BY NothingUnplaced DEF ChainOf, InChains
    <3> QED BY <1>4, <1>5, <2>1, <3>1
  <2>2. CASE key # r.key
    BY <1>4, <2>2 DEF InChains
  <2> QED BY <2>1, <2>2
<1>8. InChains \subseteq InChains' /\ r \in InChains'
  <2>1. ASSUME NEW key \in DOMAIN blocks
        PROVE  key \in DOMAIN blocks' /\ InChain(blocks[key]) \subseteq InChain(blocks'[key])
    <3>1. CASE key = r.key
      BY <1>4, <1>5, <3>1 DEF ChainOf
    <3>2. CASE key # r.key
      BY <1>4, <3>2
    <3> QED BY <3>1, <3>2
  <2>2. r.key \in DOMAIN blocks' /\ r \in InChain(blocks'[r.key])
    BY <1>4, <1>5
  <2> QED BY <1>6, <2>1, <2>2 DEF InChains
<1> QED BY <1>2, <1>4, <1>7, <1>8

\* The last block of a chain leaves it.
LEMMA InsertDataTakes ==
  ASSUME TableInv, InsertData
  PROVE  LET key == Min(DOMAIN blocks)
         IN  InChains = InChains' \cup ToSet(Last(blocks[key]).records)
<1> DEFINE key == Min(DOMAIN blocks)
           chain == blocks[key]
           last == Last(chain)
<1>1. key \in DOMAIN blocks
  BY FirstKey
<1>2. blocks' = IF Len(chain) = 1 THEN Restrict(blocks, DOMAIN blocks \ {key})
                                  ELSE [blocks EXCEPT ![key] = Front(chain)]
  BY DEF InsertData
<1>3. /\ InChain(chain) = InChain(Front(chain)) \cup ToSet(last.records)
      /\ Len(chain) = 1 => InChain(Front(chain)) = {}
  BY <1>1, UnplacedShrinks DEF TableInv
<1>4. InChains' = UNION {InChain(blocks'[k]) : k \in DOMAIN blocks'}
  BY DEF InChains, InChain
<1>5. InChains = InChain(chain) \cup UNION {InChain(blocks[k]) : k \in DOMAIN blocks \ {key}}
  BY <1>1 DEF InChains
<1> HIDE DEF chain, last, key
<1>6. CASE Len(chain) = 1
  <2>1. DOMAIN blocks' = DOMAIN blocks \ {key} /\ \A k \in DOMAIN blocks' : blocks'[k] = blocks[k]
    BY <1>2, <1>6 DEF Restrict
  <2>2. InChains' = UNION {InChain(blocks[k]) : k \in DOMAIN blocks \ {key}}
    BY <1>4, <2>1
  <2> QED BY <1>3, <1>5, <1>6, <2>2 DEF last, chain, key
<1>7. CASE Len(chain) # 1
  <2>1. /\ DOMAIN blocks' = DOMAIN blocks /\ blocks'[key] = Front(chain)
        /\ \A k \in DOMAIN blocks' : k # key => blocks'[k] = blocks[k]
    BY <1>1, <1>2, <1>7
  <2>2. InChains' = InChain(Front(chain))
                      \cup UNION {InChain(blocks[k]) : k \in DOMAIN blocks \ {key}}
    BY <1>1, <1>4, <2>1
  <2> QED BY <1>3, <1>5, <2>2 DEF last, chain, key
<1> QED BY <1>6, <1>7

\* A block that is inserted joins those of its list; the old ones stay.
LEMMA InsertHolds ==
  ASSUME IInv, NEW block, Insert(block)
  PROVE  /\ Held(OldData)' = Held(OldData)
         /\ block.kind # "data" => Held(NewData)' = Held(NewData)
         /\ block.kind = "data" =>
              Held(NewData)' = Held(NewData) \cup ToSet(RecordsOf(block))
<1>0. PICK c : c = Count(meta)
  OBVIOUS
<1>1. /\ meta \in MetaType /\ c \in Nat /\ c < MaxBlocks /\ base \in Nat /\ base <= c
      /\ \A id \in IdsOf(meta) : id < c
      /\ meta' = Register(meta, block.kind) /\ base' = base
  BY <1>0, InvFacts DEF Insert, Ready, IInv, StoreInv, BaseBetweenCounts
<1>2. c < BlockNull /\ c \in BlockIds
  <2> QED BY <1>1, BlocksAssumption, DiskStoreAssumption, SMT DEF BlockIds
<1>3. NewId(meta) = c
  BY <1>0, <1>1, <1>2, RegisterLemma
<1>4. meta.data \in Seq(BlockIds) /\ ToSet(meta.data) \subseteq BlockIds
  BY <1>1, MetaFacts, IdsAreBlockIds DEF IdsOf
<1>5. c \notin ToSet(meta.data) /\ ~(c < base)
  <2>1. \A id \in ToSet(meta.data) : id < c
    BY <1>1 DEF IdsOf
  <2>2. c \in Nat /\ base \in Nat /\ base <= c
    BY <1>1
  <2>3. ~(c < c) /\ ~(c < base)
    BY <2>2, SMT
  <2> QED BY <2>1, <2>3
<1>6. ASSUME NEW id \in BlockIds
      PROVE  RecordsOf(Content(id))' = IF id = c THEN RecordsOf(block) ELSE RecordsOf(Content(id))
  <2>1. Content(id)' = IF id = c THEN block ELSE Content(id)
    BY <1>2, <1>3, ContentWritten DEF Insert
  <2> QED BY <2>1 DEF RecordsOf, IsData
<1>7. CASE block.kind = "data"
  <2>1. meta'.data = Append(meta.data, c)
    BY <1>1, <1>3, <1>7 DEF Register, MetaType
  <2>2. ToSet(meta'.data) = ToSet(meta.data) \cup {c}
    BY <1>2, <1>4, <2>1, AppendLemma
  <2>3. OldData' = OldData /\ NewData' = NewData \cup {c}
    BY <1>1, <1>5, <2>2 DEF OldData, NewData
  <2>4. c \notin OldData /\ c \notin NewData /\ OldData \subseteq BlockIds /\ NewData \subseteq BlockIds
    BY <1>4, <1>5 DEF OldData, NewData
  <2>5. /\ \A id \in OldData : RecordsOf(Content(id))' = RecordsOf(Content(id))
        /\ \A id \in NewData : RecordsOf(Content(id))' = RecordsOf(Content(id))
        /\ RecordsOf(Content(c))' = RecordsOf(block)
    BY <1>2, <1>6, <2>4
  <2>6. Held(OldData)' = Held(OldData)
    BY <2>3, <2>5 DEF Held
  <2>7. Held(NewData)' = UNION {ToSet(RecordsOf(Content(id))') : id \in NewData \cup {c}}
    BY <2>3 DEF Held
  <2>8. Held(NewData)' = Held(NewData) \cup ToSet(RecordsOf(block))
    BY <2>5, <2>7 DEF Held
  <2> QED BY <1>7, <2>6, <2>8
<1>8. CASE block.kind # "data"
  <2>1. meta'.data = meta.data
    BY <1>1, <1>8 DEF Register, MetaType
  <2>2. OldData' = OldData /\ NewData' = NewData
    BY <1>1, <2>1 DEF OldData, NewData
  <2>3. c \notin OldData /\ c \notin NewData /\ OldData \subseteq BlockIds /\ NewData \subseteq BlockIds
    BY <1>4, <1>5 DEF OldData, NewData
  <2>4. /\ \A id \in OldData : RecordsOf(Content(id))' = RecordsOf(Content(id))
        /\ \A id \in NewData : RecordsOf(Content(id))' = RecordsOf(Content(id))
    BY <1>6, <2>3
  <2> QED BY <1>8, <2>2, <2>4 DEF Held
<1> QED BY <1>7, <1>8

\* Updating a tree node moves no record.
LEMMA UpdateHolds ==
  ASSUME IInv, NEW id \in BlockIds \ ToSet(meta.data), NEW block, Update(id, block)
  PROVE  Held(OldData)' = Held(OldData) /\ Held(NewData)' = Held(NewData)
<1>1. OldData' = OldData /\ NewData' = NewData
  BY DEF Update, OldData, NewData
<1>2. ToSet(meta.data) \subseteq BlockIds
  BY InvFacts, IdsAreBlockIds DEF IdsOf
<1>3. \A x \in BlockIds \ {id} : Content(x)' = Content(x)
  BY ContentWritten DEF Update
<1>4. /\ \A x \in OldData : RecordsOf(Content(x))' = RecordsOf(Content(x))
      /\ \A x \in NewData : RecordsOf(Content(x))' = RecordsOf(Content(x))
  BY <1>2, <1>3 DEF RecordsOf, IsData, OldData, NewData
<1> QED BY <1>1, <1>4 DEF Held

\* bulk_load writes tree nodes: it moves no record either.
LEMMA LoadStepHolds ==
  ASSUME IInv, MetaFits, BuildInv, KindInv, pc = "index", LoadStep
  PROVE  /\ Held(OldData)' = Held(OldData) /\ Held(NewData)' = Held(NewData)
         /\ pending'.to # "meta" \/ pending' = pending
<1>1. CASE NewLeaf \/ NewInternal
  <2>1. PICK leaf \in BOOLEAN : Insert(EmptyNode(leaf))
    BY <1>1 DEF NewLeaf, NewInternal
  <2>2. EmptyNode(leaf).kind # "data"
    BY DEF EmptyNode
  <2>3. pending'.to = "block"
    BY <2>1 DEF Insert, BlockWrite
  <2> QED BY <2>1, <2>2, <2>3, InsertHolds
<1>2. CASE LinkLeaf \/ FillLeaf \/ FillInternal
  <2>1. PICK n : Update(nodeId, n) /\ nodeId # BlockNull
    <3>1. CASE LinkLeaf
      BY <3>1 DEF LinkLeaf, BuildInv
    <3>2. CASE FillLeaf \/ FillInternal
      <4>1. node # NoNode /\ Fill
        BY <3>2 DEF FillLeaf, FillInternal, NeedsNode
      <4> QED BY <4>1 DEF Fill, BuildInv
    <3> QED BY <1>2, <3>1, <3>2
  <2>2. PICK id : id = nodeId
    OBVIOUS
  <2>3. id \in BlockIds \ ToSet(meta.data)
    BY <2>1, <2>2, InvFacts, IdsAreBlockIds DEF KindInv, IsTreeId, IdsOf
  <2>4. Update(id, n) /\ pending'.to = "block"
    BY <2>1, <2>2 DEF Update, BlockWrite
  <2> QED BY <2>3, <2>4, UpdateHolds
<1>3. CASE NextLevel \/ RootDone
  <2>1. UNCHANGED <<disk, pending>> /\ base' = base /\ meta'.data = meta.data
    BY <1>3, InvFacts DEF NextLevel, RootDone, SetRoot, storeVars, MetaType
  <2> QED BY <2>1, HeldStays
<1> QED BY <1>1, <1>2, <1>3 DEF LoadStep

\* The parts of a table.
TableParts == ToSet(rows) \cup InChains \cup Held(NewData)

\* A load goes on while its parts stay together and the file what it was.
LEMMA LoadGoesOn ==
  ASSUME LoadInv, Loading, Loading', loads' = loads, Stored' = Stored,
         Held(OldData)' = Held(OldData), TableParts' = TableParts,
         pending'.to = "meta" => pc' = "flush",
         pc' = "rows" => pc = "rows" /\ NewData' = {},
         \A key \in DOMAIN keyPointers' : keyPointers'[key] \in BlockIds,
         pc = "rows" /\ pc' # "rows" =>
           \A input \in Inputs : ToSet(RowsOf(input, loads)) = TableParts => BadRow \notin ToSet(input)
  PROVE  LoadInv'
<1>1. PICK input \in Inputs : /\ ToSet(RowsOf(input, loads)) = TableParts
                              /\ pc # "rows" => BadRow \notin ToSet(input)
  BY DEF LoadInv, TableParts
<1>2. RowsOf(input, loads)' = RowsOf(input, loads)
  BY DEF RowsOf
<1>3. /\ (ToSet(RowsOf(input, loads)) = TableParts)'
      /\ pc' # "rows" => BadRow \notin ToSet(input)
  BY <1>1, <1>2
<1>4. \E i \in Inputs :
        /\ (ToSet(RowsOf(i, loads)) = ToSet(rows) \cup InChains \cup Held(NewData))'
        /\ pc' # "rows" => BadRow \notin ToSet(i)
  BY <1>3 DEF TableParts
<1>5. pc' # "load"
  BY DEF Loading
<1> QED BY <1>4, <1>5 DEF LoadInv

\* Nothing stored is of a load that has not read its table.
LEMMA StoredIsWritten == ASSUME IInv PROVE Stored \subseteq Written
<1>1. ToSet(FileMeta.data) \subseteq BlockIds
  BY FileDataIsOld
<1> QED BY <1>1, StoredIsListed DEF Listing, Written

LEMMA OpenLoads ==
  ASSUME DataInv, DataInv', ScanInv, LoadInv, OpenToLoad
  PROVE  LoadInv'
<1>1. /\ Open /\ pc' = "load" /\ pending' = pending /\ base' = Count(meta')
      /\ loads < MaxLoads /\ UNCHANGED <<loads, keyPointers>>
  BY DEF OpenToLoad, Open, inputVars
<1>2. IInv /\ IInv' /\ pending = NoWrite
  BY <1>1, InvFacts DEF DataInv, Open
<1>3. (Listing(meta) = Listing(FileMeta))'
  BY <1>1, <1>2, OpenFinds DEF ScanInv
<1>4. \A id \in ToSet(meta'.data) : id \in BlockIds /\ id < base'
  <2>1. meta' \in MetaType /\ \A id \in IdsOf(meta') : id < Count(meta')
    BY <1>2 DEF IInv, StoreInv, IdsBelowCount, StoreTypeOK, MetaType
  <2> QED BY <1>1, <2>1, IdsAreBlockIds DEF IdsOf
<1>5. OldData' = ToSet(meta'.data)
  BY <1>4 DEF OldData
<1>6. NewData' = {}
  <2> SUFFICES ASSUME NEW id \in ToSet(meta'.data), base' <= id PROVE FALSE
    BY DEF NewData
  <2>1. id \in Nat /\ base' \in Nat /\ id < base'
    <3>1. base' \in 0..BlockNull
      BY <1>2 DEF IInv, StoreTypeOK
    <3> QED BY <1>4, <3>1, BlocksAssumption, SMT DEF BlockIds
  <2> QED BY <2>1, SMT
<1>7. \A id \in ToSet(meta'.data) : RecordsOf(Content(id))' = OnDisk(id)'
  BY <1>1, <1>2 DEF Content, DiskAfter, NoWrite, OnDisk, RecordsOf, IsData
<1>8. Held(OldData)' = Listing(meta)'
  BY <1>5, <1>7 DEF Held, Listing
<1>9. (Stored = Listing(FileMeta))'
  BY StoredIsListed, PTL
<1>10. pending'.to # "meta"
  BY <1>1, <1>2 DEF NoWrite
<1> QED BY <1>1, <1>3, <1>6, <1>8, <1>9, <1>10 DEF LoadInv, Loading

LEMMA StartLoads ==
  ASSUME DataInv, MetaFits, LoadInv, StartLoad, Stored' = Stored
  PROVE  LoadInv'
<1>1. /\ pc = "load" /\ pc' = "rows" /\ loads' = loads + 1 /\ loads < MaxLoads
      /\ UNCHANGED <<storeVars, keyPointers, blocks>> /\ DOMAIN blocks = {}
  BY DEF StartLoad, LoadInv, DataInv, TableInv
<1>2. PICK input \in Inputs : rows' = RowsOf(input, loads')
  BY DEF StartLoad
<1>3. Held(OldData)' = Stored'
  <2>1. Held(OldData)' = Held(OldData)
    BY <1>1, HeldStays DEF storeVars, DataInv
  <2> QED BY <1>1, <2>1 DEF LoadInv
<1>4. NewData' = {} /\ Held(NewData)' = {} /\ InChains' = {}
  BY <1>1 DEF LoadInv, NewData, Held, InChains, storeVars
<1>5. loads' \in 1..MaxLoads /\ loads \in Nat
  BY <1>1, DatabaseAssumption, SMT DEF DataInv, TableInv
<1>6. \A r \in Stored' : r.load < loads'
  <2> SUFFICES ASSUME NEW r \in Stored PROVE r.load < loads'
    OBVIOUS
  <2>1. r.load \in 0..loads
    BY StoredIsWritten DEF DataInv, TableInv
  <2> QED BY <1>1, <1>5, <2>1, SMT
<1>7. ToSet(rows)' \cup InChains' \cup Held(NewData)' = ToSet(RowsOf(input, loads))'
  BY <1>2, <1>4
<1>8. pending'.to # "meta"
  BY <1>1 DEF LoadInv, storeVars
<1> QED BY <1>1, <1>3, <1>4, <1>5, <1>6, <1>7, <1>8 DEF LoadInv, Loading

LEMMA TableIsRead ==
  ASSUME DataInv, LoadInv, TableRead
  PROVE  \A input \in Inputs : ToSet(RowsOf(input, loads)) = TableParts => BadRow \notin ToSet(input)
<1> SUFFICES ASSUME NEW input \in Inputs, ToSet(RowsOf(input, loads)) = TableParts,
                    BadRow \in ToSet(input)
             PROVE  FALSE
  OBVIOUS
<1>1. PICK i \in DOMAIN input : input[i] = BadRow
  BY DEF ToSet
<1>2. PICK r \in ToSet(RowsOf(input, loads)) : r.key = BadRow
  <2>1. RowsOf(input, loads)[i] \in ToSet(RowsOf(input, loads))
    BY <1>1 DEF RowsOf, ToSet
  <2> QED BY <1>1, <2>1 DEF RowsOf
<1>3. TableParts = InChains
  BY NothingUnplaced, NothingOnce DEF TableRead, LoadInv, TableParts, Held
<1>4. PICK key \in DOMAIN blocks : r \in InChain(blocks[key])
  BY <1>2, <1>3 DEF InChains
<1>5. PICK n \in DOMAIN blocks[key] : r \in ToSet(blocks[key][n].records)
  BY <1>4 DEF InChain
<1>6. key \in Nat /\ blocks[key] \in Seq(Chunk(key))
  BY DEF DataInv, TableInv, Unplaced
<1>7. blocks[key][n] \in Chunk(key)
  <2> DEFINE chain == blocks[key]
             C == Chunk(key)
  <2>1. chain \in Seq(C) /\ n \in DOMAIN chain
    BY <1>6
  <2> HIDE DEF chain, C
  <2>2. chain[n] \in C
    BY <2>1, LenProperties, ElementOfSeq
  <2> QED BY <2>2 DEF chain, C
<1>8. r.key = key
  BY <1>5, <1>7 DEF Chunk
<1> QED BY <1>2, <1>6, <1>8, SMT DEF BadRow

LEMMA InsertDataHolds ==
  ASSUME DataInv, LoadInv, InsertData
  PROVE  /\ Held(OldData)' = Held(OldData) /\ TableParts' = TableParts /\ pending'.to # "meta"
         /\ \A key \in DOMAIN keyPointers' : keyPointers'[key] \in BlockIds
<1> PICK key, last : key = Min(DOMAIN blocks) /\ last = Last(blocks[key])
  OBVIOUS
<1> DEFINE block == [last EXCEPT !.next = NextOf(key)]
<1>1. IInv /\ TableInv /\ key \in DOMAIN blocks
  BY FirstKey DEF DataInv
<1>2. last \in Chunk(key)
  BY <1>1, UnplacedShrinks DEF TableInv
<1>3. Insert(block)
  BY DEF InsertData
<1>4. NewId(meta) \in BlockIds
  BY <1>1, <1>3, InsertOwns
<1>5. /\ NextOf(key) \in BlockIds
      /\ \A k \in DOMAIN keyPointers' : keyPointers'[k] \in BlockIds
  <2>1. BlockNull \in BlockIds
    BY BlocksAssumption, SMT DEF BlockIds
  <2>2. keyPointers' = [k \in DOMAIN keyPointers \cup {key} |->
                          IF k = key THEN NewId(meta) ELSE keyPointers[k]]
    BY DEF InsertData
  <2> QED BY <1>4, <2>1, <2>2 DEF LoadInv, NextOf
<1>6. RecordsOf(block) = last.records /\ block.kind = "data"
  <2>1. /\ block \in [kind : {"data"}, next : BlockIds, records : Seq(Rows)]
        /\ block.records = last.records
    BY <1>2, <1>5 DEF Chunk
  <2> HIDE DEF block
  <2>2. block # Garbage
    BY <2>1, DatabaseAssumption DEF Rows
  <2> QED BY <2>1, <2>2 DEF RecordsOf, IsData
<1>7. InChains = InChains' \cup ToSet(last.records)
  BY <1>1, InsertDataTakes
<1> PICK b : b = block
  OBVIOUS
<1>8. Insert(b) /\ b.kind = "data" /\ RecordsOf(b) = last.records
  BY <1>3, <1>6
<1> HIDE DEF block
<1>9. /\ Held(OldData)' = Held(OldData)
      /\ Held(NewData)' = Held(NewData) \cup ToSet(last.records)
  BY <1>1, <1>8, InsertHolds
<1>10. rows' = rows /\ pending'.to = "block"
  BY <1>8 DEF InsertData, Insert, BlockWrite
<1>11. TableParts' = TableParts
  BY <1>7, <1>9, <1>10 DEF TableParts
<1> QED BY <1>5, <1>9, <1>10, <1>11

\* The records in the file stay, or a whole table joins them.
StoredGrows ==
  Stored' = Stored \/ \E table \in Tables : table \cap Stored = {} /\ Stored' = Stored \cup table

\* The table that the metadata brings is whole, and new to the file.
LEMMA TableArrives ==
  ASSUME DataInv, LoadInv, pending.to = "meta"
  PROVE  /\ Held(NewData) \in Tables /\ Held(NewData) \cap Stored = {}
         /\ Held(ToSet(meta.data)) = Stored \cup Held(NewData)
<1>1. pc = "flush" /\ IInv
  BY DEF LoadInv, DataInv
<1>2. PICK input \in Inputs :
        /\ ToSet(RowsOf(input, loads)) = ToSet(rows) \cup InChains \cup Held(NewData)
        /\ BadRow \notin ToSet(input)
  BY <1>1 DEF LoadInv, Loading
<1>3. ToSet(rows) = {} /\ InChains = {}
  BY <1>1, NothingOnce DEF DataInv, TableInv, InChains
<1>4. ToSet(meta.data) = OldData \cup NewData
  <2>1. ToSet(meta.data) \subseteq BlockIds /\ base \in Nat
    BY <1>1, InvFacts, IdsAreBlockIds DEF IdsOf
  <2>2. \A id \in BlockIds : id < base \/ base <= id
    BY <2>1, BlocksAssumption, SMT DEF BlockIds
  <2> QED BY <2>1, <2>2 DEF OldData, NewData
<1>5. Held(ToSet(meta.data)) = Held(OldData) \cup Held(NewData)
  BY <1>4 DEF Held
<1> DEFINE table == ToSet(RowsOf(input, loads))
<1>6. Held(NewData) = table /\ Held(OldData) = Stored
  BY <1>1, <1>2, <1>3 DEF LoadInv, Loading
<1>7. table \in Tables
  BY <1>1, <1>2 DEF LoadInv, Loading, Tables
<1>8. table \cap Stored = {}
  <2> SUFFICES ASSUME NEW r \in table, r \in Stored PROVE FALSE
    OBVIOUS
  <2>1. r.load = loads
    BY DEF RowsOf, ToSet
  <2>2. r.load < loads /\ loads \in Nat
    BY <1>1 DEF LoadInv, Loading, DataInv, TableInv
  <2> QED BY <2>1, <2>2, SMT
<1> QED BY <1>5, <1>6, <1>7, <1>8

LEMMA NextStored ==
  ASSUME DataInv, LoadInv, MetaFits, ~TornMeta, [Next]_vars
  PROVE  StoredGrows /\ (pending.to # "meta" => Stored' = Stored)
<1>1. StoreStep /\ IInv
  BY NextBuilds DEF DataInv
<1>2. CASE pending.to # "meta"
  BY <1>1, <1>2, StoredStays DEF StoredGrows
<1>3. CASE pending.to = "meta" /\ Stored' = Held(ToSet(meta.data))
  BY <1>3, TableArrives DEF StoredGrows
<1> QED BY <1>1, <1>2, <1>3, StoredStays DEF StoredGrows

\* A row, a block or a node more: the parts of the table stay together.
LEMMA NextLoadGoesOn ==
  ASSUME DataInv, KindInv, LoadInv, MetaFits, Stored' = Stored,
         ReadRow \/ TableRead \/ InsertData \/ StartIndex \/ IndexStep \/ Persist
  PROVE  LoadInv'
<1>1. /\ Loading /\ Loading' /\ pc # "flush" /\ pending.to # "meta"
      /\ loads' = loads /\ (pc' = "rows" => pc = "rows")
  <2>1. Loading /\ Loading' /\ pc # "flush" /\ loads' = loads /\ (pc' = "rows" => pc = "rows")
    BY DEF ReadRow, TableRead, InsertData, StartIndex, IndexStep, Persist, inputVars, Loading
  <2> QED BY <2>1 DEF LoadInv
<1>2. IInv /\ BuildInv /\ TableInv
  BY DEF DataInv
<1>3. CASE ReadRow \/ TableRead \/ StartIndex \/ Persist
  <2>1. /\ \/ PersistWrite
           \/ UNCHANGED <<disk, pending>>
        /\ base' = base /\ meta' = meta /\ keyPointers' = keyPointers
    BY <1>3 DEF ReadRow, TableRead, StartIndex, BulkLoad, Persist, PersistWrite, storeVars, inputVars
  <2>2. /\ Held(OldData)' = Held(OldData) /\ Held(NewData)' = Held(NewData)
        /\ NewData' = NewData
    BY <1>2, <2>1, HeldStays
  <2>3. TableParts' = TableParts
    <3>1. CASE ReadRow
      BY <1>2, <2>2, <3>1, ReadRowGathers DEF TableParts
    <3>2. CASE TableRead \/ StartIndex \/ Persist
      BY <2>2, <3>2 DEF TableRead, StartIndex, Persist, inputVars, TableParts, InChains
    <3> QED BY <1>3, <3>1, <3>2
  <2>4. pending'.to = "meta" => pc' = "flush"
    <3>1. CASE Persist
      BY <3>1 DEF Persist
    <3>2. CASE ReadRow \/ TableRead \/ StartIndex
      BY <1>1, <3>2 DEF ReadRow, TableRead, StartIndex, BulkLoad, storeVars
    <3> QED BY <1>3, <3>1, <3>2
  <2>5. pc = "rows" => NewData = {}
    BY DEF LoadInv
  <2>6. pc = "rows" /\ pc' # "rows" => TableRead
    BY <1>3 DEF ReadRow, StartIndex, Persist
  <2>7. \A key \in DOMAIN keyPointers' : keyPointers'[key] \in BlockIds
    BY <2>1 DEF LoadInv
  <2> QED BY <1>1, <2>2, <2>3, <2>4, <2>5, <2>6, <2>7, LoadGoesOn, TableIsRead
<1>4. CASE InsertData
  <2>1. pc = "data" /\ pc' = "data"
    BY <1>4 DEF InsertData
  <2> QED BY <1>1, <1>4, <2>1, LoadGoesOn, InsertDataHolds
<1>5. CASE IndexStep
  <2>1. pc = "index" /\ pc' = "index" /\ LoadStep /\ UNCHANGED <<rows, blocks, keyPointers>>
    BY <1>5 DEF IndexStep, inputVars
  <2>2. /\ Held(OldData)' = Held(OldData) /\ Held(NewData)' = Held(NewData)
        /\ pending'.to # "meta"
    BY <1>1, <1>2, <2>1, LoadStepHolds
  <2>3. TableParts' = TableParts
    BY <2>1, <2>2 DEF TableParts, InChains
  <2>4. \A key \in DOMAIN keyPointers' : keyPointers'[key] \in BlockIds
    BY <2>1 DEF LoadInv
  <2> QED BY <1>1, <2>1, <2>2, <2>3, <2>4, LoadGoesOn
<1> QED BY <1>3, <1>4, <1>5

LEMMA NextLoad ==
  ASSUME DataInv, DataInv', ScanInv, KindInv, LoadInv, MetaFits, ~TornMeta, [Next]_vars
  PROVE  LoadInv'
<1>1. pending.to # "meta" => Stored' = Stored
  BY NextStored
\* There is no load, or it is over.
<1>2. ASSUME ~Loading', pc' # "load", pending'.to # "meta",
             UNCHANGED keyPointers \/ keyPointers' = EmptyMap
      PROVE  LoadInv'
  BY <1>2 DEF LoadInv, Loading, EmptyMap
<1>3. CASE OpenToLoad
  BY <1>3, OpenLoads
<1>4. CASE StartLoad
  <2>1. pending.to # "meta"
    BY <1>4 DEF StartLoad, LoadInv
  <2> QED BY <1>1, <1>4, <2>1, StartLoads
<1>5. CASE ReadRow \/ TableRead \/ InsertData \/ StartIndex \/ IndexStep \/ Persist
  <2>1. pending.to # "meta"
    <3>1. pc # "flush"
      BY <1>5 DEF ReadRow, TableRead, InsertData, StartIndex, IndexStep, Persist
    <3> QED BY <3>1 DEF LoadInv
  <2> QED BY <1>1, <1>5, <2>1, NextLoadGoesOn
<1>6. CASE OpenToQuery
  <2>1. pc' = "query" /\ pending' = pending /\ pc = "closed" /\ keyPointers' = keyPointers
    BY <1>6 DEF OpenToQuery, Open, inputVars
  <2> QED BY <1>2, <2>1 DEF LoadInv, Loading
<1>7. CASE AtEnd
  <2>1. (Close \/ Crash) /\ Gone
    BY <1>7 DEF AtEnd, ReadRowThrows, PrintRootThrows, LookupFails, ReadDataFails,
       Exit, Dies, Ends
  <2>2. pc' = "closed" /\ pending' = NoWrite /\ keyPointers' = EmptyMap
    BY <2>1 DEF Gone, Close, Crash, Forget
  <2> QED BY <1>2, <2>2 DEF NoWrite, Loading
<1>8. CASE Reading \/ Flush
  <2>1. /\ pending' = NoWrite /\ keyPointers' = keyPointers
        /\ pc' \in {"done", "lookup", "scan", "stats"}
    BY <1>8 DEF Reading, PrintRoot, LookupStep, CallStep, Descend, ReachLeaf, NextLeafOfRange,
       ReadNode, SkipBlock, TakeBlock, ReadData, Fetch, Flush, PersistFlush, inputVars
  <2> QED BY <1>2, <2>1 DEF NoWrite, Loading
<1>9. CASE AskScan \/ AskIndex \/ LookupReturns \/ SkipSeen \/ Answer
  <2>1. /\ pending' = pending /\ keyPointers' = keyPointers
        /\ pc \in {"query", "lookup", "scan"} /\ pc' \in {"lookup", "scan", "done"}
    BY <1>9 DEF AskScan, AskIndex, StartCall, LookupReturns, SkipSeen, Answer, storeVars, inputVars
  <2> QED BY <1>2, <2>1 DEF LoadInv, Loading
<1>10. CASE UNCHANGED vars
  <2>1. UNCHANGED <<header, disk, pending, meta, base, pc, loads, rows, blocks, keyPointers>>
    BY <1>10 DEF vars, storeVars, inputVars
  <2>2. UNCHANGED <<Stored, Held(OldData), Held(NewData), NewData, InChains>>
    BY <2>1 DEF Stored, RecordsIn, FileMeta, Held, OldData, NewData, Content, DiskAfter, InChains
  <2>3. \A input \in Inputs : RowsOf(input, loads)' = RowsOf(input, loads)
    BY <2>1 DEF RowsOf
  <2> QED BY <2>1, <2>2, <2>3 DEF LoadInv, Loading
<1> QED BY <1>3, <1>4, <1>5, <1>6, <1>7, <1>8, <1>9, <1>10, NextCases DEF InMemory

\* While the metadata block is written whole and holds the metadata, a load is
\* all or nothing in the data blocks that the file lists: the records of a whole
\* table join them in one step, without a row that was rejected, and no step,
\* whatever process dies in it, takes a record away.
THEOREM TablesAppearAtOnce ==
  ASSUME MetaFits, ~TornMeta PROVE Spec => [][StoredGrows]_vars
<1>1. Init => LoadInv
  BY DEF Init, StoreInit, NoWrite, EmptyMap, LoadInv, Loading
<1>2. DataInv /\ DataInv' /\ ScanInv /\ KindInv /\ LoadInv /\ [Next]_vars => LoadInv'
  BY NextLoad
<1>3. DataInv /\ LoadInv /\ [Next]_vars => [StoredGrows]_vars
  BY NextStored
<1> QED BY ScanKept, KindKept, <1>1, <1>2, <1>3, PTL DEF Spec

-----------------------------------------------------------------------------
(* Types.                                                                  *)

\* Where a process stands.
Places == {"closed", "load", "rows", "data", "index", "flush", "stats",
           "query", "lookup", "scan", "done"}
ProcInv ==
  /\ pc \in Places /\ (open <=> pc # "closed")
  /\ capacity = Capacity
  /\ loads \in 0..MaxLoads /\ (pc = "load" => loads < MaxLoads)
  /\ pending.to = "meta" => pc = "flush"

\* The block that a position holds, or will hold when the buffered block is
\* written.
Kept(id) == IF pending.to = "block" /\ id = pending.id THEN pending.block ELSE disk[id]

\* A block that a query can read without leaving the ids.
Formed(b) ==
  \/ b = Garbage \/ b.kind = "hole"
  \/ b.kind = "data" /\ b.next \in BlockIds
  \/ Whole(b)

\* The blocks that the process, or the file when there is none, counts are
\* formed, but for the nodes that bulk_load has in its hands.
Known == IF open THEN Count(meta) ELSE FileCount
FormInv ==
  /\ status # "written" => \A id \in BlockIds : disk[id] = Hole
  /\ \A id \in BlockIds : id < Known /\ id \notin {nodeId, nextLeaf} => Formed(Kept(id))

\* Those are what the process remembers of them, and a node that has no pointer
\* yet gets one from the pairs that are left.
HandInv ==
  /\ work \in Seq(Int \X BlockIds) /\ propagate \in Seq(Int \X BlockIds)
  /\ nodeId # BlockNull =>
       Growing(node) /\ Kept(nodeId) = node /\ (node.pointers = <<>> => work # <<>>)
  /\ nextLeaf # NoId =>
       Kept(nextLeaf) = EmptyNode(TRUE) /\ nextLeaf # nodeId /\ node.pointers # <<>>

\* The first block of each key is a data block of this load.
KeyInv ==
  /\ pc \notin {"data", "index", "flush", "stats", "done"} => DOMAIN keyPointers = {}
  /\ DOMAIN keyPointers \subseteq Nat /\ IsFiniteSet(DOMAIN keyPointers)
  /\ \A key \in DOMAIN keyPointers :
       /\ keyPointers[key] \in BlockIds /\ KindOf(meta, keyPointers[key]) = "data"
       /\ pc \in {"data", "index", "flush"} =>
            base <= keyPointers[key] /\ keyPointers[key] \in ToSet(meta.data)

\* What a query goes through are ids.
LookupInv ==
  cursor \in BlockIds \cup {NoId} /\ found \in Seq(BlockIds) /\ scanIds \in Seq(BlockIds)

\* No block in memory is empty or overfull.
ChainInv ==
  \A key \in DOMAIN blocks : \A i \in DOMAIN blocks[key] :
    Len(blocks[key][i].records) \in 1..DataCapacity

-----------------------------------------------------------------------------
(* What a step does to the blocks.                                         *)

\* When the buffered write is settled, the file has what was kept, or it is
\* overwritten by the metadata.
LEMMA KeptApplied ==
  ASSUME IInv, NEW id \in BlockIds
  PROVE  /\ DiskAfter(pending)[id] \in {Kept(id), Garbage}
         /\ pending.to # "meta" => DiskAfter(pending)[id] = Kept(id)
         /\ pending.to # "block" => Kept(id) = disk[id]
<1>1. DOMAIN disk = BlockIds
  BY DEF IInv, StoreTypeOK
<1>2. CASE pending.to = "block"
  BY <1>1, <1>2 DEF DiskAfter, Kept
<1>3. CASE pending.to = "meta"
  BY <1>3 DEF DiskAfter, Kept
<1>4. CASE pending.to # "block" /\ pending.to # "meta"
  BY <1>4 DEF DiskAfter, Kept
<1> QED BY <1>2, <1>3, <1>4

\* Of the write that a process leaves half done, or undone, nothing is seen
\* below the count of the file.
LEMMA KeptAtEnd ==
  ASSUME IInv, open, NEW write \in {NoWrite, pending} \cup TornWrites, Apply(write),
         NEW id \in BlockIds, id < FileCount'
  PROVE  /\ disk'[id] \in {Kept(id), Garbage} /\ id < Count(meta)
         /\ pending.to # "meta" => id < base
<1>1. WriteOK(write)
  BY TornOK
<1>2. PICK f, g, c : f = FileCount /\ g = FileCount' /\ c = Count(meta)
  OBVIOUS
<1>3. /\ f \in Nat /\ g \in Nat /\ c \in Nat /\ base \in Nat /\ f <= base /\ base <= c /\ g <= c
      /\ write.to # "meta" => g = f
      /\ DOMAIN disk = BlockIds
  BY <1>1, <1>2, InvFacts, ApplyLemma DEF IInv, StoreInv, BaseBetweenCounts, StoreTypeOK
<1>4. id \in Nat /\ id < g
  BY <1>2, BlocksAssumption, SMT DEF BlockIds
<1>5. id < c /\ (write.to # "meta" => id < base)
  BY <1>3, <1>4, SMT
<1>6. disk' = DiskAfter(write)
  BY DEF Apply
<1>7. write.to = "meta" => pending.to = "meta"
  BY DEF TornWrites, NoWrite, BlockWrite
<1>8. pending.to = "block" /\ id < base => id # pending.id
  <2>1. pending.to = "block" => base <= pending.id /\ pending.id \in Nat
    BY BlocksAssumption, SMT DEF IInv, StoreInv, PendingIsRecent, StoreTypeOK, NoWrite, BlockIds
  <2> QED BY <1>3, <1>4, <2>1, SMT
<1>9. CASE write.to = "meta"
  <2>1. Kept(id) = disk[id]
    BY <1>7, <1>9 DEF Kept
  <2> QED BY <1>2, <1>5, <1>6, <1>7, <1>9, <2>1 DEF DiskAfter
<1>10. CASE write.to = "block"
  <2>1. pending.to = "block" /\ write.id = pending.id
    BY <1>10 DEF TornWrites, EarlyPart, NoWrite, BlockWrite, MetaWrite
  <2>2. id < base
    BY <1>5, <1>10
  <2> QED BY <1>2, <1>3, <1>5, <1>6, <1>8, <1>10, <2>1, <2>2 DEF DiskAfter, Kept
<1>11. CASE write.to # "meta" /\ write.to # "block"
  <2>1. id < base
    BY <1>5, <1>11
  <2> QED BY <1>2, <1>5, <1>6, <1>8, <1>11, <2>1 DEF DiskAfter, Kept
<1> QED BY <1>9, <1>10, <1>11

\* What a step of the store may do to a block that is counted after it.
LEMMA KeptStep ==
  ASSUME IInv, StoreStep, NEW id \in BlockIds, id < Known'
  PROVE  \/ Kept(id)' \in {Kept(id), Garbage} /\ id < Known
         \/ status # "written" /\ Open
         \/ pending'.to = "block" /\ id = pending'.id
<1>1. CASE UNCHANGED storeVars
  <2>1. UNCHANGED <<disk, pending, header, meta, open>>
    BY <1>1 DEF storeVars
  <2> QED BY <2>1 DEF Kept, Known, FileCount
<1>2. CASE Open
  <2>1. /\ ~open /\ open' /\ pending = NoWrite /\ pending' = NoWrite /\ disk' = disk
        /\ meta' \in MetaOnOpen
    BY <1>2, InvFacts DEF Open
  <2>2. CASE status = "written"
    <3>1. meta' = Decode(header)
      BY <2>1, <2>2 DEF MetaOnOpen
    <3>2. Count(meta') = FileCount
      BY <3>1, InvFacts, DecodeLemma
    <3> QED BY <2>1, <3>2 DEF Known, Kept, NoWrite
  <2> QED BY <1>2, <2>2
<1>3. CASE \E block : Insert(block)
  <2>1. PICK block : Insert(block)
    BY <1>3
  <2>2. /\ open /\ open' /\ disk' = DiskAfter(pending) /\ pending.to # "meta"
        /\ pending' = BlockWrite(NewId(meta), block) /\ meta' = Register(meta, block.kind)
    BY <2>1 DEF Insert, Ready, Apply
  <2> PICK c : c = Count(meta)
    OBVIOUS
  <2>3. c \in Nat /\ NewId(meta) = c /\ Count(meta') = c + 1
    <3>1. meta \in MetaType /\ c \in Nat /\ c < MaxBlocks
      BY <2>1, InvFacts DEF Insert
    <3>2. c < BlockNull
      BY <3>1, BlocksAssumption, DiskStoreAssumption, SMT
    <3> QED BY <2>2, <3>1, <3>2, InvFacts, RegisterLemma
  <2>4. Known' = c + 1 /\ Known = c
    BY <2>2, <2>3 DEF Known
  <2>5. id = c \/ id < c
    <3>1. id \in Nat
      BY BlocksAssumption, SMT DEF BlockIds
    <3> QED BY <2>3, <2>4, <3>1, SMT
  <2>6. CASE id = c
    BY <2>2, <2>3, <2>6 DEF BlockWrite
  <2>7. CASE id # c
    <3>1. Kept(id)' = disk'[id]
      BY <2>2, <2>3, <2>7 DEF Kept, BlockWrite
    <3> QED BY <2>2, <2>4, <2>5, <2>7, <3>1, KeptApplied
  <2> QED BY <2>6, <2>7
<1>4. CASE \E x \in Own : \E block : Update(x, block)
  <2>1. PICK x, block : Update(x, block)
    BY <1>4
  <2>2. /\ open /\ open' /\ disk' = DiskAfter(pending) /\ pending.to # "meta" /\ meta' = meta
        /\ pending' = BlockWrite(x, block)
    BY <2>1 DEF Update, Ready, Apply
  <2>3. CASE id = x
    BY <2>2, <2>3 DEF BlockWrite
  <2>4. CASE id # x
    <3>1. Kept(id)' = disk'[id]
      BY <2>2, <2>4 DEF Kept, BlockWrite
    <3> QED BY <2>2, <3>1, KeptApplied DEF Known
  <2> QED BY <2>3, <2>4
<1>5. CASE \E x \in BlockIds : SetRoot(x)
  <2>1. UNCHANGED <<disk, pending, open>> /\ Count(meta') = Count(meta) /\ open
    BY <1>5, InvFacts DEF SetRoot, Ready, Count, MetaType
  <2> QED BY <2>1 DEF Kept, Known
<1>6. CASE Fetch \/ PersistWrite \/ PersistFlush
  <2>1. /\ open /\ open' /\ disk' = DiskAfter(pending) /\ meta' = meta /\ pending'.to # "block"
    BY <1>6 DEF Fetch, PersistWrite, PersistFlush, Ready, Apply, NoWrite, MetaWrite
  <2>2. Kept(id)' = disk'[id]
    BY <2>1 DEF Kept
  <2> QED BY <2>1, <2>2, KeptApplied DEF Known
<1>7. CASE Close \/ Crash
  <2>1. /\ open /\ ~open' /\ pending' = NoWrite
        /\ \E write \in {NoWrite, pending} \cup TornWrites : Apply(write)
    BY <1>7 DEF Close, Crash, Forget, Ready
  <2>2. id < FileCount'
    BY <2>1 DEF Known
  <2>3. Kept(id)' = disk'[id]
    BY <2>1 DEF Kept, NoWrite
  <2> QED BY <2>1, <2>2, <2>3, KeptAtEnd DEF Known
<1> QED BY <1>1, <1>2, <1>3, <1>4, <1>5, <1>6, <1>7 DEF StoreStep

\* BLOCK_NULL is never counted.
NullIsUnknown == \A id \in BlockIds : id < Known => id # BlockNull /\ id # NoId

LEMMA KnownIsSmall == IInv => NullIsUnknown
<1> SUFFICES ASSUME IInv, NEW id \in BlockIds, id < Known PROVE id # BlockNull /\ id # NoId
  BY DEF NullIsUnknown
<1> PICK k : k = Known
  OBVIOUS
<1>1. k \in Nat /\ k <= BlockNull
  BY InvFacts, BlocksAssumption, DiskStoreAssumption, SMT DEF Known
<1>2. id \in Nat /\ id < k
  BY BlocksAssumption, SMT DEF BlockIds
<1> QED BY <1>1, <1>2, BlocksAssumption, SMT DEF NoId

\* Only an inserted data block is buffered outside of bulk_load.
LEMMA OtherWrites ==
  ASSUME IInv, [Next]_vars, ~IndexStep
  PROVE  UNCHANGED storeVars \/ InsertData \/ pending'.to # "block"
<1>1. CASE OpenToLoad \/ OpenToQuery
  BY <1>1, InvFacts DEF OpenToLoad, OpenToQuery, Open, NoWrite
<1>2. CASE InMemory \/ UNCHANGED vars
  BY <1>2 DEF InMemory, StartLoad, ReadRow, TableRead, AskScan, LookupReturns, SkipSeen, Answer, vars
<1>3. CASE AtEnd
  <2>1. Close \/ Crash
    BY <1>3 DEF AtEnd, ReadRowThrows, PrintRootThrows, LookupFails, ReadDataFails,
       Exit, Dies, Ends
  <2> QED BY <2>1 DEF Close, Crash, Forget, NoWrite
<1>4. CASE Reading \/ Flush
  <2>1. Fetch \/ PersistFlush
    BY <1>4 DEF Reading, PrintRoot, LookupStep, CallStep, Descend, ReachLeaf, NextLeafOfRange,
       ReadNode, SkipBlock, TakeBlock, ReadData, Flush
  <2> QED BY <2>1 DEF Fetch, PersistFlush, NoWrite
<1>5. CASE StartIndex \/ AskIndex
  BY <1>5 DEF StartIndex, BulkLoad, AskIndex, StartCall
<1>6. CASE Persist
  BY <1>6 DEF Persist, PersistWrite, MetaWrite
<1> QED BY <1>1, <1>2, <1>3, <1>4, <1>5, <1>6, NextCases

\* What is counted after a step outside of bulk_load is not in its hands.
LEMMA OutOfHand ==
  ASSUME IInv, IInv', BuildInv, ProcInv, [Next]_vars, ~IndexStep, ~UNCHANGED vars,
         NEW id \in BlockIds, id < Known'
  PROVE  id \notin {nodeId, nextLeaf}
<1>1. id \in Nat /\ id # NoId
  BY BlocksAssumption, SMT DEF BlockIds, NoId
<1>2. CASE nodeId = BlockNull
  <2>1. nextLeaf = NoId
    BY <1>2 DEF BuildInv
  <2>2. (IInv => NullIsUnknown)'
    BY KnownIsSmall, PTL
  <2> QED BY <1>1, <1>2, <2>1, <2>2 DEF NullIsUnknown
<1>3. CASE nodeId # BlockNull
  <2>1. pc = "index" /\ phase # "loaded"
    BY <1>3 DEF BuildInv
  <2>2. Dies
    BY <2>1, NextCases DEF OpenToLoad, OpenToQuery, InMemory, StartLoad, ReadRow, TableRead,
       AskScan, LookupReturns, SkipSeen, Answer, AtEnd, ReadRowThrows, PrintRootThrows,
       LookupFails, ReadDataFails, Exit, Reading, PrintRoot, LookupStep, SkipBlock, TakeBlock,
       ReadData, InsertData, StartIndex, Persist, Flush, AskIndex
  <2>3. open /\ \E write \in {NoWrite, pending} \cup TornWrites : Apply(write) /\ open' = FALSE
    BY <2>2 DEF Dies, Crash, Forget
  <2>4. id < base
    BY <2>1, <2>3, KeptAtEnd DEF Known, ProcInv
  <2> PICK c : c = Count(meta)
    OBVIOUS
  <2>5. /\ base \in Nat /\ c \in Nat /\ nodeId \in base..c - 1
        /\ nextLeaf # NoId => nextLeaf \in base..c - 1
    BY <1>3, InvFacts DEF BuildInv, Own
  <2>6. id # nodeId /\ (nextLeaf # NoId => id # nextLeaf)
    BY <1>1, <2>4, <2>5, SMT
  <2> QED BY <1>1, <2>6
<1> QED BY <1>2, <1>3

LEMMA StatusForms ==
  ASSUME IInv, FormInv, StoreStep
  PROVE  status' # "written" => \A id \in BlockIds : disk'[id] = Hole
<1>1. status' # "written" => status # "written" /\ disk' = disk
  BY NothingWritten
<1> QED BY <1>1 DEF FormInv

LEMMA OtherForms ==
  ASSUME IInv, IInv', BuildInv, TableInv, ProcInv, FormInv, KeyInv, [Next]_vars, ~IndexStep
  PROVE  FormInv'
<1>1. StoreStep
  BY NextBuilds
<1>2. CASE UNCHANGED vars
  <2>1. UNCHANGED <<disk, pending, header, meta, open, status, nodeId, nextLeaf>>
    BY <1>2 DEF vars, storeVars, treeVars
  <2>2. UNCHANGED Known /\ \A id \in BlockIds : UNCHANGED Kept(id)
    BY <2>1 DEF Known, Kept, FileCount
  <2> QED BY <2>1, <2>2 DEF FormInv
<1>3. CASE ~UNCHANGED vars
  <2> SUFFICES ASSUME NEW id \in BlockIds, id < Known' PROVE Formed(Kept(id)')
    BY <1>1, StatusForms DEF FormInv
  <2>1. id \notin {nodeId, nextLeaf}
    BY <1>3, OutOfHand
  <2>2. Formed(Garbage) /\ Formed(Hole)
    BY DEF Formed, Hole
  <2>3. CASE Kept(id)' \in {Kept(id), Garbage} /\ id < Known
    BY <2>1, <2>2, <2>3 DEF FormInv
  <2>4. CASE status # "written" /\ Open
    <3>1. Kept(id)' = disk[id]
      BY <2>4, InvFacts DEF Open, Kept, NoWrite
    <3> QED BY <2>2, <2>4, <3>1 DEF FormInv
  <2>5. CASE pending'.to = "block" /\ id = pending'.id
    <3>1. CASE UNCHANGED storeVars
      <4>1. UNCHANGED <<disk, pending, header, meta, open>>
        BY <3>1 DEF storeVars
      <4>2. Known' = Known /\ Kept(id)' = Kept(id)
        BY <4>1 DEF Known, Kept, FileCount
      <4> QED BY <2>1, <4>2 DEF FormInv
    <3>2. CASE InsertData
      <4> PICK key, last : key = Min(DOMAIN blocks) /\ last = Last(blocks[key])
        OBVIOUS
      <4> DEFINE block == [last EXCEPT !.next = NextOf(key)]
      <4>1. last \in Chunk(key)
        BY <3>2, FirstKey, UnplacedShrinks DEF TableInv
      <4>2. Insert(block)
        BY <3>2 DEF InsertData
      <4>3. Kept(id)' = block
        BY <2>5, <4>2 DEF Insert, BlockWrite, Kept
      <4>4. NextOf(key) \in BlockIds
        BY BlocksAssumption, SMT DEF NextOf, KeyInv, BlockIds
      <4>5. block.kind = "data" /\ block.next \in BlockIds
        BY <4>1, <4>4 DEF Chunk
      <4> QED BY <4>3, <4>5 DEF Formed
    <3> QED BY <2>5, <3>1, <3>2, OtherWrites
  <2> QED BY <1>1, <2>3, <2>4, <2>5, KeptStep
<1> QED BY <1>2, <1>3

\* A write of the process: the block is kept, the others stay.
LEMMA InsertKeeps ==
  ASSUME IInv, NEW block, Insert(block)
  PROVE  /\ NewId(meta) = Count(meta) /\ NewId(meta) \in BlockIds \ {BlockNull, NoId}
         /\ NewId(meta) \notin Own /\ Own \subseteq BlockIds
         /\ \A id \in BlockIds : Kept(id)' = IF id = NewId(meta) THEN block ELSE Kept(id)
         /\ \A id \in BlockIds \ {NewId(meta)} : id < Known' => id < Known
<1> PICK c : c = Count(meta)
  OBVIOUS
<1>1. /\ open /\ open' /\ disk' = DiskAfter(pending) /\ pending.to # "meta"
      /\ pending' = BlockWrite(NewId(meta), block) /\ meta' = Register(meta, block.kind)
      /\ c < MaxBlocks
  BY DEF Insert, Ready, Apply
<1>2. c \in Nat /\ c < BlockNull /\ base \in Nat
  <2>1. c \in Nat /\ base \in Nat
    BY InvFacts
  <2> QED BY <1>1, <2>1, BlocksAssumption, DiskStoreAssumption, SMT
<1>3. NewId(meta) = c /\ Count(meta') = c + 1
  BY <1>1, <1>2, InvFacts, RegisterLemma
<1>4. c \in BlockIds \ {BlockNull, NoId} /\ c \notin base..c - 1 /\ base..c - 1 \subseteq BlockIds
  BY <1>2, BlocksAssumption, SMT DEF BlockIds, NoId
<1>5. Own = base..c - 1
  BY DEF Own
<1>6. ASSUME NEW id \in BlockIds \ {c}
      PROVE  Kept(id)' = Kept(id) /\ (id < Known' => id < Known)
  <2>1. Kept(id)' = disk'[id]
    BY <1>1, <1>3, <1>6 DEF Kept, BlockWrite
  <2>2. Known' = c + 1 /\ Known = c
    BY <1>1, <1>3 DEF Known
  <2>3. id \in Nat
    BY BlocksAssumption, SMT DEF BlockIds
  <2>4. id < c + 1 => id < c
    BY <1>2, <1>6, <2>3, SMT
  <2> QED BY <1>1, <2>1, <2>2, <2>4, KeptApplied
<1>7. Kept(c)' = block
  BY <1>1, <1>3 DEF Kept, BlockWrite
<1> QED BY <1>3, <1>4, <1>5, <1>6, <1>7

LEMMA UpdateKeeps ==
  ASSUME IInv, NEW x \in BlockIds, NEW block, Update(x, block)
  PROVE  /\ \A id \in BlockIds : Kept(id)' = IF id = x THEN block ELSE Kept(id)
         /\ Known' = Known
<1>1. /\ open /\ open' /\ disk' = DiskAfter(pending) /\ pending.to # "meta"
      /\ pending' = BlockWrite(x, block) /\ meta' = meta
  BY DEF Update, Ready, Apply
<1>2. ASSUME NEW id \in BlockIds \ {x} PROVE Kept(id)' = Kept(id)
  <2>1. Kept(id)' = disk'[id]
    BY <1>1, <1>2 DEF Kept, BlockWrite
  <2> QED BY <1>1, <2>1, KeptApplied
<1> QED BY <1>1, <1>2 DEF Kept, Known, BlockWrite

\* A node that takes no more keys has one, and so a pointer.
LEMMA FullIsWhole ==
  ASSUME NEW n, Growing(n), NEW limit \in Nat \ {0}, NodeFull(n, limit)
  PROVE  Whole(n)
<1>1. Len(<<>>) = 0
  BY SMT
<1>2. CASE n.keys = <<>>
  BY <1>1, <1>2, SMT DEF NodeFull
<1> QED BY <1>2 DEF Growing

LEMMA WholeHasPointers ==
  ASSUME NEW n
  PROVE  /\ Whole(n) => n.pointers # <<>>
         /\ Growing(n) /\ n.pointers # <<>> => Whole(n)
<1>1. ASSUME Whole(n), n.pointers = <<>> PROVE FALSE
  <2>1. Len(n.keys) \in Nat
    <3>1. n.keys \in Seq(Int)
      BY <1>1 DEF Whole, NodeType
    <3> QED BY <3>1, LenProperties
  <2>2. Len(n.pointers) = 0
    BY <1>1, SMT
  <2> QED BY <1>1, <2>1, <2>2, SMT DEF Whole
<1> QED BY <1>1 DEF Growing

\* The first of the pairs that are left, and the rest of them.
LEMMA PairFacts ==
  ASSUME NEW s \in Seq(Int \X BlockIds), s # <<>>
  PROVE  /\ Head(s)[1] \in Int /\ Head(s)[2] \in BlockIds
         /\ Tail(s) \in Seq(Int \X BlockIds)
<1> PICK S : S = Int \X BlockIds
  OBVIOUS
<1>1. Head(s) \in S /\ Tail(s) \in Seq(S)
  BY TailOnce
<1> QED BY <1>1

LEMMA PairAppended ==
  ASSUME NEW s \in Seq(Int \X BlockIds), NEW key \in Int, NEW id \in BlockIds
  PROVE  Append(s, <<key, id>>) \in Seq(Int \X BlockIds)
<1> PICK S : S = Int \X BlockIds
  OBVIOUS
<1> PICK p : p = <<key, id>>
  OBVIOUS
<1>1. s \in Seq(S) /\ p \in S
  OBVIOUS
<1> QED BY <1>1, AppendLemma

LEMMA CapacityFacts ==
  ASSUME ProcInv
  PROVE  capacity \in Nat \ {0} /\ SplitAt \in Nat \ {0}
<1>1. capacity \in Nat \ {0}
  BY DatabaseAssumption DEF ProcInv
<1> QED BY <1>1, SMT DEF SplitAt

-----------------------------------------------------------------------------
(* What a step of bulk_load does to its nodes.                             *)

LEMMA NewLeafForms ==
  ASSUME IInv, BuildInv, ProcInv, FormInv, HandInv, NewLeaf, StoreStep
  PROVE  FormInv' /\ HandInv'
<1> PICK new : new = NewId(meta)
  OBVIOUS
<1>1. Insert(EmptyNode(TRUE)) /\ work # <<>> /\ nextLeaf = NoId /\ work' = work
  BY DEF NewLeaf
<1>2. /\ new \in BlockIds \ {BlockNull, NoId} /\ new \notin Own /\ Own \subseteq BlockIds
      /\ \A id \in BlockIds : Kept(id)' = IF id = new THEN EmptyNode(TRUE) ELSE Kept(id)
      /\ \A id \in BlockIds \ {new} : id < Known' => id < Known
  BY <1>1, InsertKeeps
<1>3. work' \in Seq(Int \X BlockIds) /\ propagate' \in Seq(Int \X BlockIds)
  BY <1>1, <1>2, PairFacts, PairAppended DEF NewLeaf, HandInv
<1>4. status' # "written" => \A id \in BlockIds : disk'[id] = Hole
  BY StatusForms
<1>5. CASE nodeId = BlockNull
  <2>1. nodeId' = new /\ nextLeaf' = NoId /\ node' = EmptyNode(TRUE)
    BY <1>5 DEF NewLeaf
  <2>2. ASSUME NEW id \in BlockIds, id < Known', id \notin {nodeId', nextLeaf'}
        PROVE  Formed(Kept(id)')
    <3>1. id # new /\ id < Known /\ Kept(id)' = Kept(id)
      BY <1>2, <2>1, <2>2
    <3>2. id \notin {nodeId, nextLeaf}
      BY <1>1, <1>5, <3>1, KnownIsSmall DEF NullIsUnknown
    <3> QED BY <3>1, <3>2 DEF FormInv
  <2>3. Kept(nodeId)' = node'
    <3>1. Kept(nodeId)' = Kept(new)'
      BY <2>1 DEF Kept
    <3> QED BY <1>2, <2>1, <3>1
  <2>4. Growing(node')
    BY <2>1, NewNode
  <2> QED BY <1>1, <1>3, <1>4, <2>1, <2>2, <2>3, <2>4 DEF FormInv, HandInv
<1>6. CASE nodeId # BlockNull
  <2>1. nodeId' = nodeId /\ nextLeaf' = new /\ node' = node
    BY <1>1, <1>6 DEF NewLeaf
  <2>2. nodeId \in Own /\ node # NoNode /\ Growing(node) /\ Kept(nodeId) = node
    BY <1>6, NodeFacts DEF BuildInv, HandInv
  <2>3. Whole(node) /\ node.pointers # <<>>
    BY <2>2, CapacityFacts, FullIsWhole, WholeHasPointers DEF NewLeaf, NeedsNode
  <2>4. ASSUME NEW id \in BlockIds, id < Known', id \notin {nodeId', nextLeaf'}
        PROVE  Formed(Kept(id)')
    <3>1. id # new /\ id < Known /\ Kept(id)' = Kept(id)
      BY <1>2, <2>1, <2>4
    <3>2. id \notin {nodeId, nextLeaf}
      BY <1>1, <2>1, <2>4, <3>1, KnownIsSmall DEF NullIsUnknown
    <3> QED BY <3>1, <3>2 DEF FormInv
  <2> PICK m : m = nodeId
    OBVIOUS
  <2>5. Kept(nodeId)' = Kept(m)' /\ Kept(nextLeaf)' = Kept(new)'
    BY <2>1 DEF Kept
  <2>6. m \in BlockIds /\ m # new
    BY <1>2, <2>2
  <2>7. Kept(nodeId)' = node' /\ Kept(nextLeaf)' = EmptyNode(TRUE)
    BY <1>2, <2>1, <2>2, <2>5, <2>6
  <2> QED BY <1>3, <1>4, <2>1, <2>2, <2>3, <2>4, <2>6, <2>7 DEF FormInv, HandInv
<1> QED BY <1>5, <1>6

LEMMA LinkLeafForms ==
  ASSUME IInv, BuildInv, ProcInv, FormInv, HandInv, LinkLeaf, StoreStep
  PROVE  FormInv' /\ HandInv'
<1> PICK m, new, n : m = nodeId /\ new = nextLeaf /\ n = LinkTo(node, nextLeaf)
  OBVIOUS
<1>1. /\ Update(m, n) /\ new # NoId /\ nodeId' = new /\ nextLeaf' = NoId
      /\ node' = EmptyNode(TRUE) /\ work' = work /\ propagate' = propagate
  BY DEF LinkLeaf
<1>2. m # BlockNull /\ m \in Own /\ new \in Own /\ work # <<>>
  BY <1>1 DEF BuildInv
<1>3. m \in BlockIds /\ new \in BlockIds
  <2> PICK c : c = Count(meta)
    OBVIOUS
  <2>1. base \in Nat /\ c \in Nat /\ c <= BlockNull /\ Own = base..c - 1
    BY InvFacts DEF Own
  <2>2. base..c - 1 \subseteq BlockIds
    BY <2>1, BlocksAssumption, SMT DEF BlockIds
  <2> QED BY <1>2, <2>1, <2>2
<1>4. new # m /\ Kept(new) = EmptyNode(TRUE) /\ Whole(node)
  BY <1>1, <1>2, WholeHasPointers DEF HandInv
<1>5. Formed(n)
  BY <1>3, <1>4, LinkWhole DEF Formed
<1>6. /\ \A id \in BlockIds : Kept(id)' = IF id = m THEN n ELSE Kept(id)
      /\ Known' = Known
  BY <1>1, <1>3, UpdateKeeps
<1>7. ASSUME NEW id \in BlockIds, id < Known', id \notin {nodeId', nextLeaf'}
      PROVE  Formed(Kept(id)')
  <2>1. CASE id = m
    BY <1>5, <1>6, <2>1
  <2>2. CASE id # m
    BY <1>1, <1>6, <1>7, <2>2 DEF FormInv
  <2> QED BY <2>1, <2>2
<1>8. Kept(nodeId)' = node'
  <2>1. Kept(nodeId)' = Kept(new)'
    BY <1>1 DEF Kept
  <2> QED BY <1>1, <1>3, <1>4, <1>6, <2>1
<1>9. Growing(node')
  BY <1>1, NewNode
<1>10. status' # "written" => \A id \in BlockIds : disk'[id] = Hole
  BY StatusForms
<1> QED BY <1>1, <1>2, <1>7, <1>8, <1>9, <1>10 DEF FormInv, HandInv

LEMMA FillForms ==
  ASSUME IInv, BuildInv, ProcInv, FormInv, HandInv, FillLeaf \/ FillInternal, StoreStep
  PROVE  FormInv' /\ HandInv'
<1> PICK m, n : m = nodeId /\ n = node'
  OBVIOUS
<1>1. /\ Fill /\ node # NoNode
  BY DEF FillLeaf, FillInternal, NeedsNode
<1>2. /\ Update(m, n) /\ nextLeaf = NoId /\ nodeId' = m /\ nextLeaf' = NoId
      /\ work # <<>> /\ work' = Tail(work) /\ propagate' = propagate
      /\ n = NodeInsert(node, Head(work)[1], Head(work)[2])
  BY <1>1 DEF Fill
<1>3. m # BlockNull /\ m \in Own
  BY <1>1 DEF BuildInv
<1>4. m \in BlockIds
  <2> PICK c : c = Count(meta)
    OBVIOUS
  <2>1. base \in Nat /\ c \in Nat /\ c <= BlockNull /\ Own = base..c - 1
    BY InvFacts DEF Own
  <2>2. base..c - 1 \subseteq BlockIds
    BY <2>1, BlocksAssumption, SMT DEF BlockIds
  <2> QED BY <1>3, <2>1, <2>2
<1>5. /\ Head(work)[1] \in Int /\ Head(work)[2] \in BlockIds
      /\ Tail(work) \in Seq(Int \X BlockIds)
  BY <1>2, PairFacts DEF HandInv
<1>6. Growing(node)
  BY <1>3 DEF HandInv
<1>7. Whole(n) /\ n.pointers # <<>> /\ Growing(n)
  <2>1. Whole(n)
    BY <1>2, <1>5, <1>6, InsertWhole
  <2> QED BY <2>1, WholeHasPointers DEF Growing
<1>8. /\ \A id \in BlockIds : Kept(id)' = IF id = m THEN n ELSE Kept(id)
      /\ Known' = Known
  BY <1>2, <1>4, UpdateKeeps
<1>9. ASSUME NEW id \in BlockIds, id < Known', id \notin {nodeId', nextLeaf'}
      PROVE  Formed(Kept(id)')
  BY <1>2, <1>8, <1>9 DEF FormInv
<1>10. Kept(nodeId)' = node'
  <2>1. Kept(nodeId)' = Kept(m)'
    BY <1>2 DEF Kept
  <2> QED BY <1>4, <1>8, <2>1
<1>11. status' # "written" => \A id \in BlockIds : disk'[id] = Hole
  BY StatusForms
<1> QED BY <1>2, <1>5, <1>7, <1>9, <1>10, <1>11 DEF FormInv, HandInv

LEMMA NewInternalForms ==
  ASSUME IInv, BuildInv, ProcInv, FormInv, HandInv, NewInternal, StoreStep
  PROVE  FormInv' /\ HandInv'
<1> PICK new, m : new = NewId(meta) /\ m = nodeId
  OBVIOUS
<1>1. /\ Insert(EmptyNode(FALSE)) /\ work # <<>> /\ work' = work
      /\ nodeId' = new /\ nextLeaf' = nextLeaf /\ node' = EmptyNode(FALSE)
      /\ nextLeaf = NoId
  BY DEF NewInternal, BuildInv
<1>2. /\ new \in BlockIds \ {BlockNull, NoId}
      /\ \A id \in BlockIds : Kept(id)' = IF id = new THEN EmptyNode(FALSE) ELSE Kept(id)
      /\ \A id \in BlockIds \ {new} : id < Known' => id < Known
  BY <1>1, InsertKeeps
<1>3. work' \in Seq(Int \X BlockIds) /\ propagate' \in Seq(Int \X BlockIds)
  BY <1>1, <1>2, PairFacts, PairAppended DEF NewInternal, HandInv
<1>4. status' # "written" => \A id \in BlockIds : disk'[id] = Hole
  BY StatusForms
<1>5. m # BlockNull => Whole(node) /\ Kept(m) = node
  <2> SUFFICES ASSUME m # BlockNull PROVE Whole(node) /\ Kept(m) = node
    OBVIOUS
  <2>1. node # NoNode /\ Growing(node) /\ Kept(m) = node
    BY NodeFacts DEF BuildInv, HandInv
  <2>2. Whole(node)
    BY <2>1, CapacityFacts, FullIsWhole DEF NewInternal, NeedsNode
  <2> QED BY <2>1, <2>2
<1>6. ASSUME NEW id \in BlockIds, id < Known', id \notin {nodeId', nextLeaf'}
      PROVE  Formed(Kept(id)')
  <2>1. id # new /\ id < Known /\ Kept(id)' = Kept(id) /\ id # BlockNull
    BY <1>1, <1>2, <1>6, KnownIsSmall DEF NullIsUnknown
  <2>2. CASE id = m
    BY <1>5, <2>1, <2>2 DEF Formed
  <2>3. CASE id # m
    BY <1>1, <1>6, <2>1, <2>3 DEF FormInv
  <2> QED BY <2>2, <2>3
<1>7. Kept(nodeId)' = node'
  <2>1. Kept(nodeId)' = Kept(new)'
    BY <1>1 DEF Kept
  <2> QED BY <1>1, <1>2, <2>1
<1>8. Growing(node')
  BY <1>1, NewNode
<1> QED BY <1>1, <1>3, <1>4, <1>6, <1>7, <1>8 DEF FormInv, HandInv

LEMMA LevelForms ==
  ASSUME IInv, BuildInv, ProcInv, FormInv, HandInv, NextLevel \/ RootDone, StoreStep
  PROVE  FormInv' /\ HandInv'
<1> PICK m : m = nodeId
  OBVIOUS
<1>1. /\ work = <<>> /\ nodeId' = BlockNull /\ nextLeaf' = nextLeaf /\ nextLeaf = NoId
      /\ (work' = work \/ work' = propagate) /\ propagate' = <<>>
      /\ UNCHANGED <<disk, pending, open, header>> /\ Count(meta') = Count(meta)
  BY InvFacts DEF NextLevel, RootDone, LevelDone, BuildInv, SetRoot, storeVars, Count, MetaType
<1>2. Known' = Known /\ \A id : Kept(id)' = Kept(id)
  BY <1>1 DEF Known, FileCount, Kept
<1>3. m # BlockNull => Whole(node) /\ Kept(m) = node
  BY <1>1, WholeHasPointers DEF HandInv
<1>4. ASSUME NEW id \in BlockIds, id < Known', id \notin {nodeId', nextLeaf'}
      PROVE  Formed(Kept(id)')
  <2>1. CASE id = m
    BY <1>1, <1>2, <1>3, <1>4, <2>1 DEF Formed
  <2>2. CASE id # m
    BY <1>1, <1>2, <1>4, <2>2 DEF FormInv
  <2> QED BY <2>1, <2>2
<1>5. work' \in Seq(Int \X BlockIds) /\ propagate' \in Seq(Int \X BlockIds)
  BY <1>1, EmptySeq DEF HandInv
<1>6. status' # "written" => \A id \in BlockIds : disk'[id] = Hole
  BY StatusForms
<1> QED BY <1>1, <1>4, <1>5, <1>6 DEF FormInv, HandInv

LEMMA IndexForms ==
  ASSUME IInv, BuildInv, ProcInv, FormInv, HandInv, LoadStep, StoreStep
  PROVE  FormInv' /\ HandInv'
BY NewLeafForms, LinkLeafForms, FillForms, NewInternalForms, LevelForms DEF LoadStep

-----------------------------------------------------------------------------
(* Where a process stands, and what it hands to bulk_load.                 *)

\* Which step a process takes, and where it stands then.
LEMMA NextProc ==
  ASSUME ProcInv, TableInv, [Next]_vars
  PROVE  ProcInv'
<1>1. capacity' = capacity
  BY NextCases DEF OpenToLoad, OpenToQuery, treeVars, InMemory, StartLoad, ReadRow, TableRead,
     AskScan, LookupReturns, SkipSeen, Answer, AtEnd, ReadRowThrows, PrintRootThrows,
     LookupFails, ReadDataFails,
     Exit, Dies, Ends, Gone, TreeReset, Reading, PrintRoot, LookupStep, CallStep, Descend,
     ReachLeaf, NextLeafOfRange, ReadNode, SkipBlock, TakeBlock, ReadData, InsertData, StartIndex,
     BulkLoad, IndexStep, LoadStep, NewLeaf, LinkLeaf, FillLeaf, FillInternal, Fill, NewInternal,
     NextLevel, RootDone, Persist, Flush, AskIndex, StartCall, vars
<1>2. CASE OpenToLoad \/ OpenToQuery
  <2>1. pending' = pending /\ open' /\ loads' = loads /\ pc = "closed" /\ pc' \in {"load", "query"}
        /\ (pc' = "load" => loads < MaxLoads)
    BY <1>2 DEF OpenToLoad, OpenToQuery, Open, inputVars
  <2> QED BY <1>1, <2>1 DEF ProcInv, Places
<1>3. CASE StartLoad
  <2>1. loads' = loads + 1 /\ loads < MaxLoads /\ pc = "load" /\ pc' = "rows"
        /\ open' = open /\ pending' = pending
    BY <1>3 DEF StartLoad, storeVars, ProcInv
  <2>2. loads' \in 0..MaxLoads
    BY <2>1, DatabaseAssumption, SMT DEF TableInv
  <2> QED BY <1>1, <2>1, <2>2 DEF ProcInv, Places
<1>4. CASE AtEnd
  <2>1. (Close \/ Crash) /\ Gone
    BY <1>4 DEF AtEnd, ReadRowThrows, PrintRootThrows, LookupFails, ReadDataFails,
       Exit, Dies, Ends
  <2>2. pc' = "closed" /\ pending' = NoWrite /\ ~open' /\ loads' = loads
    BY <2>1 DEF Gone, Close, Crash, Forget
  <2> QED BY <1>1, <2>2 DEF ProcInv, Places, NoWrite
<1>5. CASE InMemory /\ ~StartLoad
  <2>1. /\ pending' = pending /\ open' = open /\ loads' = loads
        /\ pc \in {"rows", "query", "lookup", "scan"}
        /\ pc' \in {"rows", "data", "scan", "done"}
    BY <1>5 DEF InMemory, ReadRow, TableRead, AskScan, LookupReturns, SkipSeen, Answer,
       storeVars, inputVars
  <2> QED BY <1>1, <2>1 DEF ProcInv, Places
<1>6. CASE Reading \/ Flush
  <2>1. /\ pending' = NoWrite /\ open' = open /\ open /\ loads' = loads
        /\ pc' \in {"done", "lookup", "scan", "stats"}
    BY <1>6 DEF Reading, PrintRoot, LookupStep, CallStep, Descend, ReachLeaf, NextLeafOfRange,
       ReadNode, SkipBlock, TakeBlock, ReadData, Fetch, Flush, PersistFlush, Ready, inputVars
  <2> QED BY <1>1, <2>1 DEF ProcInv, Places, NoWrite
<1>7. CASE InsertData
  <2>1. /\ pending'.to = "block" /\ open' = open /\ open /\ loads' = loads /\ pc' = pc /\ pc = "data"
    BY <1>7 DEF InsertData, Insert, Ready, BlockWrite
  <2> QED BY <1>1, <2>1 DEF ProcInv, Places
<1>8. CASE StartIndex \/ AskIndex
  <2>1. /\ pending' = pending /\ open' = open /\ loads' = loads
        /\ pc \in {"data", "query"} /\ pc' \in {"index", "lookup"}
    BY <1>8 DEF StartIndex, BulkLoad, AskIndex, StartCall, storeVars, inputVars
  <2> QED BY <1>1, <2>1 DEF ProcInv, Places
<1>9. CASE IndexStep
  <2>1. LoadStep /\ loads' = loads /\ pc' = pc /\ pc = "index"
    BY <1>9 DEF IndexStep, inputVars
  <2>2. open' = open /\ (pending'.to = "block" \/ pending' = pending)
    <3>1. \/ \E block : Insert(block)
          \/ \E block : Update(nodeId, block)
          \/ \E id : SetRoot(id)
          \/ UNCHANGED storeVars
      BY <2>1 DEF LoadStep, NewLeaf, LinkLeaf, FillLeaf, FillInternal, Fill, NewInternal,
         NextLevel, RootDone
    <3> QED BY <3>1 DEF Insert, Update, BlockWrite, SetRoot, storeVars
  <2> QED BY <1>1, <2>1, <2>2 DEF ProcInv, Places
<1>10. CASE Persist
  <2>1. pc = "index" /\ pc' = "flush" /\ open' = open /\ loads' = loads
    BY <1>10 DEF Persist, PersistWrite, inputVars
  <2> QED BY <1>1, <2>1 DEF ProcInv, Places
<1>11. CASE UNCHANGED vars
  BY <1>11 DEF vars, storeVars, inputVars, ProcInv, treeVars
<1> QED BY <1>2, <1>3, <1>4, <1>5, <1>6, <1>7, <1>8, <1>9, <1>10, <1>11, NextCases

\* The locals of bulk_load are untouched outside of it, or start afresh, or get
\* the first blocks of the keys.
LEMMA PairsAreTyped ==
  ASSUME KeyInv
  PROVE  Pairs(keyPointers) \in Seq(Int \X BlockIds)
<1> DEFINE K == DOMAIN keyPointers
           keys == InOrder(K)
           n == Len(keys)
           p == [i \in 1..n |-> <<keys[i], keyPointers[keys[i]]>>]
<1>1. K \in SUBSET Int /\ IsFiniteSet(K)
  BY SMT DEF KeyInv
<1>2. keys \in Seq(K)
  <2> HIDE DEF K
  <2> QED BY <1>1, KeysInOrder
<1>3. n \in Nat /\ DOMAIN keys = 1..n /\ \A i \in 1..n : keys[i] \in K
  <2> HIDE DEF K, keys
  <2> QED BY <1>2, LenProperties, ElementOfSeq
<1>4. \A i \in 1..n : <<keys[i], keyPointers[keys[i]]>> \in Int \X BlockIds
  BY <1>1, <1>3 DEF KeyInv
<1>5. Pairs(keyPointers) = p
  BY <1>3 DEF Pairs
<1>6. p \in [1..n -> Int \X BlockIds]
  BY <1>4
<1> HIDE DEF p, n
<1> QED BY <1>3, <1>5, <1>6, SeqDef

LEMMA OtherHands ==
  ASSUME IInv, BuildInv, HandInv, KeyInv, [Next]_vars, ~IndexStep
  PROVE  HandInv'
<1>1. <<>> \in Seq(Int \X BlockIds)
  BY EmptySeq
<1>2. CASE UNCHANGED vars
  <2>1. UNCHANGED <<disk, pending, work, propagate, node, nodeId, nextLeaf>>
    BY <1>2 DEF vars, storeVars, treeVars
  <2>2. UNCHANGED <<Kept(nodeId), Kept(nextLeaf)>>
    BY <2>1 DEF Kept
  <2> QED BY <2>1, <2>2 DEF HandInv
<1>3. CASE ~UNCHANGED vars
  <2>1. nodeId' = BlockNull /\ nextLeaf' = NoId
    BY <1>3, OtherSteps
  <2>2. \/ UNCHANGED <<work, propagate>>
        \/ work' = <<>> /\ propagate' = <<>>
        \/ work' = Pairs(keyPointers) /\ propagate' = propagate
    BY <1>3, NextCases DEF OpenToLoad, OpenToQuery, treeVars, loadVars, InMemory, StartLoad,
     ReadRow, TableRead, AskScan, LookupReturns,
     SkipSeen, Answer, AtEnd, ReadRowThrows, PrintRootThrows, LookupFails, ReadDataFails,
     Exit, Dies, Ends, Gone, TreeReset, Reading, PrintRoot, LookupStep, CallStep, Descend,
     ReachLeaf, NextLeafOfRange, ReadNode, SkipBlock, TakeBlock, ReadData, InsertData, StartIndex,
     BulkLoad, Persist, Flush, AskIndex, StartCall
  <2> QED BY <1>1, <2>1, <2>2, PairsAreTyped DEF HandInv
<1> QED BY <1>2, <1>3

-----------------------------------------------------------------------------
(* The map of keys.                                                        *)

\* A load keeps its first blocks where they are found.
LEMMA KeysFound ==
  ASSUME DataInv', KindInv', UNCHANGED <<keyPointers, base>>, KeyInv,
         pc \in {"data", "index"}, pc' \in {"data", "index", "flush"},
         ToSet(meta.data) \subseteq ToSet(meta'.data)
  PROVE  KeyInv'
<1>1. meta' \in MetaType /\ base' \in Nat /\ Recent(meta', base')
  BY BlocksAssumption, SMT DEF DataInv, IInv, StoreTypeOK, MetaType, KindInv
<1>2. ASSUME NEW key \in DOMAIN keyPointers
      PROVE  KindOf(meta', keyPointers[key]) = "data"
  <2> PICK id : id = keyPointers[key]
    OBVIOUS
  <2>1. id \in BlockIds /\ base <= id /\ id \in ToSet(meta'.data)
    BY <1>2 DEF KeyInv
  <2>2. id \in Int
    BY <2>1, BlocksAssumption, SMT DEF BlockIds
  <2> QED BY <1>1, <2>1, <2>2, RecentIsFound
<1> QED BY <1>2 DEF KeyInv

LEMMA InsertDataKeys ==
  ASSUME DataInv, DataInv', KindInv', KeyInv, InsertData
  PROVE  KeyInv'
<1> PICK key, last, new, c :
      key = Min(DOMAIN blocks) /\ last = Last(blocks[key]) /\ new = NewId(meta) /\ c = Count(meta)
  OBVIOUS
<1> DEFINE block == [last EXCEPT !.next = NextOf(key)]
<1>1. /\ Insert(block) /\ pc = "data" /\ pc' = "data"
      /\ keyPointers' = [k \in DOMAIN keyPointers \cup {key} |->
                           IF k = key THEN new ELSE keyPointers[k]]
  BY DEF InsertData
<1>2. key \in Nat
  BY FirstKey DEF DataInv, TableInv
<1>3. block.kind = "data"
  <2>1. last \in Chunk(key)
    BY FirstKey, UnplacedShrinks DEF DataInv, TableInv
  <2> QED BY <2>1 DEF Chunk
<1> HIDE DEF block
<1>4. /\ new = c /\ new \in BlockIds /\ new \notin Own
      /\ meta' = Register(meta, "data") /\ base' = base
  BY <1>1, <1>3, InsertKeeps DEF DataInv, Insert
<1>5. base \in Nat /\ c \in Nat /\ base <= c
  BY <1>1, InvFacts DEF DataInv, IInv, StoreInv, BaseBetweenCounts, Insert, Ready
<1>6. ToSet(meta'.data) = ToSet(meta.data) \cup {new}
  <2> PICK s : s = meta.data
    OBVIOUS
  <2>1. meta'.data = Append(s, new) /\ s \in Seq(BlockIds)
    BY <1>4 DEF Register, DataInv, IInv, StoreTypeOK
  <2>2. ToSet(Append(s, new)) = ToSet(s) \cup {new}
    BY <1>4, <2>1, AppendLemma
  <2> QED BY <2>1, <2>2
<1>7. meta' \in MetaType /\ base' \in Nat /\ Recent(meta', base')
  BY BlocksAssumption, SMT DEF DataInv, IInv, StoreTypeOK, MetaType, KindInv
<1>8. ASSUME NEW k \in DOMAIN keyPointers'
      PROVE  /\ keyPointers'[k] \in BlockIds /\ KindOf(meta', keyPointers'[k]) = "data"
             /\ base' <= keyPointers'[k] /\ keyPointers'[k] \in ToSet(meta'.data)
  <2> PICK id : id = keyPointers'[k]
    OBVIOUS
  <2>1. id = new \/ (k \in DOMAIN keyPointers /\ id = keyPointers[k])
    BY <1>1
  <2>2. id \in BlockIds /\ base' <= id /\ id \in ToSet(meta'.data)
    BY <1>1, <1>4, <1>5, <1>6, <2>1 DEF KeyInv
  <2>3. id \in Int
    BY <2>2, BlocksAssumption, SMT DEF BlockIds
  <2> QED BY <1>7, <2>2, <2>3, RecentIsFound
<1>9. DOMAIN keyPointers' = DOMAIN keyPointers \cup {key}
  BY <1>1
<1>10. IsFiniteSet(DOMAIN keyPointers') /\ DOMAIN keyPointers' \subseteq Nat
  BY <1>2, <1>9, FS_AddElement DEF KeyInv
<1> QED BY <1>1, <1>8, <1>10 DEF KeyInv

LEMMA NextKeys ==
  ASSUME DataInv, DataInv', KindInv, KindInv', KeyInv, [Next]_vars
  PROVE  KeyInv'
<1>1. ASSUME DOMAIN keyPointers' = {} PROVE KeyInv'
  BY <1>1, FS_EmptySet DEF KeyInv
<1>2. CASE OpenToLoad \/ OpenToQuery \/ InMemory \/ LookupStep \/ SkipBlock \/ TakeBlock \/ AskIndex
  <2>1. keyPointers' = keyPointers /\ pc \notin {"data", "index", "flush", "stats", "done"}
    BY <1>2 DEF OpenToLoad, OpenToQuery, InMemory, StartLoad, ReadRow, TableRead, AskScan,
       LookupReturns, SkipSeen, Answer, LookupStep, SkipBlock, TakeBlock, ReadData, AskIndex, inputVars
  <2> QED BY <1>1, <2>1 DEF KeyInv
<1>3. CASE AtEnd
  <2>1. Gone
    BY <1>3 DEF AtEnd, ReadRowThrows, PrintRootThrows, LookupFails, ReadDataFails,
       Exit, Dies, Ends
  <2> QED BY <1>1, <2>1 DEF Gone, EmptyMap
<1>4. CASE InsertData
  BY <1>4, InsertDataKeys
<1>5. CASE StartIndex \/ Persist
  <2>1. UNCHANGED <<keyPointers, base, meta>> /\ pc \in {"data", "index"} /\ pc' \in {"index", "flush"}
    BY <1>5 DEF StartIndex, BulkLoad, Persist, PersistWrite, storeVars, inputVars
  <2> QED BY <2>1, KeysFound
<1>6. CASE Flush \/ PrintRoot
  <2>1. UNCHANGED <<keyPointers, meta>> /\ pc' \in {"stats", "done"}
    BY <1>6 DEF Flush, PersistFlush, PrintRoot, Fetch, inputVars
  <2> QED BY <2>1 DEF KeyInv
<1>7. CASE IndexStep
  <2>1. LoadStep /\ UNCHANGED keyPointers /\ pc = "index" /\ pc' = "index"
    BY <1>7 DEF IndexStep, inputVars
  <2>2. \/ \E block : Insert(block) /\ block.kind # "data"
        \/ \E block : Update(nodeId, block)
        \/ \E id : SetRoot(id)
        \/ UNCHANGED storeVars
    <3>1. EmptyNode(TRUE).kind # "data" /\ EmptyNode(FALSE).kind # "data"
      BY DEF EmptyNode
    <3> QED BY <2>1, <3>1 DEF LoadStep, NewLeaf, LinkLeaf, FillLeaf, FillInternal, Fill, NewInternal,
       NextLevel, RootDone
  <2>3. meta'.data = meta.data /\ base' = base
    BY <2>2, InvFacts DEF DataInv, Insert, Update, SetRoot, storeVars, Register, MetaType
  <2> QED BY <2>1, <2>3, KeysFound
<1>8. CASE UNCHANGED vars
  BY <1>8 DEF vars, inputVars, storeVars, KeyInv
<1> QED BY <1>2, <1>3, <1>4, <1>5, <1>6, <1>7, <1>8, NextCases DEF Reading

-----------------------------------------------------------------------------
(* The chains of data blocks.                                              *)

Counted(chain) == \A i \in DOMAIN chain : Len(chain[i].records) \in 1..DataCapacity

LEMMA AppendCounted ==
  ASSUME NEW S, NEW chain \in Seq(S), Counted(chain), NEW block \in S,
         Len(block.records) \in 1..DataCapacity
  PROVE  Counted(Append(chain, block))
<1> PICK n, a : n = Len(chain) /\ a = Append(chain, block)
  OBVIOUS
<1>1. /\ n \in Nat /\ DOMAIN chain = 1..n /\ DOMAIN a = 1..n + 1 /\ a[n + 1] = block
      /\ \A i \in 1..n : a[i] = chain[i]
  BY SMT
<1>2. \A i \in 1..n + 1 : i \in 1..n \/ i = n + 1
  BY <1>1, SMT
<1>3. Counted(a)
  BY <1>1, <1>2 DEF Counted
<1> QED BY <1>3

\* An insertion counts.
LEMMA InsertCounts ==
  ASSUME NEW r \in Rows, NEW block \in [kind : {"data"}, records : Seq(Rows), next : {BlockNull}]
  PROVE  Len(DataInsert(block, r).records) = Len(block.records) + 1
<1> DEFINE old == block.records
           keys == [i \in DOMAIN old |-> old[i].key]
           at == UpperBound(keys, r.key)
           new == InsertAt(old, at, r)
<1>1. /\ old \in Seq(Rows) /\ DOMAIN old = 1..Len(old) /\ Len(old) \in Nat
      /\ \A i \in 1..Len(old) : old[i].key \in Int
  <2>1. old \in Seq(Rows)
    OBVIOUS
  <2>2. \A i \in 1..Len(old) : old[i] \in Rows
    BY <2>1, ElementOfSeq
  <2> QED BY <2>1, <2>2, LenProperties DEF Rows
<1>2. keys \in Seq(Int) /\ Len(keys) = Len(old)
  <2>1. keys \in [1..Len(old) -> Int] /\ DOMAIN keys = 1..Len(old)
    BY <1>1
  <2> HIDE DEF keys
  <2>2. keys \in Seq(Int)
    BY <1>1, <2>1, SeqDef
  <2> QED BY <1>1, <2>1, <2>2, SMT
<1>3. at \in 1..Len(old) + 1
  BY <1>2, LowerBoundIsRight DEF UpperBound
<1>4. DataInsert(block, r) = [block EXCEPT !.records = new]
  BY DEF DataInsert
<1> HIDE DEF old, at, keys
<1>5. old \in Seq(Rows)
  BY <1>1
<1>6. new \in Seq(Rows) /\ Len(new) = Len(old) + 1
  BY <1>3, <1>5, InsertAtFacts
<1> QED BY <1>4, <1>6 DEF old

\* A chain without its last block.
LEMMA FrontCounted ==
  ASSUME NEW S, NEW chain \in Seq(S), chain # <<>>, Counted(chain)
  PROVE  /\ Last(chain) \in S /\ Front(chain) \in Seq(S)
         /\ Counted(Front(chain)) /\ Len(Last(chain).records) \in 1..DataCapacity
         /\ \E i \in DOMAIN chain : Last(chain) = chain[i]
<1>1. /\ Len(chain) \in DOMAIN chain /\ Last(chain) = chain[Len(chain)] /\ Last(chain) \in S
      /\ Front(chain) \in Seq(S) /\ DOMAIN Front(chain) = DOMAIN chain \ {Len(chain)}
      /\ \A i \in DOMAIN Front(chain) : Front(chain)[i] = chain[i]
      /\ Len(chain) # 1 => Front(chain) # <<>>
  BY FrontFacts
<1> QED BY <1>1 DEF Counted

\* A record is put into a block that is not full, or into a new one.
LEMMA GroupedCounted ==
  ASSUME TableInv, ChainInv, NEW r \in ToSet(rows), r.key \in Nat, DataCapacity # 0
  PROVE  Counted(Grouped(r))
<1> PICK own : own = ChainOf(r.key)
  OBVIOUS
<1>1. r \in Rows /\ r.load = loads
  <2>1. rows \in Seq(Rows)
    BY DEF TableInv
  <2>2. r \in Rows
    BY <2>1, ElementOfSeq, LenProperties DEF ToSet
  <2> QED BY <2>2 DEF TableInv
<1>2. Unplaced(r.key, own, rows) /\ Counted(own)
  BY NothingUnplaced DEF TableInv, ChainOf, ChainInv, Counted
<1>3. Grouped(r) = IF own = <<>> \/ DataFull(Last(own))
                     THEN Append(own, DataInsert(EmptyData, r))
                     ELSE Append(Front(own), DataInsert(Last(own), r))
  BY DEF Grouped, ChainOf
<1> PICK C : C = Chunk(r.key)
  OBVIOUS
<1>4. own \in Seq(C) /\ \A i \in DOMAIN own : r \notin ToSet(own[i].records)
  BY <1>2 DEF Unplaced, Apart
<1>5. DataCapacity \in Nat \ {0}
  BY BlocksAssumption
<1>6. CASE own = <<>> \/ DataFull(Last(own))
  <2> PICK block : block = DataInsert(EmptyData, r)
    OBVIOUS
  <2>1. r \notin ToSet(EmptyData.records) /\ EmptyData.records = <<>> /\ Len(<<>>) = 0
    BY NothingOnce, SMT DEF EmptyData
  <2>2. block \in C
    BY <1>1, <2>1, DataInsertFacts
  <2>3. EmptyData \in [kind : {"data"}, records : Seq(Rows), next : {BlockNull}]
    <3>1. <<>> \in Seq(Rows)
      BY EmptySeq
    <3> QED BY <3>1 DEF EmptyData
  <2>4. Len(block.records) = Len(EmptyData.records) + 1
    BY <1>1, <2>3, InsertCounts
  <2>5. Len(block.records) \in 1..DataCapacity
    BY <1>5, <2>1, <2>4, SMT
  <2> QED BY <1>2, <1>3, <1>4, <1>6, <2>2, <2>5, AppendCounted
<1>7. CASE ~(own = <<>> \/ DataFull(Last(own)))
  <2> PICK last, init, block :
        last = Last(own) /\ init = Front(own) /\ block = DataInsert(last, r)
    OBVIOUS
  <2>1. /\ last \in C /\ init \in Seq(C) /\ Counted(init)
        /\ Len(last.records) \in 1..DataCapacity /\ \E i \in DOMAIN own : last = own[i]
    BY <1>2, <1>4, <1>7, FrontCounted
  <2>2. r \notin ToSet(last.records)
    BY <1>4, <2>1
  <2>3. block \in C /\ Len(block.records) = Len(last.records) + 1
    BY <1>1, <2>1, <2>2, DataInsertFacts, InsertCounts DEF Chunk
  <2>4. Len(last.records) \in 1..DataCapacity /\ ~(Len(last.records) >= DataCapacity)
    BY <1>7, <2>1 DEF DataFull
  <2>5. Len(block.records) \in 1..DataCapacity
    BY <1>5, <2>3, <2>4, SMT
  <2> QED BY <1>3, <1>7, <2>1, <2>2, <2>3, <2>5, AppendCounted
<1> QED BY <1>6, <1>7

LEMMA NextChains ==
  ASSUME TableInv, ChainInv, [Next]_vars
  PROVE  ChainInv'
<1>1. CASE ReadRow
  <2> PICK r : r = Head(rows)
    OBVIOUS
  <2>1. r \in ToSet(rows) /\ ~Throws(r)
    BY <1>1, TailOnce DEF TableInv, ReadRow
  <2>2. r.key \in Nat /\ DataCapacity # 0
    BY <2>1 DEF TableInv, Throws
  <2>3. blocks' = [key \in DOMAIN blocks \cup {r.key} |->
                     IF key = r.key THEN Grouped(r) ELSE blocks[key]]
    BY <1>1 DEF ReadRow
  <2>4. Counted(Grouped(r))
    BY <2>1, <2>2, GroupedCounted
  <2> QED BY <2>3, <2>4 DEF ChainInv, Counted
<1>2. CASE InsertData
  <2> PICK key, chain : key = Min(DOMAIN blocks) /\ chain = blocks[key]
    OBVIOUS
  <2>1. key \in DOMAIN blocks
    BY <1>2, FirstKey
  <2>2. blocks' = IF Len(chain) = 1 THEN Restrict(blocks, DOMAIN blocks \ {key})
                                    ELSE [blocks EXCEPT ![key] = Front(chain)]
    BY <1>2 DEF InsertData
  <2>3. Counted(chain) /\ chain # <<>> /\ chain \in Seq(Chunk(key))
    BY <2>1 DEF TableInv, Unplaced, ChainInv, Counted
  <2>4. Counted(Front(chain))
    BY <2>3, FrontCounted
  <2>5. CASE Len(chain) = 1
    BY <2>2, <2>5 DEF Restrict, ChainInv
  <2>6. CASE Len(chain) # 1
    <3>1. /\ DOMAIN blocks' = DOMAIN blocks
          /\ \A k \in DOMAIN blocks : blocks'[k] = IF k = key THEN Front(chain) ELSE blocks[k]
      BY <2>2, <2>6
    <3> QED BY <2>4, <3>1 DEF ChainInv, Counted
  <2> QED BY <2>5, <2>6
<1>3. CASE AtEnd
  <2>1. Gone
    BY <1>3 DEF AtEnd, ReadRowThrows, PrintRootThrows, LookupFails, ReadDataFails,
       Exit, Dies, Ends
  <2> QED BY <2>1 DEF Gone, EmptyMap, ChainInv
<1>4. CASE ~(ReadRow \/ InsertData \/ AtEnd)
  <2>1. blocks' = blocks
    BY <1>4, NextCases DEF OpenToLoad, OpenToQuery, InMemory, StartLoad, TableRead, AskScan,
       LookupReturns, SkipSeen, Answer, Reading, PrintRoot, LookupStep, SkipBlock, TakeBlock,
       ReadData, StartIndex, IndexStep, Persist, Flush, AskIndex, inputVars, vars
  <2> QED BY <2>1 DEF ChainInv
<1> QED BY <1>1, <1>2, <1>3, <1>4

-----------------------------------------------------------------------------
(* What a query reads leads to ids.                                        *)

\* An id that the metadata lists as a kind of block is counted.
LEMMA ListedIsKnown ==
  ASSUME IInv, open, NEW id, KindOf(meta, id) \in {"data", "btree"}
  PROVE  id \in BlockIds /\ id < Known
<1>1. ASSUME NEW s \in Seq(BlockIds), BinarySearch(s, id)
      PROVE  id \in BlockIds /\ id \in ToSet(s)
  <2>1. \A b \in BlockIds : b \in Int
    BY BlocksAssumption, SMT DEF BlockIds
  <2>2. s \in [1..Len(s) -> BlockIds] /\ Len(s) \in Nat
    BY <1>1, LenProperties
  <2>3. s \in [1..Len(s) -> Int]
    BY <2>1, <2>2
  <2>4. s \in Seq(Int)
    BY <2>2, <2>3, SeqDef
  <2>5. id \in ToSet(s)
    BY <1>1, <2>4, BinarySearchIsRight
  <2> QED BY <2>2, <2>5 DEF ToSet
<1>2. BinarySearch(meta.data, id) \/ BinarySearch(meta.btree, id)
  BY DEF KindOf
<1>3. meta.data \in Seq(BlockIds) /\ meta.btree \in Seq(BlockIds)
  BY DEF IInv, StoreTypeOK
<1>4. id \in BlockIds /\ id \in IdsOf(meta)
  BY <1>1, <1>2, <1>3 DEF IdsOf
<1> QED BY <1>4, InvFacts DEF Known

\* A block that is read has its form.
LEMMA ReadIsFormed ==
  ASSUME IInv, BuildInv, FormInv, open, pending = NoWrite, pc # "index",
         NEW kind \in {"data", "btree"}, NEW id, Readable(id, kind)
  PROVE  /\ id \in BlockIds /\ Content(id) # Garbage /\ Formed(Content(id))
         /\ Content(id).kind \in {kind, "hole"}
<1>1. id \in BlockIds /\ id < Known
  BY ListedIsKnown DEF Readable
<1>2. id \notin {nodeId, nextLeaf}
  BY <1>1, KnownIsSmall DEF NullIsUnknown, BuildInv
<1>3. Content(id) = Kept(id)
  BY DEF Content, DiskAfter, Kept, NoWrite
<1> QED BY <1>1, <1>2, <1>3 DEF FormInv, Readable

LEMMA NodeIsWhole ==
  ASSUME IInv, BuildInv, FormInv, open, pending = NoWrite, pc # "index",
         NEW id, Readable(id, "btree")
  PROVE  Whole(NodeAt(id))
<1>1. /\ Content(id) # Garbage /\ Formed(Content(id))
      /\ Content(id).kind \in {"btree", "hole"}
  BY ReadIsFormed
<1>2. CASE Content(id).kind = "hole"
  <2>1. <<0>> \in Seq(BlockIds) /\ <<>> \in Seq(Int) /\ Len(<<0>>) = Len(<<>>) + 1
    <3>1. 0 \in BlockIds
      BY BlocksAssumption, SMT DEF BlockIds
    <3> QED BY <3>1, SMT
  <2> PICK one : one = <<0>>
    OBVIOUS
  <2>2. NodeAt(id) = [kind |-> "btree", leaf |-> FALSE, keys |-> <<>>, pointers |-> one]
    BY <1>2 DEF NodeAt, EmptyNode
  <2> QED BY <2>1, <2>2 DEF Whole, NodeType
<1>3. CASE Content(id).kind # "hole"
  BY <1>1, <1>3 DEF NodeAt, Formed
<1> QED BY <1>2, <1>3

LEMMA LinkIsId ==
  ASSUME IInv, BuildInv, FormInv, open, pending = NoWrite, pc # "index",
         NEW id, Readable(id, "data")
  PROVE  DataAt(id).next \in BlockIds
<1>1. /\ Content(id) # Garbage /\ Formed(Content(id))
      /\ Content(id).kind \in {"data", "hole"}
  BY ReadIsFormed
<1>2. BlockNull \in BlockIds
  BY BlocksAssumption, SMT DEF BlockIds
<1> QED BY <1>1, <1>2 DEF DataAt, EmptyData, Formed, Whole, NodeType

\* What a query takes from a leaf.
LEMMA LeafStep ==
  ASSUME LookupInv, NEW leaf, Whole(leaf), NEW from \in 1..Len(leaf.keys) + 1,
         RangeLeaf(leaf, from) \/ GetLeaf(leaf, from), UNCHANGED scanIds
  PROVE  LookupInv'
<1>1. /\ \A i \in 1..Len(leaf.keys) + 1 : leaf.pointers[i] \in BlockIds
      /\ Last(leaf.pointers) \in BlockIds
  BY PlaceInNode
<1>2. CASE RangeLeaf(leaf, from)
  <2> PICK more : more = SubSeq(leaf.pointers, from, from + Cardinality(Taken(leaf, from)) - 1)
    OBVIOUS
  <2>1. more \in Seq(BlockIds)
    BY TakenAreIds
  <2>2. found \o more \in Seq(BlockIds)
    BY <2>1, ConcatLemma DEF LookupInv
  <2>3. found' = found \o more /\ cursor' \in {cursor, Last(leaf.pointers)}
    BY <1>2 DEF RangeLeaf
  <2> QED BY <1>1, <2>2, <2>3 DEF LookupInv
<1>3. CASE GetLeaf(leaf, from)
  <2>1. /\ cursor' = cursor
        /\ found' = <<>> \/ found' = <<leaf.pointers[from]>>
    BY <1>3 DEF GetLeaf
  <2> PICK p : p = leaf.pointers[from]
    OBVIOUS
  <2>2. p \in BlockIds => <<p>> \in Seq(BlockIds)
    BY SMT
  <2>3. <<>> \in Seq(BlockIds)
    BY EmptySeq
  <2> QED BY <1>1, <2>1, <2>2, <2>3 DEF LookupInv
<1> QED BY <1>2, <1>3

LEMMA LookupGoesOn ==
  ASSUME IInv, BuildInv, FormInv, ProcInv, QueryInv, LookupInv, LookupStep
  PROVE  LookupInv'
<1>1. /\ pc = "lookup" /\ open /\ pending = NoWrite /\ Readable(cursor, "btree")
      /\ UNCHANGED scanIds
  BY DEF LookupStep, CallStep, Descend, ReachLeaf, NextLeafOfRange, ReadNode, ProcInv,
     QueryInv, queryVars
<1> PICK n : n = NodeAt(cursor)
  OBVIOUS
<1>2. Whole(n)
  BY <1>1, NodeIsWhole
<1>3. CASE Descend
  <2>1. cursor' = Child(n, call.begin) /\ found' = found
    BY <1>3 DEF Descend
  <2> QED BY <1>1, <1>2, <2>1, ChildIsId DEF LookupInv
<1>4. CASE ReachLeaf
  <2> PICK at : at = LowerBound(n.keys, call.begin)
    OBVIOUS
  <2>1. at \in 1..Len(n.keys) + 1
    BY <1>2, PlaceInNode
  <2>2. RangeLeaf(n, at) \/ GetLeaf(n, at)
    BY <1>4 DEF ReachLeaf
  <2> QED BY <1>1, <1>2, <2>1, <2>2, LeafStep
<1>5. CASE NextLeafOfRange
  <2>1. 1 \in 1..Len(n.keys) + 1
    <3>1. n.keys \in Seq(Int)
      BY <1>2 DEF Whole, NodeType
    <3>2. Len(n.keys) \in Nat
      BY <3>1, LenProperties
    <3> QED BY <3>2, SMT
  <2>2. RangeLeaf(n, 1)
    BY <1>5 DEF NextLeafOfRange
  <2> QED BY <1>1, <1>2, <2>1, <2>2, LeafStep
<1> QED BY <1>3, <1>4, <1>5 DEF LookupStep, CallStep

LEMMA ScanTakes ==
  ASSUME IInv, BuildInv, FormInv, ProcInv, QueryInv, LookupInv, TakeBlock
  PROVE  scanIds' \in Seq(BlockIds)
<1> PICK id, next : id = Head(scanIds)
      /\ next = IF DataAt(id).next = BlockNull THEN <<>> ELSE <<DataAt(id).next>>
  OBVIOUS
<1>1. /\ pc = "scan" /\ open /\ pending = NoWrite /\ Readable(id, "data")
      /\ scanIds # <<>> /\ scanIds' = Tail(scanIds) \o next
  BY DEF TakeBlock, ReadData, ProcInv, QueryInv
<1> PICK p : p = DataAt(id).next
  OBVIOUS
<1>2. p \in BlockIds
  BY <1>1, LinkIsId
<1>3. <<p>> \in Seq(BlockIds) /\ <<>> \in Seq(BlockIds)
  BY <1>2, SMT
<1>4. next \in Seq(BlockIds)
  BY <1>3
<1>5. Tail(scanIds) \in Seq(BlockIds)
  BY <1>1, TailOnce DEF LookupInv
<1> QED BY <1>1, <1>4, <1>5, ConcatLemma

LEMMA NextLookup ==
  ASSUME IInv, BuildInv, FormInv, ProcInv, QueryInv, LookupInv, [Next]_vars
  PROVE  LookupInv'
<1>1. <<>> \in Seq(BlockIds)
  BY EmptySeq
<1>2. CASE LookupStep
  BY <1>2, LookupGoesOn
<1>3. CASE TakeBlock
  BY <1>3, ScanTakes DEF TakeBlock, ReadData, LookupInv
<1>4. CASE SkipSeen \/ SkipBlock
  <2>1. /\ scanIds # <<>> /\ scanIds' = Tail(scanIds) /\ UNCHANGED <<cursor, found>>
    BY <1>4 DEF SkipSeen, SkipBlock, ReadData, treeVars, callVars
  <2> QED BY <2>1, TailOnce DEF LookupInv
<1>5. CASE AskScan \/ LookupReturns
  <2>1. /\ (scanIds' = meta.data \/ scanIds' = found) /\ UNCHANGED <<cursor, found>>
    BY <1>5 DEF AskScan, LookupReturns, treeVars, callVars
  <2> QED BY <2>1 DEF LookupInv, IInv, StoreTypeOK
<1>6. CASE AskIndex
  <2>1. cursor' = meta.root /\ found' = <<>> /\ scanIds' = scanIds
    BY <1>6 DEF AskIndex, StartCall, queryVars
  <2>2. meta.root \in BlockIds
    BY DEF IInv, StoreTypeOK
  <2> QED BY <1>1, <2>1, <2>2 DEF LookupInv
<1>7. CASE AtEnd
  <2>1. Gone
    BY <1>7 DEF AtEnd, ReadRowThrows, PrintRootThrows, LookupFails, ReadDataFails,
       Exit, Dies, Ends
  <2>2. cursor' = NoId /\ found' = <<>> /\ scanIds' = <<>>
    BY <2>1 DEF Gone, TreeReset
  <2> QED BY <1>1, <2>2 DEF LookupInv
<1>8. CASE UNCHANGED <<cursor, found, scanIds>>
  BY <1>8 DEF LookupInv
<1>9. CASE OpenToLoad \/ OpenToQuery \/ StartLoad \/ ReadRow \/ TableRead \/ Answer \/ PrintRoot
  BY <1>8, <1>9 DEF OpenToLoad, OpenToQuery, StartLoad, ReadRow, TableRead, Answer, PrintRoot,
     queryVars, treeVars, callVars
<1>10. CASE InsertData \/ StartIndex \/ Persist \/ Flush \/ UNCHANGED vars
  BY <1>8, <1>10 DEF InsertData, StartIndex, BulkLoad, Persist, Flush, queryVars, treeVars,
     callVars, vars
<1>11. CASE IndexStep
  <2>1. LoadStep /\ UNCHANGED queryVars
    BY <1>11 DEF IndexStep
  <2>2. UNCHANGED callVars
    BY <2>1 DEF LoadStep, NewLeaf, LinkLeaf, FillLeaf, FillInternal, Fill, NewInternal,
       NextLevel, RootDone
  <2> QED BY <1>8, <2>1, <2>2 DEF queryVars, callVars
<1> QED BY <1>2, <1>3, <1>4, <1>5, <1>6, <1>7, <1>9, <1>10, <1>11, NextCases
         DEF InMemory, Reading

-----------------------------------------------------------------------------
(* The types are kept.                                                     *)

\* The last inductive invariant of a load and a query: all of it has its type.
TypeInv == ProcInv /\ FormInv /\ HandInv /\ KeyInv /\ LookupInv /\ ChainInv

LEMMA InitTypes == Init => TypeInv
<1> SUFFICES ASSUME Init PROVE TypeInv
  OBVIOUS
<1>1. <<>> \in Seq(BlockIds) /\ <<>> \in Seq(Int \X BlockIds)
  BY EmptySeq
<1>2. /\ pc = "closed" /\ ~open /\ capacity = Capacity /\ loads = 0 /\ pending = NoWrite
      /\ \A id \in BlockIds : disk[id] = Hole
  BY DEF Init, StoreInit, TreeInit
<1>3. 0 \in 0..MaxLoads
  BY DatabaseAssumption, SMT
<1>4. ProcInv
  BY <1>2, <1>3 DEF ProcInv, Places, NoWrite
<1>5. FormInv
  BY <1>2 DEF FormInv, Formed, Kept, NoWrite, Hole
<1>6. HandInv
  BY <1>1 DEF Init, TreeInit, HandInv
<1>7. KeyInv
  <2>1. IsFiniteSet({})
    BY FS_EmptySet
  <2>2. DOMAIN keyPointers = {}
    BY DEF Init, EmptyMap
  <2> QED BY <2>1, <2>2 DEF KeyInv
<1>8. LookupInv
  BY <1>1 DEF Init, TreeInit, LookupInv
<1>9. ChainInv
  BY DEF Init, EmptyMap, ChainInv
<1> QED BY <1>4, <1>5, <1>6, <1>7, <1>8, <1>9 DEF TypeInv

LEMMA NextTypes ==
  ASSUME DataInv, DataInv', KindInv, KindInv', TypeInv, [Next]_vars
  PROVE  TypeInv'
<1>1. /\ IInv /\ IInv' /\ BuildInv /\ TableInv /\ QueryInv
      /\ ProcInv /\ FormInv /\ HandInv /\ KeyInv /\ LookupInv /\ ChainInv
  BY DEF DataInv, TypeInv
<1>2. FormInv' /\ HandInv'
  <2>1. CASE IndexStep
    <3>1. LoadStep /\ StoreStep
      BY <1>1, <2>1, NextBuilds DEF IndexStep
    <3> QED BY <1>1, <3>1, IndexForms
  <2>2. CASE ~IndexStep
    BY <1>1, <2>2, OtherForms, OtherHands
  <2> QED BY <2>1, <2>2
<1>3. ProcInv' /\ KeyInv' /\ LookupInv' /\ ChainInv'
  BY <1>1, NextProc, NextKeys, NextLookup, NextChains
<1> QED BY <1>2, <1>3 DEF TypeInv

LEMMA TypesKept == Spec => [](DataInv /\ TypeInv)
<1>1. DataInv /\ DataInv' /\ KindInv /\ KindInv' /\ TypeInv /\ [Next]_vars => TypeInv'
  BY NextTypes
<1> QED BY InitTypes, KindKept, <1>1, PTL DEF Spec

\* A process of load or query stands where the program counter says, the blocks
\* it gathers are neither empty nor overfull, its map leads to data blocks, its
\* queue and its answer hold ids of blocks and records of loads that were made:
\* also on a database that was damaged, or left by a process that died.
THEOREM DatabaseTypesKept == Spec => []DatabaseTypeOK
<1>1. DataInv /\ TypeInv => DatabaseTypeOK
  <2> SUFFICES ASSUME DataInv, TypeInv PROVE DatabaseTypeOK
    OBVIOUS
  <2>1. ASSUME NEW i \in DOMAIN records PROVE records[i].load \in 1..loads
    <3> PICK r : r = records[i]
      OBVIOUS
    <3>1. r \in Rows /\ r \in ToSet(records)
      <4>1. records \in Seq(Rows)
        BY DEF DataInv, QueryInv
      <4> QED BY <2>1, <4>1, LenProperties, ElementOfSeq DEF ToSet
    <3>2. r \in Written
      BY <3>1 DEF DataInv, QueryInv, Written
    <3>3. r.load \in 0..loads /\ loads \in Nat /\ r.load \in Nat \ {0}
      BY <3>1, <3>2 DEF DataInv, TableInv, Rows
    <3> QED BY <3>3, SMT
  <2>2. \A key \in DOMAIN keyPointers : KindOf(meta, keyPointers[key]) = "data"
    BY DEF TypeInv, KeyInv
  <2> QED BY <2>1, <2>2 DEF DatabaseTypeOK, TypeInv, ProcInv, Places, ChainInv, LookupInv,
             DataInv, QueryInv
<1> QED BY <1>1, TypesKept, PTL
-----------------------------------------------------------------------------
(* The tree of a load, and of the file.                                    *)

\* The tree that metadata leads to is in the file.
Rooted(m) == m.root \in ToSet(m.btree)
Served(m) == Rooted(m) => \E g, h, D : Serves(m, g, h, D, disk)

\* The process goes by the tree that the file has, or there is none.
SameIndex ==
  Rooted(meta) \/ Rooted(FileMeta) =>
    /\ meta.root = FileMeta.root /\ meta.btree = FileMeta.btree
    /\ ToSet(FileMeta.data) \subseteq ToSet(meta.data)

\* A load's data blocks are the chains of its keys, its tree stands behind them,
\* and a table without a row gets no tree.
NewChains == ChainFits(NewData, keyPointers, Nodes) /\ \A i \in NewData, j \in TreeIds : i < j
Building ==
  IF DOMAIN keyPointers = {} THEN SameIndex /\ phase = "loaded"
                             ELSE \E g : LoadFits(g, keyPointers)
Built ==
  IF DOMAIN keyPointers = {} THEN SameIndex
                             ELSE \E g, h : Serves(meta, g, h, NewData, Nodes)
\* What the process has of a tree.
LocalTree ==
  /\ open /\ pc \notin {"index", "flush"} => SameIndex
  /\ pc \in {"load", "rows", "data"} => TreeIds = {}
  /\ Loading => NewChains
  /\ pc = "index" => Building
  /\ pc = "flush" => Built
  /\ pc # "index" \/ phase \notin {"leaf", "internal"} => propagate = <<>>
TreeInv == Served(FileMeta) /\ LocalTree

\* A tree stays where its blocks do.
LEMMA ServesStays ==
  ASSUME NEW m, NEW g, NEW h, NEW D, NEW n, Serves(m, g, h, D, n), NEW m2, NEW n2,
         m2.root = m.root, ToSet(m.btree) \subseteq ToSet(m2.btree),
         ToSet(m.data) \subseteq ToSet(m2.data), \A id \in IdsOf(m) : n2[id] = n[id]
  PROVE  Serves(m2, g, h, D, n2)
<1>1. g.ids \subseteq ToSet(m.btree) /\ D \subseteq ToSet(m.data)
  BY DEF Serves
<1>2. /\ \A id \in g.ids : n2[id] = n[id]
      /\ \A id \in D : n2[id] = n[id]
  BY <1>1 DEF IdsOf
<1>3. ChainFits(D, g.map, n)
  BY DEF Serves
<1>4. ASSUME NEW id \in D PROVE Linked(D, g.map, n2, id)
  <2>1. Linked(D, g.map, n, id)
    BY <1>3 DEF ChainFits
  <2>2. n2[id] = n[id] /\ \A j \in D : n2[j] = n[j]
    BY <1>2
  <2> QED BY <2>1, <2>2 DEF Linked, KeyAt
<1>5. ChainFits(D, g.map, n2)
  <2>1. \A k \in DOMAIN g.map : n2[g.map[k]] = n[g.map[k]]
    BY <1>2, <1>3 DEF ChainFits
  <2> QED BY <1>3, <1>4, <2>1 DEF ChainFits, KeyAt
<1> QED BY <1>1, <1>2, <1>5 DEF Serves

\* A list in the file names blocks that every process knows as old.
LEMMA FileIdIsOld ==
  ASSUME IInv, NEW id \in IdsOf(FileMeta)
  PROVE  id \in BlockIds /\ (id < base \/ ~open)
<1> DEFINE f == FileCount
<1>1. /\ FileMeta \in MetaType /\ f \in Nat
      /\ \A x \in IdsOf(FileMeta) : x < f
  BY InvFacts, DecodeLemma DEF FileMeta
<1>3. id \in BlockIds /\ id \in Nat
  BY <1>1, IdsAreBlockIds, BlocksAssumption, SMT DEF BlockIds
<1>4. open => f <= base /\ base \in Nat
  BY InvFacts DEF IInv, StoreInv, BaseBetweenCounts
<1>5. id < f
  BY <1>1
<1> HIDE DEF f
<1>6. open => id < base
  BY <1>1, <1>3, <1>4, <1>5, SMT
<1> QED BY <1>3, <1>6

\* The metadata block moves no other.
LEMMA MetaMovesNothing ==
  ASSUME IInv, MetaFits, pending.to = "meta"
  PROVE  \A id \in BlockIds : Nodes[id] = disk[id]
<1>1. pending.words = Encode(meta)
  BY DEF IInv, StoreInv, PendingIsRecent
<1>2. Nodes = [id \in BlockIds |-> IF ClearOf(id, Len(Encode(meta))) THEN disk[id] ELSE Garbage]
  BY <1>1 DEF Nodes, DiskAfter
<1>3. \A id \in BlockIds : ClearOf(id, Len(Encode(meta)))
  BY WholeImageIsClear
<1> QED BY <1>2, <1>3

\* The file's index stays, or becomes that of the process with its metadata.
LEMMA FileIndexStep ==
  ASSUME IInv, MetaFits, ~TornMeta, StoreStep
  PROVE  \/ /\ FileMeta' = FileMeta
            /\ \A id \in IdsOf(FileMeta) : disk'[id] = disk[id]
         \/ /\ pending.to = "meta" /\ FileMeta' = meta
            /\ \A id \in BlockIds : disk'[id] = disk[id]
<1>1. CASE header' = header
  <2>1. FileMeta' = FileMeta
    BY <1>1 DEF FileMeta
  <2> QED BY <2>1, FileIdIsOld, OldBlockStays
<1> QED BY <1>1, HeaderStep

\* Every list holds ids.
LEMMA MetaIds ==
  ASSUME IInv
  PROVE  IdsOf(meta) \subseteq BlockIds /\ IdsOf(FileMeta) \subseteq BlockIds
  BY InvFacts, DecodeLemma, IdsAreBlockIds DEF FileMeta

\* The file's tree stays, or gives way to the one of the metadata written.
LEMMA FileStaysServed ==
  ASSUME IInv, MetaFits, ~TornMeta, StoreStep, Served(FileMeta), pending.to = "meta" => Served(meta)
  PROVE  Served(FileMeta)'
<1>1. ASSUME NEW m, NEW m2, m2 = m, Served(m), Rooted(m2), \A id \in IdsOf(m) : disk'[id] = disk[id]
      PROVE  \E g, h, D : Serves(m2, g, h, D, disk')
  <2>1. PICK g, h, D : Serves(m, g, h, D, disk)
    BY <1>1 DEF Served
  <2>2. Serves(m2, g, h, D, disk')
    BY <1>1, <2>1, ServesStays
  <2> QED BY <2>2
<1>2. CASE FileMeta' = FileMeta /\ \A id \in IdsOf(FileMeta) : disk'[id] = disk[id]
  <2>1. Rooted(FileMeta') => \E g, h, D : Serves(FileMeta', g, h, D, disk')
    <3> PICK m, m2 : m = FileMeta /\ m2 = FileMeta'
      OBVIOUS
    <3> QED BY <1>1, <1>2
  <2> QED BY <2>1 DEF Served
<1>3. CASE /\ pending.to = "meta" /\ FileMeta' = meta
           /\ \A id \in BlockIds : disk'[id] = disk[id]
  <2>1. Rooted(FileMeta') => \E g, h, D : Serves(FileMeta', g, h, D, disk')
    <3> PICK m, m2 : m = meta /\ m2 = FileMeta'
      OBVIOUS
    <3>1. \A id \in IdsOf(m) : disk'[id] = disk[id]
      BY <1>3, MetaIds
    <3> QED BY <1>1, <1>3, <3>1
  <2> QED BY <2>1 DEF Served
<1> QED BY <1>2, <1>3, FileIndexStep

\* The chains of a table stay where their blocks do.
LEMMA ChainsStay ==
  ASSUME NEW D, NEW f, NEW n, ChainFits(D, f, n), NEW n2, \A id \in D : n2[id] = n[id]
  PROVE  ChainFits(D, f, n2)
<1>1. ASSUME NEW id \in D PROVE Linked(D, f, n2, id)
  <2>1. Linked(D, f, n, id)
    BY DEF ChainFits
  <2>2. n2[id] = n[id] /\ \A j \in D : n2[j] = n[j]
    OBVIOUS
  <2> QED BY <2>1, <2>2 DEF Linked, KeyAt
<1>2. \A k \in DOMAIN f : n2[f[k]] = n[f[k]]
  BY DEF ChainFits
<1> QED BY <1>1, <1>2 DEF ChainFits, KeyAt

\* The metadata that a load writes leads to its own tree, or to the file's.
LEMMA WrittenIsServed ==
  ASSUME IInv, MetaFits, LoadInv, TreeInv, pending.to = "meta"
  PROVE  Served(meta)
<1>1. pc = "flush" /\ Built /\ Served(FileMeta)
  BY DEF LoadInv, TreeInv, LocalTree
<1>2. CASE DOMAIN keyPointers = {}
  <2> SUFFICES ASSUME Rooted(meta) PROVE \E g, h, D : Serves(meta, g, h, D, disk)
    BY DEF Served
  <2>1. /\ meta.root = FileMeta.root /\ meta.btree = FileMeta.btree
        /\ ToSet(FileMeta.data) \subseteq ToSet(meta.data)
    BY <1>1, <1>2 DEF Built, SameIndex
  <2>2. PICK g, h, D : Serves(FileMeta, g, h, D, disk)
    BY <1>1, <2>1 DEF Served, Rooted
  <2>3. Serves(meta, g, h, D, disk)
    BY <2>1, <2>2, ServesStays
  <2> QED BY <2>3
<1>3. CASE DOMAIN keyPointers # {}
  <2>1. PICK g, h : Serves(meta, g, h, NewData, Nodes)
    BY <1>1, <1>3 DEF Built
  <2>2. \A id \in IdsOf(meta) : disk[id] = Nodes[id]
    BY MetaMovesNothing, MetaIds
  <2>3. Serves(meta, g, h, NewData, disk)
    BY <2>1, <2>2, ServesStays
  <2> QED BY <2>3 DEF Served
<1> QED BY <1>2, <1>3

-----------------------------------------------------------------------------
(* The tree that the process goes by.                                      *)

\* Until the metadata is written the process goes by the tree of the file.
LEMMA SameIndexKept ==
  ASSUME IInv, MetaFits, ~TornMeta, StoreStep, pending.to # "meta", SameIndex,
         meta'.root = meta.root, meta'.btree = meta.btree, ToSet(meta.data) \subseteq ToSet(meta'.data)
  PROVE  SameIndex'
<1>1. FileMeta' = FileMeta
  BY FileIndexStep
<1> QED BY <1>1 DEF SameIndex, Rooted

\* Metadata without a tree node leads to no tree.
LEMMA NothingIsRooted ==
  /\ ~Rooted(Decode(<<>>)) /\ ~Rooted(FreshMeta)
  /\ \A n, k \in Nat : ~Rooted(ZeroMeta(n, k))
<1>1. Decode(<<>>).btree = <<>> /\ FreshMeta.btree = <<>>
  BY DEF FreshMeta, Decode, Word
<1>2. ASSUME NEW n \in Nat, NEW k \in Nat PROVE ~Rooted(ZeroMeta(n, k))
  <2>1. ZeroMeta(n, k).root = BlockNull /\ ZeroMeta(n, k).btree = [i \in 1..k |-> 0]
    BY DEF ZeroMeta
  <2>2. ToSet([i \in 1..k |-> 0]) \subseteq {0}
    BY DEF ToSet
  <2>3. BlockNull # 0
    BY BlocksAssumption
  <2> QED BY <2>1, <2>2, <2>3 DEF Rooted
<1> QED BY <1>1, <1>2, NothingOnce DEF Rooted

\* A process that opens the file goes by its tree.
LEMMA OpenIsSame ==
  ASSUME IInv, ScanInv, Open
  PROVE  SameIndex'
<1>1. FileMeta' = FileMeta /\ meta' \in MetaOnOpen
  BY DEF Open, FileMeta
<1>2. CASE status = "written"
  <2>1. meta' = FileMeta
    BY <1>1, <1>2 DEF MetaOnOpen, FileMeta
  <2> QED BY <1>1, <2>1 DEF SameIndex
<1>3. CASE status # "written"
  <2>1. header = <<>>
    BY <1>3 DEF ScanInv
  <2>2. ~Rooted(FileMeta)
    BY <2>1, NothingIsRooted DEF FileMeta
  <2>3. ~Rooted(meta')
    BY <1>1, <1>3, NothingIsRooted, DiskStoreAssumption, SMT DEF MetaOnOpen, IInv, StoreTypeOK
  <2> QED BY <1>1, <2>2, <2>3 DEF SameIndex
<1> QED BY <1>2, <1>3
-----------------------------------------------------------------------------
(* The chains and the tree of a load.                                      *)

\* What get_block finds is what a client of the tree finds.
LEMMA ContentIsNode == \A id : Content(id) = Nodes[id]
  BY DEF Content, Nodes

\* A step of bulk_load writes beside the data blocks, and its nodes behind them.
LEMMA LoadStepWrites ==
  ASSUME StoreFits, BuildInv, KindInv, pc = "index", LoadStep
  PROVE  /\ NewData' = NewData /\ \A i \in NewData : Nodes'[i] = Nodes[i]
         /\ \A j \in TreeIds' : j \in TreeIds \/ \A i \in NewData : i < j
<1>1. NewData \subseteq IdsOf(meta) /\ IdsOf(meta) \subseteq BlockIds
  BY MetaIds DEF StoreFits, NewData, IdsOf
<1>2. DOMAIN Nodes = BlockIds
  BY NodesAreAll
<1>3. meta \in MetaType /\ meta.data \in Seq(BlockIds)
  BY InvFacts DEF StoreFits, MetaType
<1>4. CASE NewLeaf \/ NewInternal
  <2>1. PICK leaf \in BOOLEAN : Insert(EmptyNode(leaf))
    BY <1>4 DEF NewLeaf, NewInternal
  <2> PICK b, q : b = EmptyNode(leaf) /\ q = NewId(meta)
    OBVIOUS
  <2>2. b.kind = "btree" /\ Insert(b)
    BY <2>1 DEF EmptyNode
  <2>3. Inserts(q, b)
    BY <2>2, InsertFits
  <2>4. base' = base /\ meta'.data = meta.data
    BY <1>3, <2>2 DEF Insert, Register
  <2>5. NewData' = NewData
    BY <2>4 DEF NewData
  <2>6. \A i \in NewData : i < q
    BY <1>1, <2>3 DEF Inserts
  <2>7. \A i \in NewData : i # q
    <3>1. \A i \in NewData : i < i => FALSE
      BY <1>1, BlocksAssumption, SMT DEF BlockIds
    <3> QED BY <2>6, <3>1
  <2>8. \A i \in NewData : Nodes'[i] = Nodes[i]
    BY <1>1, <1>2, <2>3, <2>7 DEF Inserts
  <2>9. TreeIds' = TreeIds \cup {q}
    BY <2>3 DEF Inserts
  <2> QED BY <2>5, <2>6, <2>8, <2>9
<1>5. CASE LinkLeaf \/ FillLeaf \/ FillInternal
  <2>1. PICK n : Update(nodeId, n) /\ nodeId # BlockNull
    <3>1. CASE LinkLeaf
      BY <3>1 DEF LinkLeaf, BuildInv
    <3>2. CASE FillLeaf \/ FillInternal
      <4>1. node # NoNode /\ Fill
        BY <3>2 DEF FillLeaf, FillInternal, NeedsNode
      <4> QED BY <4>1 DEF Fill, BuildInv
    <3> QED BY <1>5, <3>1, <3>2
  <2> PICK id : id = nodeId
    OBVIOUS
  <2>2. IsTreeId(id) /\ id \in Own
    BY <2>1 DEF KindInv, BuildInv
  <2>3. id \in TreeIds /\ id \notin NewData
    <3>1. id \in ToSet(meta.btree) /\ id \notin ToSet(meta.data)
      BY <2>2 DEF IsTreeId
    <3>2. base <= id
      <4>1. base \in Nat /\ Count(meta) \in Nat
        BY InvFacts DEF StoreFits
      <4> QED BY <2>2, <4>1, SMT DEF Own
    <3> QED BY <3>1, <3>2 DEF TreeIds, NewData
  <2>4. Updates(id, n)
    BY <2>1, <2>3, UpdateFits
  <2>5. NewData' = NewData /\ TreeIds' = TreeIds
    BY <2>4 DEF Updates, NewData, TreeIds
  <2>6. \A i \in NewData : Nodes'[i] = Nodes[i]
    BY <1>1, <1>2, <2>3, <2>4 DEF Updates
  <2> QED BY <2>5, <2>6
<1>6. CASE NextLevel
  BY <1>6, SameStoreFits DEF NextLevel, NewData, storeVars
<1>7. CASE RootDone
  <2>1. \E id : SetRoot(id)
    BY <1>7 DEF RootDone
  <2>2. meta'.data = meta.data /\ meta'.btree = meta.btree /\ UNCHANGED <<base, disk, pending>>
    BY <1>3, <2>1 DEF SetRoot, MetaType
  <2> QED BY <2>2 DEF NewData, TreeIds, Nodes, DiskAfter
<1> QED BY <1>4, <1>5, <1>6, <1>7 DEF LoadStep

\* So the chains of the load stay.
LEMMA LoadStepChains ==
  ASSUME StoreFits, BuildInv, KindInv, pc = "index", LoadStep, keyPointers' = keyPointers, NewChains
  PROVE  NewChains'
<1>1. /\ NewData' = NewData /\ \A i \in NewData : Nodes'[i] = Nodes[i]
      /\ \A j \in TreeIds' : j \in TreeIds \/ \A i \in NewData : i < j
  BY LoadStepWrites
<1> PICK D, f, n, n2 : D = NewData /\ f = keyPointers /\ n = Nodes /\ n2 = Nodes'
  OBVIOUS
<1>2. ChainFits(D, f, n2)
  <2>1. ChainFits(D, f, n) /\ \A i \in D : n2[i] = n[i]
    BY <1>1 DEF NewChains
  <2> QED BY <2>1, ChainsStay
<1>3. ChainFits(NewData', keyPointers', Nodes')
  BY <1>1, <1>2
<1>4. \A i \in NewData', j \in TreeIds' : i < j
  BY <1>1 DEF NewChains
<1> QED BY <1>3, <1>4 DEF NewChains

\* A step of bulk_load goes on with the tree.
LEMMA IndexBuilds ==
  ASSUME StoreFits, ProcInv, Building, LoadStep, keyPointers' = keyPointers
  PROVE  Building'
<1>1. phase \in {"leaf", "internal"}
  BY DEF LoadStep, NewLeaf, LinkLeaf, FillLeaf, FillInternal, NewInternal, NextLevel, RootDone, LevelDone
<1>2. DOMAIN keyPointers # {}
  BY <1>1 DEF Building
<1> PICK f : f = keyPointers
  OBVIOUS
<1>3. PICK g : LoadFits(g, f)
  BY <1>2 DEF Building
<1>4. capacity \in Nat \ {0}
  BY DatabaseAssumption DEF ProcInv
<1>5. \E g2 : LoadFits(g2, f)'
  BY <1>3, <1>4, NewLeafHolds, LinkLeafHolds, FillLeafHolds, FillInternalHolds, NewInternalHolds,
     NextLevelHolds, RootDoneHolds DEF LoadStep
<1>6. \E g2 : LoadFits(g2, keyPointers)'
  BY <1>5 DEF LoadFits, Describes
<1> QED BY <1>2, <1>6 DEF Building

\* The keys of a table are keys.
LEMMA ChainKeys ==
  ASSUME TableInv, LoadInv, Loading, NEW key \in DOMAIN blocks
  PROVE  key \in 0..MaxKey
<1> PICK chain, block : chain = blocks[key] /\ block = chain[1]
  OBVIOUS
<1>1. chain # <<>> /\ chain \in Seq(Chunk(key)) /\ key \in Nat
  BY DEF TableInv, Unplaced
<1>2. 1 \in DOMAIN chain /\ block \in Chunk(key)
  <2> DEFINE C == Chunk(key)
  <2>1. chain \in Seq(C)
    BY <1>1
  <2> HIDE DEF C
  <2>2. 1 \in DOMAIN chain /\ block \in C
    BY <1>1, <2>1, SMT
  <2> QED BY <2>2 DEF C
<1>3. block.records # <<>> /\ block.records \in Seq(Rows)
      /\ \A r \in ToSet(block.records) : r.key = key
  BY <1>2 DEF Chunk
<1>4. PICK r : r \in ToSet(block.records)
  <2> PICK s : s = block.records
    OBVIOUS
  <2>1. 1 \in DOMAIN s
    BY <1>3, SMT
  <2> QED BY <2>1 DEF ToSet
<1>5. r \in InChains
  BY <1>2, <1>4 DEF InChains, InChain
<1>6. PICK input \in Inputs : ToSet(RowsOf(input, loads)) = ToSet(rows) \cup InChains \cup Held(NewData)
  BY DEF LoadInv
<1>7. PICK i \in DOMAIN input : r = RowsOf(input, loads)[i]
  BY <1>5, <1>6 DEF ToSet, RowsOf
<1>8. r.key = input[i]
  BY <1>7 DEF RowsOf
<1>9. input[i] \in 0..MaxKey \cup {BadRow}
  BY DatabaseAssumption
<1>10. BadRow \notin Nat
  BY SMT DEF BadRow
<1> QED BY <1>1, <1>3, <1>4, <1>8, <1>9, <1>10

\* Block q, the one before the chain of key k, joins the blocks D and their index f.
Grows(D, f, n, n2, q, k, f2) ==
  /\ q \in BlockIds \ {BlockNull} /\ \A i \in D : i < q /\ i # q /\ n2[i] = n[i]
  /\ k \in 0..MaxKey /\ IsData(n2[q]) /\ n2[q].records # <<>> /\ KeyAt(n2, q) = k
  /\ n2[q].next = IF k \in DOMAIN f THEN f[k] ELSE BlockNull
  /\ DOMAIN f2 = DOMAIN f \cup {k} /\ f2[k] = q /\ \A x \in DOMAIN f \ {k} : f2[x] = f[x]

\* A block in front of the chain of its key keeps the chains.
LEMMA ChainGrows ==
  ASSUME NEW D, NEW f, NEW n, ChainFits(D, f, n), NEW n2, NEW q, NEW k, NEW f2,
         Grows(D, f, n, n2, q, k, f2)
  PROVE  ChainFits(D \cup {q}, f2, n2)
<1>0. /\ q \in BlockIds \ {BlockNull} /\ \A i \in D : i < q /\ i # q /\ n2[i] = n[i]
      /\ k \in 0..MaxKey /\ IsData(n2[q]) /\ n2[q].records # <<>> /\ KeyAt(n2, q) = k
      /\ n2[q].next = IF k \in DOMAIN f THEN f[k] ELSE BlockNull
      /\ DOMAIN f2 = DOMAIN f \cup {k} /\ f2[k] = q /\ \A x \in DOMAIN f \ {k} : f2[x] = f[x]
  BY DEF Grows
<1> USE <1>0
<1>1. /\ D \subseteq BlockIds \ {BlockNull} /\ DOMAIN f \subseteq 0..MaxKey
      /\ \A x \in DOMAIN f : f[x] \in D /\ KeyAt(n, f[x]) = x
      /\ \A id \in D : Linked(D, f, n, id)
  BY DEF ChainFits
<1>2. \A id \in D : KeyAt(n2, id) = KeyAt(n, id)
  BY DEF KeyAt
<1>3. ASSUME NEW x \in DOMAIN f2 PROVE f2[x] \in D \cup {q} /\ KeyAt(n2, f2[x]) = x
  <2>1. CASE x = k
    BY <2>1
  <2>2. CASE x # k
    <3>1. x \in DOMAIN f /\ f2[x] = f[x]
      BY <2>2
    <3> QED BY <1>1, <1>2, <3>1
  <2> QED BY <2>1, <2>2
<1>4. Linked(D \cup {q}, f2, n2, q)
  <2>1. CASE k \in DOMAIN f
    <3>1. n2[q].next = f[k] /\ f[k] \in D /\ KeyAt(n2, f[k]) = k
      BY <1>1, <1>2, <2>1
    <3> QED BY <3>1 DEF Linked
  <2>2. CASE k \notin DOMAIN f
    BY <2>2 DEF Linked
  <2> QED BY <2>1, <2>2
<1>5. ASSUME NEW id \in D PROVE Linked(D \cup {q}, f2, n2, id)
  <2>1. Linked(D, f, n, id) /\ n2[id] = n[id] /\ KeyAt(n2, id) = KeyAt(n, id)
    BY <1>1, <1>2
  <2>2. IsData(n2[id]) /\ n2[id].records # <<>> /\ KeyAt(n2, id) \in DOMAIN f2
    BY <2>1 DEF Linked
  <2>3. n2[id].next # BlockNull =>
          /\ n2[id].next \in D \cup {q} /\ n2[id].next < id
          /\ KeyAt(n2, n2[id].next) = KeyAt(n2, id)
    BY <1>2, <2>1 DEF Linked
  <2>4. id = f2[KeyAt(n2, id)] \/ \E j \in D \cup {q} : n2[j].next = id
    <3>1. CASE \E j \in D : n[j].next = id
      BY <3>1
    <3>2. CASE id = f[KeyAt(n, id)] /\ KeyAt(n, id) # k
      BY <2>1, <3>2 DEF Linked
    <3>3. CASE id = f[KeyAt(n, id)] /\ KeyAt(n, id) = k
      BY <2>1, <3>3 DEF Linked
    <3> QED BY <2>1, <3>1, <3>2, <3>3 DEF Linked
  <2> QED BY <2>2, <2>3, <2>4 DEF Linked
<1>6. D \cup {q} \subseteq BlockIds \ {BlockNull} /\ DOMAIN f2 \subseteq 0..MaxKey
  BY <1>1
<1>7. \A id \in D \cup {q} : Linked(D \cup {q}, f2, n2, id)
  BY <1>4, <1>5
<1> QED BY <1>3, <1>6, <1>7 DEF ChainFits

\* Inserting a data block does that.
LEMMA InsertDataChains ==
  ASSUME DataInv, LoadInv, Loading, KeyInv, NewChains, TreeIds = {}, InsertData
  PROVE  NewChains' /\ TreeIds' = {} /\ meta'.root = meta.root /\ meta'.btree = meta.btree
         /\ ToSet(meta.data) \subseteq ToSet(meta'.data)
<1> PICK key, last, q, c :
      key = Min(DOMAIN blocks) /\ last = Last(blocks[key]) /\ q = NewId(meta) /\ c = Count(meta)
  OBVIOUS
<1> DEFINE block == [last EXCEPT !.next = NextOf(key)]
<1>1. IInv /\ TableInv /\ key \in DOMAIN blocks
  BY FirstKey DEF DataInv
<1>2. last \in Chunk(key) /\ key \in 0..MaxKey
  BY <1>1, UnplacedShrinks, ChainKeys DEF TableInv
<1>3. Insert(block) /\ keyPointers' = [k \in DOMAIN keyPointers \cup {key} |->
                                         IF k = key THEN q ELSE keyPointers[k]]
  BY DEF InsertData
<1>4. NextOf(key) \in BlockIds
  <2>1. BlockNull \in BlockIds
    BY BlocksAssumption, SMT DEF BlockIds
  <2> QED BY <2>1 DEF NextOf, LoadInv
<1>5. /\ IsData(block) /\ block.kind = "data" /\ block.records # <<>> /\ block.records[1].key = key
      /\ block.next = NextOf(key)
  <2>1. /\ block \in [kind : {"data"}, next : BlockIds, records : Seq(Rows)]
        /\ block.records = last.records /\ block.next = NextOf(key)
    BY <1>2, <1>4 DEF Chunk
  <2> HIDE DEF block
  <2>2. block # Garbage
    BY <2>1, DatabaseAssumption DEF Rows
  <2>3. last.records # <<>> /\ last.records \in Seq(Rows) /\ \A r \in ToSet(last.records) : r.key = key
    BY <1>2 DEF Chunk
  <2>4. last.records[1] \in ToSet(last.records)
    <3> PICK s : s = last.records
      OBVIOUS
    <3>1. 1 \in DOMAIN s
      BY <2>3, SMT
    <3> QED BY <3>1 DEF ToSet
  <2> QED BY <2>1, <2>2, <2>3, <2>4 DEF IsData
<1> PICK b : b = block
  OBVIOUS
<1>6. Insert(b) /\ IsData(b) /\ b.kind = "data" /\ b.records # <<>> /\ b.records[1].key = key
      /\ b.next = NextOf(key)
  BY <1>3, <1>5
<1> HIDE DEF block
<1>7. q = c /\ q \in BlockIds \ {BlockNull} /\ (\A id \in IdsOf(meta) : id < q /\ id # q)
      /\ meta' = Register(meta, "data") /\ base' = base /\ base <= q
  <2>1. q = c /\ q \in BlockIds \ {BlockNull} /\ meta' = Register(meta, "data") /\ base' = base
    BY <1>1, <1>6, InsertKeeps DEF Insert
  <2>2. \A id \in IdsOf(meta) : id < c
    BY <1>1, InvFacts
  <2>3. \A id \in IdsOf(meta) : id \in Nat
    BY <1>1, MetaIds, BlocksAssumption, SMT DEF BlockIds
  <2>4. \A id \in IdsOf(meta) : id # c
    BY <2>2, <2>3, SMT
  <2>5. base <= c
    BY <1>1, <1>6 DEF Insert, Ready, IInv, StoreInv, BaseBetweenCounts
  <2> QED BY <2>1, <2>2, <2>4, <2>5
<1>8. meta'.root = meta.root /\ meta'.btree = meta.btree
      /\ ToSet(meta'.data) = ToSet(meta.data) \cup {q}
  <2> PICK s : s = meta.data
    OBVIOUS
  <2>1. meta \in MetaType /\ s \in Seq(BlockIds)
    BY <1>1, InvFacts DEF MetaType
  <2>2. meta'.root = meta.root /\ meta'.btree = meta.btree /\ meta'.data = Append(s, q)
    BY <1>7, <2>1 DEF Register, MetaType
  <2>3. ToSet(Append(s, q)) = ToSet(s) \cup {q}
    BY <1>7, <2>1, AppendLemma
  <2> QED BY <2>2, <2>3
<1>9. NewData' = NewData \cup {q} /\ TreeIds' = TreeIds /\ NewData \subseteq IdsOf(meta)
  BY <1>7, <1>8 DEF NewData, TreeIds, IdsOf
<1>10. \A id \in BlockIds : Nodes'[id] = IF id = q THEN b ELSE Nodes[id]
  <2>1. Apply(pending) /\ pending' = BlockWrite(q, b)
    BY <1>6 DEF Insert
  <2>2. \A id \in BlockIds : Content(id)' = IF id = q THEN b ELSE Content(id)
    BY <1>1, <1>7, <2>1, ContentWritten
  <2> QED BY <2>2 DEF Content, Nodes
<1> PICK D, f, n, n2, f2 :
      D = NewData /\ f = keyPointers /\ n = Nodes /\ n2 = Nodes' /\ f2 = keyPointers'
  OBVIOUS
<1>11. ChainFits(D \cup {q}, f2, n2)
  <2>1. ChainFits(D, f, n) /\ \A i \in D : i < q /\ i # q /\ i \in BlockIds
    BY <1>1, <1>7, <1>9, MetaIds DEF NewChains
  <2>2. n2[q] = b /\ \A i \in D : n2[i] = n[i]
    BY <1>7, <1>10, <2>1
  <2>3. /\ DOMAIN f2 = DOMAIN f \cup {key} /\ f2[key] = q
        /\ \A x \in DOMAIN f \ {key} : f2[x] = f[x]
    BY <1>3
  <2>4. b.next = IF key \in DOMAIN f THEN f[key] ELSE BlockNull
    BY <1>6 DEF NextOf
  <2>5. IsData(n2[q]) /\ n2[q].records # <<>> /\ KeyAt(n2, q) = key
        /\ n2[q].next = IF key \in DOMAIN f THEN f[key] ELSE BlockNull
    BY <1>6, <2>2, <2>4 DEF KeyAt
  <2>6. Grows(D, f, n, n2, q, key, f2)
    BY <1>2, <1>7, <2>1, <2>2, <2>3, <2>5 DEF Grows
  <2> QED BY <2>1, <2>6, ChainGrows
<1>12. ChainFits(NewData', keyPointers', Nodes')
  BY <1>9, <1>11
<1>13. \A i \in NewData', j \in TreeIds' : i < j
  BY <1>9
<1> QED BY <1>8, <1>9, <1>12, <1>13 DEF NewChains
-----------------------------------------------------------------------------
(* The tree of a load is kept by every step.                               *)

LEMMA TreeInvIs == TreeInv <=> Served(FileMeta) /\ LocalTree
  BY DEF TreeInv, LocalTree

\* A process that has just opened the file has no node.
LEMMA NothingOwned == IInv /\ base = Count(meta) => TreeIds = {}
<1> SUFFICES ASSUME IInv, base = Count(meta) PROVE TreeIds = {}
  OBVIOUS
<1>1. \A id \in IdsOf(meta) : id \in Nat
  BY MetaIds, BlocksAssumption, SMT DEF BlockIds
<1>2. \A id \in IdsOf(meta) : id < Count(meta)
  BY DEF IInv, StoreInv, IdsBelowCount
<1>3. Count(meta) \in Nat
  BY InvFacts
<1>4. \A id \in IdsOf(meta) : ~(base <= id)
  BY <1>1, <1>2, <1>3, SMT
<1> QED BY <1>4 DEF TreeIds, IdsOf

\* A process that opens the file has no tree of its own.
LEMMA OpenTree ==
  ASSUME DataInv, DataInv', ScanInv, LocalTree, OpenToLoad \/ OpenToQuery
  PROVE  LocalTree'
<1>1. Open /\ pc = "closed" /\ pc' \in {"load", "query"} /\ propagate' = propagate
  BY DEF OpenToLoad, OpenToQuery, treeVars
<1>2. SameIndex'
  BY <1>1, OpenIsSame DEF DataInv
<1>3. TreeIds' = {}
  <2>1. IInv' /\ base' = Count(meta')
    BY <1>1 DEF Open, DataInv
  <2>2. (IInv /\ base = Count(meta) => TreeIds = {})'
    BY NothingOwned, PTL
  <2> QED BY <2>1, <2>2
<1>4. propagate' = <<>>
  BY <1>1 DEF LocalTree
<1> QED BY <1>1, <1>2, <1>3, <1>4 DEF LocalTree, Loading

\* Nor has one that is gone.
LEMMA EndTree ==
  ASSUME AtEnd
  PROVE  LocalTree'
<1>1. Gone /\ Forget
  BY DEF AtEnd, ReadRowThrows, PrintRootThrows, LookupFails, ReadDataFails, Exit, Dies, Ends, Close, Crash
<1>2. pc' = "closed" /\ open' = FALSE /\ propagate' = <<>>
  BY <1>1 DEF Gone, TreeReset, Forget
<1> QED BY <1>2 DEF LocalTree, Loading

\* A process that has no key has no chain.
LEMMA NoChains ==
  ASSUME NewData = {}, DOMAIN keyPointers = {}
  PROVE  NewChains
  BY DEF NewChains, ChainFits

\* Where the store stays, the trees do.
LEMMA SameTree ==
  ASSUME UNCHANGED storeVars
  PROVE  SameIndex' = SameIndex /\ TreeIds' = TreeIds /\ Nodes' = Nodes /\ NewData' = NewData
         /\ open' = open /\ meta' = meta
<1>1. UNCHANGED <<header, disk, pending, open, meta, base>>
  BY DEF storeVars
<1> QED BY <1>1 DEF SameIndex, Rooted, FileMeta, TreeIds, Nodes, DiskAfter, NewData

\* Steps in memory move nothing of them.
LEMMA MemoryTree ==
  ASSUME DataInv, LoadInv, TypeInv, LocalTree, InMemory
  PROVE  LocalTree'
<1>1. UNCHANGED storeVars /\ propagate' = propagate
  BY DEF InMemory, StartLoad, ReadRow, TableRead, AskScan, LookupReturns, SkipSeen, Answer,
         treeVars, loadVars
<1>2. /\ pc \in {"load", "rows", "query", "lookup", "scan"} /\ pc' \in {"rows", "data", "scan", "done"}
      /\ pc' \in {"rows", "data"} => pc \in {"load", "rows"} /\ keyPointers' = keyPointers
  BY DEF InMemory, StartLoad, ReadRow, TableRead, AskScan, LookupReturns, SkipSeen, Answer, inputVars
<1>3. SameIndex' = SameIndex /\ TreeIds' = TreeIds /\ Nodes' = Nodes /\ NewData' = NewData
      /\ open' = open
  BY <1>1, SameTree
<1>4. Loading' => NewChains'
  <2> SUFFICES ASSUME Loading' PROVE NewChains'
    OBVIOUS
  <2>1. pc \in {"load", "rows"} /\ keyPointers' = keyPointers
    BY <1>2 DEF Loading
  <2>2. NewData' = {} /\ DOMAIN keyPointers' = {}
    BY <1>3, <2>1 DEF LoadInv, TypeInv, KeyInv
  <2> QED BY <2>2 DEF NewChains, ChainFits
<1> QED BY <1>1, <1>2, <1>3, <1>4 DEF LocalTree

\* Reading a block changes nothing of a tree.
LEMMA ReadTree ==
  ASSUME DataInv, MetaFits, ~TornMeta, LocalTree, StoreStep, Reading
  PROVE  LocalTree'
<1>1. Fetch /\ propagate' = propagate
  BY DEF Reading, PrintRoot, LookupStep, CallStep, Descend, ReachLeaf, NextLeafOfRange, ReadNode,
         SkipBlock, TakeBlock, ReadData, loadVars
<1>2. pc \in {"stats", "lookup", "scan"} /\ pc' \in {"lookup", "scan", "done"}
  BY DEF Reading, PrintRoot, LookupStep, SkipBlock, TakeBlock, ReadData
<1>3. meta' = meta /\ open /\ pending.to # "meta"
  BY <1>1 DEF Fetch, Ready
<1>4. SameIndex'
  BY <1>2, <1>3, SameIndexKept DEF LocalTree, DataInv
<1> QED BY <1>1, <1>2, <1>4 DEF LocalTree, Loading

\* Asking for a range moves nothing of them either.
LEMMA AskTree ==
  ASSUME LocalTree, AskIndex
  PROVE  LocalTree'
<1>1. UNCHANGED storeVars /\ propagate' = propagate /\ pc = "query" /\ pc' = "lookup"
  BY DEF AskIndex, StartCall, loadVars
<1> QED BY <1>1, SameTree DEF LocalTree, Loading

\* A step that changes nothing.
LEMMA StillTree ==
  ASSUME LocalTree, UNCHANGED vars
  PROVE  LocalTree'
<1>1. UNCHANGED storeVars /\ UNCHANGED <<capacity, phase, work, propagate, node, nodeId, nextLeaf, levels>>
      /\ UNCHANGED <<pc, keyPointers>>
  BY DEF vars, treeVars, inputVars
<1>2. SameIndex' = SameIndex /\ TreeIds' = TreeIds /\ Nodes' = Nodes /\ NewData' = NewData
      /\ open' = open /\ meta' = meta
  BY <1>1, SameTree
<1>3. NewChains' = NewChains
  BY <1>1, <1>2 DEF NewChains
<1>4. Built' = Built
  BY <1>1, <1>2 DEF Built
<1>5. Building' = Building
  <2>1. \A g : LoadFits(g, keyPointers)' = LoadFits(g, keyPointers)
    BY <1>1, <1>2 DEF LoadFits, Describes, LeafStage, InnerStage, Stands, Idle
  <2> QED BY <1>1, <1>2, <2>1 DEF Building
<1> QED BY <1>1, <1>2, <1>3, <1>4, <1>5 DEF LocalTree, Loading

\* Data blocks join the chains before there is a tree.
LEMMA InsertTree ==
  ASSUME DataInv, LoadInv, TypeInv, MetaFits, ~TornMeta, LocalTree, StoreStep, InsertData
  PROVE  LocalTree'
<1>1. pc = "data" /\ pc' = "data" /\ propagate' = propagate /\ pending.to # "meta" /\ open
  BY DEF InsertData, treeVars, Insert, Ready
<1>2. Loading /\ NewChains /\ TreeIds = {} /\ SameIndex /\ KeyInv
  BY <1>1 DEF LocalTree, Loading, TypeInv
<1>3. NewChains' /\ TreeIds' = {} /\ meta'.root = meta.root /\ meta'.btree = meta.btree
      /\ ToSet(meta.data) \subseteq ToSet(meta'.data)
  BY <1>2, InsertDataChains
<1>4. SameIndex'
  BY <1>1, <1>2, <1>3, SameIndexKept DEF DataInv
<1> QED BY <1>1, <1>3, <1>4 DEF LocalTree

\* A process that is not about to flush leaves the store to the tree.
LEMMA ProcFits ==
  ASSUME DataInv, TypeInv, pc \notin {"closed", "flush"}
  PROVE  StoreFits /\ open /\ pending.to # "meta" /\ capacity = Capacity
<1>1. IInv /\ open /\ pending.to # "meta" /\ capacity = Capacity
  BY DEF DataInv, TypeInv, ProcInv
<1>2. open = TRUE
  BY <1>1 DEF IInv, StoreTypeOK
<1> QED BY <1>1, <1>2 DEF StoreFits

\* bulk_load starts with the first blocks of the keys.
LEMMA StartTree ==
  ASSUME DataInv, TypeInv, LocalTree, StartIndex
  PROVE  LocalTree'
<1>1. /\ pc = "data" /\ pc' = "index" /\ BulkLoad(keyPointers) /\ keyPointers' = keyPointers
      /\ UNCHANGED storeVars /\ propagate' = propagate
      /\ phase' = IF DOMAIN keyPointers = {} THEN "loaded" ELSE "leaf"
  BY DEF StartIndex, BulkLoad, inputVars
<1>2. StoreFits /\ open
  BY <1>1, ProcFits
<1>3. SameIndex /\ TreeIds = {} /\ NewChains /\ propagate = <<>>
  BY <1>1, <1>2 DEF LocalTree, Loading
<1>4. SameIndex' /\ TreeIds' = {} /\ Nodes' = Nodes /\ NewData' = NewData
  BY <1>1, <1>3, SameTree
<1>5. NewChains'
  BY <1>1, <1>3, <1>4 DEF NewChains
<1>6. Building'
  <2>1. CASE DOMAIN keyPointers = {}
    BY <1>1, <1>4, <2>1 DEF Building
  <2>2. CASE DOMAIN keyPointers # {}
    <3> PICK f : f = keyPointers
      OBVIOUS
    <3>1. MapFits(f)
      <4>1. ChainFits(NewData, f, Nodes)
        BY <1>3 DEF NewChains
      <4> QED BY <4>1 DEF ChainFits, MapFits
    <3>2. node = NoNode /\ nodeId = BlockNull /\ nextLeaf = NoId
      BY <1>1 DEF DataInv, BuildInv
    <3>3. \E g : LoadFits(g, f)'
      BY <1>1, <1>2, <1>3, <2>2, <3>1, <3>2, LoadBegins
    <3>4. \E g : LoadFits(g, keyPointers)'
      BY <1>1, <3>3 DEF LoadFits, Describes
    <3> QED BY <1>1, <2>2, <3>4 DEF Building
  <2> QED BY <2>1, <2>2
<1> QED BY <1>1, <1>3, <1>5, <1>6 DEF LocalTree

\* bulk_load goes on with its tree.
LEMMA BuildTree ==
  ASSUME DataInv, KindInv, TypeInv, LocalTree, IndexStep
  PROVE  LocalTree'
<1>1. pc = "index" /\ pc' = "index" /\ LoadStep /\ keyPointers' = keyPointers
  BY DEF IndexStep, inputVars
<1>2. StoreFits /\ ProcInv /\ BuildInv
  BY <1>1, ProcFits DEF DataInv, TypeInv
<1>3. Building /\ NewChains
  BY <1>1 DEF LocalTree, Loading
<1>4. Building'
  BY <1>1, <1>2, <1>3, IndexBuilds
<1>5. NewChains'
  BY <1>1, <1>2, <1>3, LoadStepChains
<1>6. phase' \notin {"leaf", "internal"} => propagate' = <<>>
  BY <1>1 DEF LoadStep, NewLeaf, LinkLeaf, FillLeaf, FillInternal, Fill, NewInternal, NextLevel, RootDone
<1> QED BY <1>1, <1>4, <1>5, <1>6 DEF LocalTree

\* The tree is complete when the metadata is written.
LEMMA PersistTree ==
  ASSUME DataInv, TypeInv, MetaFits, ~TornMeta, LocalTree, StoreStep, Persist
  PROVE  LocalTree'
<1>1. /\ pc = "index" /\ phase = "loaded" /\ PersistWrite /\ pc' = "flush"
      /\ keyPointers' = keyPointers /\ propagate' = propagate /\ meta' = meta /\ base' = base
  BY DEF Persist, PersistWrite, treeVars, inputVars
<1>2. IInv /\ pending.to # "meta" /\ capacity = Capacity
  BY <1>1, ProcFits DEF DataInv
<1>3. Building /\ NewChains /\ propagate = <<>>
  BY <1>1 DEF LocalTree, Loading
<1> PICK n, n2 : n = Nodes /\ n2 = Nodes'
  OBVIOUS
<1>4. NewData' = NewData /\ TreeIds' = TreeIds /\ NewData \subseteq IdsOf(meta)
  BY <1>1 DEF NewData, TreeIds, IdsOf
<1>5. \A id \in IdsOf(meta) : n2[id] = n[id]
  <2>1. \A id \in BlockIds : Content(id)' = Content(id)
    BY <1>1, <1>2, ContentStays
  <2>2. \A id \in BlockIds : Nodes'[id] = Nodes[id]
    BY <2>1 DEF Content, Nodes
  <2> QED BY <1>2, <2>2, MetaIds
<1>6. NewChains'
  <2>1. ChainFits(NewData, keyPointers, n)
    BY <1>3 DEF NewChains
  <2>2. ChainFits(NewData, keyPointers, n2)
    BY <1>4, <1>5, <2>1, ChainsStay
  <2> QED BY <1>1, <1>3, <1>4, <2>2 DEF NewChains
<1>7. Built'
  <2>1. CASE DOMAIN keyPointers = {}
    <3>1. SameIndex
      BY <1>3, <2>1 DEF Building
    <3>2. SameIndex'
      BY <1>1, <1>2, <3>1, SameIndexKept
    <3> QED BY <1>1, <2>1, <3>2 DEF Built
  <2>2. CASE DOMAIN keyPointers # {}
    <3>1. PICK g : LoadFits(g, keyPointers)
      BY <1>3, <2>2 DEF Building
    <3>2. Describes(g, keyPointers) /\ Stands(g, levels)
      BY <1>1, <3>1 DEF LoadFits
    <3>3. Serves(meta, g, levels, NewData, n)
      <4>1. TreeStands(g, Capacity, meta.root, levels)
        BY <1>2, <3>2 DEF Stands
      <4>2. g.ids = TreeIds /\ g.nodes = n /\ g.map = keyPointers
        BY <3>2 DEF Describes
      <4>3. g.ids \subseteq ToSet(meta.btree) /\ NewData \subseteq ToSet(meta.data)
        BY <4>2 DEF TreeIds, NewData
      <4>4. ChainFits(NewData, g.map, n) /\ \A i \in NewData, j \in g.ids : i < j
        BY <1>3, <4>2 DEF NewChains
      <4> QED BY <4>1, <4>2, <4>3, <4>4 DEF Serves
    <3>4. Serves(meta, g, levels, NewData, n2)
      BY <1>5, <3>3, ServesStays
    <3>5. Serves(meta', g, levels, NewData', Nodes')
      BY <1>1, <1>4, <3>4
    <3> QED BY <1>1, <2>2, <3>5 DEF Built
  <2> QED BY <2>1, <2>2
<1> QED BY <1>1, <1>3, <1>6, <1>7 DEF LocalTree

\* The flush of persist() makes it the file's.
LEMMA FlushTree ==
  ASSUME DataInv, LocalTree, Flush
  PROVE  LocalTree'
<1>1. /\ pc = "flush" /\ pc' = "stats" /\ PersistFlush /\ propagate' = propagate /\ meta' = meta
  BY DEF Flush, PersistFlush, treeVars
<1>2. FileMeta' = meta'
  <2>1. pending.to = "meta" /\ pending.words = Encode(meta) /\ header' = HeaderAfter(pending)
    BY <1>1 DEF PersistFlush, Apply, DataInv, IInv, StoreInv, PendingIsRecent
  <2>2. header' = Overlay(Encode(meta), header)
    BY <2>1 DEF HeaderAfter
  <2>3. IInv /\ header \in Seq(BlockIds)
    BY DEF DataInv, IInv, StoreTypeOK
  <2>4. FileMeta' = meta
    BY <2>2, <2>3, InvFacts, RoundTrip DEF FileMeta
  <2> QED BY <1>1, <2>4
<1>3. SameIndex'
  BY <1>2 DEF SameIndex
<1> QED BY <1>1, <1>3 DEF LocalTree, Loading

\* Every step keeps the trees.
LEMMA NextTree ==
  ASSUME DataInv, DataInv', ScanInv, KindInv, LoadInv, TypeInv, TreeInv, MetaFits, ~TornMeta, [Next]_vars
  PROVE  TreeInv'
<1>1. Served(FileMeta) /\ LocalTree
  BY TreeInvIs
<1>2. StoreStep /\ IInv
  BY NextBuilds DEF DataInv
<1>3. Served(FileMeta)'
  BY <1>1, <1>2, FileStaysServed, WrittenIsServed
<1>4. LocalTree'
  BY <1>1, <1>2, NextCases, OpenTree, EndTree, MemoryTree, ReadTree, AskTree, StillTree, InsertTree,
     StartTree, BuildTree, PersistTree, FlushTree
<1>5. (TreeInv <=> Served(FileMeta) /\ LocalTree)'
  BY TreeInvIs, PTL
<1> QED BY <1>3, <1>4, <1>5

\* A file that does not exist has none.
LEMMA InitTree == Init => TreeInv
<1> SUFFICES ASSUME Init PROVE TreeInv
  OBVIOUS
<1>1. header = <<>> /\ open = FALSE /\ pc = "closed" /\ propagate = <<>>
  BY DEF Init, StoreInit, TreeInit
<1>2. Served(FileMeta)
  BY <1>1, NothingIsRooted DEF Served, FileMeta
<1> QED BY <1>1, <1>2 DEF TreeInv, LocalTree, Loading


\* The tree of a load, and the file's, are kept while the metadata block is whole.
LEMMA TreeKeptBySteps ==
  ASSUME MetaFits, ~TornMeta
  PROVE  Spec => [](DataInv /\ ScanInv /\ KindInv /\ LoadInv /\ TypeInv /\ TreeInv)
<1>1. Init => LoadInv /\ TreeInv
  BY InitTree DEF Init, StoreInit, NoWrite, EmptyMap, LoadInv, Loading
<1>2. DataInv /\ DataInv' /\ ScanInv /\ KindInv /\ LoadInv /\ TypeInv /\ TreeInv /\ [Next]_vars
        => LoadInv' /\ TreeInv'
  BY NextLoad, NextTree
<1> QED BY ScanKept, KindKept, TypesKept, <1>1, <1>2, PTL DEF Spec
-----------------------------------------------------------------------------
(* Loading is all or nothing, the index included.                          *)

\* The records under a root are those of its data blocks.
LEMMA IndexedAll ==
  \A m, g, h, D : Serves(m, g, h, D, disk) =>
    m.root \in ToSet(m.btree) /\ RecordsUnder[m.root] = InBlocks(D)
  BY IndexedIs

\* What the index of the file leads to, now and after a step.
IndexIsItsBlocks ==
  \A g, h, D : Serves(FileMeta, g, h, D, disk) => Rooted(FileMeta) /\ Indexed = InBlocks(D)
LEMMA FileIndexIs == IndexIsItsBlocks
  BY IndexedAll DEF IndexIsItsBlocks, Indexed, Rooted

\* The same of the file after a step.
LEMMA NewFileIndexIs ==
  ASSUME NEW g, NEW h, NEW D, Serves(FileMeta', g, h, D, disk')
  PROVE  Rooted(FileMeta)' /\ Indexed' = InBlocks(D)'
<1>1. IndexIsItsBlocks'
  BY FileIndexIs, PTL
<1> QED BY <1>1 DEF IndexIsItsBlocks

\* The index of the file stays with its blocks.
LEMMA IndexedStays ==
  ASSUME IInv, Served(FileMeta), Rooted(FileMeta)' <=> Rooted(FileMeta),
         Rooted(FileMeta) =>
           /\ FileMeta'.root = FileMeta.root /\ FileMeta'.btree = FileMeta.btree
           /\ ToSet(FileMeta.data) \subseteq ToSet(FileMeta'.data),
         \A id \in IdsOf(FileMeta) : disk'[id] = disk[id]
  PROVE  Indexed' = Indexed
<1>1. CASE ~Rooted(FileMeta)
  BY <1>1 DEF Indexed, Rooted
<1>2. CASE Rooted(FileMeta)
  <2> PICK m, m2, n, n2 : m = FileMeta /\ m2 = FileMeta' /\ n = disk /\ n2 = disk'
    OBVIOUS
  <2>1. PICK g, h, D : Serves(FileMeta, g, h, D, disk)
    BY <1>2 DEF Served
  <2>2. Serves(m2, g, h, D, n2)
    BY <1>2, <2>1, ServesStays
  <2>3. Indexed' = InBlocks(D)' /\ Indexed = InBlocks(D)
    BY <2>1, <2>2, NewFileIndexIs, FileIndexIs DEF IndexIsItsBlocks
  <2>4. D \subseteq IdsOf(FileMeta)
    BY <2>1 DEF Serves, IdsOf
  <2>5. \A id \in D : OnDisk(id)' = OnDisk(id)
    BY <2>4 DEF OnDisk
  <2>6. InBlocks(D)' = InBlocks(D)
    BY <2>5 DEF InBlocks
  <2> QED BY <2>3, <2>6
<1> QED BY <1>1, <1>2

\* A table has a row when it has a key.
LEMMA TableHasRows ==
  ASSUME DataInv, NewChains, MetaFits, pending.to = "meta"
  PROVE  Held(NewData) = {} <=> DOMAIN keyPointers = {}
<1>1. ChainFits(NewData, keyPointers, Nodes)
  BY DEF NewChains
<1>2. ASSUME NEW id \in NewData
      PROVE  KeyAt(Nodes, id) \in DOMAIN keyPointers /\ Held(NewData) # {}
  <2>1. IsData(Nodes[id]) /\ Nodes[id].records # <<>> /\ KeyAt(Nodes, id) \in DOMAIN keyPointers
    BY <1>1 DEF ChainFits, Linked
  <2> PICK s : s = RecordsOf(Content(id))
    OBVIOUS
  <2>2. s = Nodes[id].records
    BY <2>1, ContentIsNode DEF RecordsOf
  <2>3. id \in BlockIds /\ Content(id) = disk[id]
    BY MetaMovesNothing, MetaIds, ContentIsNode DEF DataInv, NewData, IdsOf
  <2>4. s \in Seq(Rows)
    BY <2>3 DEF DataInv, FileInv, OneKey, OnDisk
  <2>5. 1 \in DOMAIN s
    BY <2>1, <2>2, <2>4, SMT
  <2>6. s[1] \in ToSet(s)
    BY <2>5 DEF ToSet
  <2>7. s[1] \in Held(NewData)
    BY <2>6 DEF Held
  <2> QED BY <2>1, <2>7
<1>3. ASSUME NEW k \in DOMAIN keyPointers PROVE NewData # {}
  BY <1>1 DEF ChainFits
<1>4. NewData = {} => Held(NewData) = {}
  BY DEF Held
<1> QED BY <1>2, <1>3, <1>4

\* With the metadata the index leads to the table of the load, and to that only;
\* a table without a row leaves the index as it was.
LEMMA NewIndexArrives ==
  ASSUME DataInv, LoadInv, TreeInv, MetaFits, pending.to = "meta", FileMeta' = meta,
         \A id \in BlockIds : disk'[id] = disk[id]
  PROVE  Indexed' = IF Held(NewData) = {} THEN Indexed ELSE Held(NewData)
<1>1. pc = "flush" /\ IInv /\ Built /\ NewChains /\ Served(FileMeta)
  BY DEF LoadInv, DataInv, TreeInv, LocalTree, Loading
<1>2. CASE DOMAIN keyPointers = {}
  <2>1. SameIndex /\ Held(NewData) = {}
    BY <1>1, <1>2, TableHasRows DEF Built
  <2>2. Rooted(FileMeta)' <=> Rooted(meta)
    BY DEF Rooted
  <2>3. Rooted(meta) <=> Rooted(FileMeta)
    BY <2>1 DEF SameIndex, Rooted
  <2>4. \A id \in IdsOf(FileMeta) : disk'[id] = disk[id]
    BY <1>1, MetaIds
  <2>5. Rooted(FileMeta) =>
           /\ FileMeta'.root = FileMeta.root /\ FileMeta'.btree = FileMeta.btree
           /\ ToSet(FileMeta.data) \subseteq ToSet(FileMeta'.data)
    BY <2>1 DEF SameIndex
  <2>6. Indexed' = Indexed
    BY <1>1, <2>2, <2>3, <2>4, <2>5, IndexedStays
  <2> QED BY <2>1, <2>6
<1>3. CASE DOMAIN keyPointers # {}
  <2>1. PICK g, h : Serves(meta, g, h, NewData, Nodes)
    BY <1>1, <1>3 DEF Built
  <2> PICK D, n2 : D = NewData /\ n2 = disk'
    OBVIOUS
  <2>2. \A id \in IdsOf(meta) : id \in BlockIds /\ n2[id] = Nodes[id]
    BY <1>1, MetaMovesNothing, MetaIds
  <2>3. Serves(meta, g, h, D, n2)
    BY <2>1, <2>2, ServesStays
  <2>4. Indexed' = InBlocks(D)'
    BY <2>3, NewFileIndexIs
  <2>5. \A id \in D : OnDisk(id)' = RecordsOf(Content(id))
    <3>1. D \subseteq IdsOf(meta)
      BY DEF NewData, IdsOf
    <3> QED BY <2>2, <3>1, ContentIsNode DEF OnDisk
  <2>6. InBlocks(D)' = Held(D)
    BY <2>5 DEF InBlocks, Held
  <2>7. Held(NewData) # {}
    BY <1>1, <1>3, TableHasRows
  <2> QED BY <2>4, <2>6, <2>7
<1> QED BY <1>2, <1>3

\* A step of a process is a step of the abstract database, or none.
LEMMA StepIsAtomic ==
  ASSUME DataInv, LoadInv, TreeInv, MetaFits, ~TornMeta, [Next]_vars
  PROVE  [Atomic!Next]_<<Stored, Indexed>>
<1>1. StoreStep /\ IInv
  BY NextBuilds DEF DataInv
<1>2. CASE /\ FileMeta' = FileMeta
           /\ \A id \in IdsOf(FileMeta) : disk'[id] = disk[id]
  <2>1. Stored' = Stored
    <3>1. \A id \in ToSet(FileMeta.data) : RecordsIn(id)' = RecordsIn(id)
      BY <1>2 DEF RecordsIn, IdsOf
    <3> QED BY <1>2, <3>1 DEF Stored
  <2>2. Indexed' = Indexed
    <3>1. Rooted(FileMeta)' <=> Rooted(FileMeta)
      BY <1>2 DEF Rooted
    <3> QED BY <1>1, <1>2, <3>1, IndexedStays DEF TreeInv, LocalTree
  <2> QED BY <2>1, <2>2
<1>3. CASE /\ pending.to = "meta" /\ FileMeta' = meta
           /\ \A id \in BlockIds : disk'[id] = disk[id]
  <2> PICK table : table = Held(NewData)
    OBVIOUS
  <2>1. table \in Tables /\ table \cap Stored = {} /\ Held(ToSet(meta.data)) = Stored \cup table
    BY <1>3, TableArrives
  <2>2. Stored' = Held(ToSet(meta.data))
    <3>1. ToSet(meta.data) \subseteq BlockIds
      BY <1>1, InvFacts, IdsAreBlockIds DEF IdsOf
    <3>2. \A id \in ToSet(meta.data) : disk'[id] = Content(id)
      BY <1>1, <1>3, <3>1, MetaMovesNothing, ContentIsNode
    <3>3. \A id \in ToSet(meta.data) : RecordsIn(id)' = ToSet(RecordsOf(Content(id)))
      BY <3>2, NothingOnce DEF RecordsIn, RecordsOf, IsData
    <3>4. Stored' = UNION {RecordsIn(id)' : id \in ToSet(meta.data)}
      BY <1>3 DEF Stored
    <3> QED BY <3>3, <3>4 DEF Held
  <2>3. Indexed' = IF table = {} THEN Indexed ELSE table
    BY <1>3, NewIndexArrives
  <2>4. Atomic!LoadTable(table)
    BY <2>1, <2>2, <2>3 DEF Atomic!LoadTable
  <2> QED BY <2>1, <2>4 DEF Atomic!Next
<1> QED BY <1>1, <1>2, <1>3, FileIndexStep

\* It begins empty.
LEMMA InitIsAtomic == Init => Atomic!Init
<1> SUFFICES ASSUME Init PROVE Atomic!Init
  OBVIOUS
<1>1. header = <<>>
  BY DEF Init, StoreInit
<1>2. ~Rooted(FileMeta)
  BY <1>1, NothingIsRooted DEF FileMeta
<1>3. Indexed = {}
  BY <1>2 DEF Indexed, Rooted
<1>4. FileMeta.data = <<>>
  BY <1>1 DEF FileMeta, Decode, Word
<1>5. Stored = {}
  BY <1>4, NothingOnce DEF Stored
<1> QED BY <1>3, <1>5 DEF Atomic!Init

\* While the metadata block is written whole and holds the metadata, the program
\* implements AtomicDatabase: whatever process dies in whatever step of load, of
\* BTree::bulk_load or of persist(), the data blocks and the index of the file are
\* those before the load, or hold the whole table.
THEOREM LoadsStayAtomic ==
  ASSUME MetaFits, ~TornMeta PROVE Spec => LoadsAreAtomic
<1>1. DataInv /\ LoadInv /\ TreeInv /\ [Next]_vars => [Atomic!Next]_<<Stored, Indexed>>
  BY StepIsAtomic
<1> QED BY TreeKeptBySteps, InitIsAtomic, <1>1, PTL DEF Spec, LoadsAreAtomic, Atomic!Spec
-----------------------------------------------------------------------------
(* A query of a range in the tree of the file.                             *)

\* Blocks of a table with keys of a set.
KeyBlocks(D, K) == {id \in D : KeyAt(disk, id) \in K}

\* The data blocks that a query has taken or is going to.
Reached == seen \cup ToSet(scanIds)

\* Whatever the index finds, it is the first blocks of all the keys of the range
\* or nothing; the query goes from them along the chains.
FoundKeys(f, K) ==
  /\ K \subseteq DOMAIN f /\ (K = {} \/ K = AllTo(f, call.begin, call.end))
  /\ call.begin \in DOMAIN f \/ (\A k \in DOMAIN f : call.begin < k)
       => K = AllTo(f, call.begin, call.end)
Scanning(f, D, K) ==
  /\ FoundKeys(f, K)
  /\ Reached \subseteq KeyBlocks(D, K)
  /\ \A k \in K : f[k] \in Reached
  /\ \A id \in seen : disk[id].next # BlockNull => disk[id].next \in Reached
Querying(g, h, D) ==
  IF pc = "lookup" THEN Calling /\ CallFits(g, h) ELSE \E K : Scanning(g.map, D, K)

\* Without a tree there is nothing to find, and a root that is no node fails.
NoTree ==
  IF pc = "lookup"
  THEN \/ phase = "lookup" /\ cursor = meta.root
       \/ phase = "returned" /\ found = <<>>
  ELSE scanIds = <<>> /\ records = <<>> /\ seen = {}
RangeInv ==
  /\ pc = "lookup" => call.op = "range"
  /\ call.op = "range" =>
       /\ pc \in {"lookup", "scan", "done"} /\ <<call.begin, call.end>> \in Ranges
       /\ pc = "done" => scanIds = <<>>
       /\ Rooted(FileMeta) => \E g, h, D : Serves(FileMeta, g, h, D, disk) /\ Querying(g, h, D)
       /\ ~Rooted(FileMeta) => NoTree

\* The ends of a range are keys.
LEMMA RangeFacts ==
  ASSUME <<call.begin, call.end>> \in Ranges
  PROVE  call.begin \in 0..MaxKey /\ call.end \in 0..MaxKey - 1 /\ call.begin \in Int /\ call.end \in Int
<1> PICK b, e : b = call.begin /\ e = call.end
  OBVIOUS
<1>1. <<b, e>> \in (0..MaxKey) \X (0..MaxKey - 1)
  BY DatabaseAssumption
<1> QED BY <1>1, BlocksAssumption, SMT

\* The process of a query goes by the file's tree, in a file that stands still.
LEMMA QueryStands ==
  ASSUME DataInv, TypeInv, TreeInv, pc \in {"query", "lookup", "scan", "done"}, call.op = "range" \/ pc # "done"
  PROVE  /\ StoreFits /\ pending = NoWrite /\ Nodes = disk /\ capacity = Capacity /\ IInv
         /\ Rooted(meta) <=> Rooted(FileMeta)
         /\ Rooted(FileMeta) => meta.root = FileMeta.root
<1>1. StoreFits /\ open /\ capacity = Capacity /\ IInv
  BY ProcFits DEF DataInv
<1>2. pending = NoWrite
  BY DEF DataInv, QueryInv
<1>3. Nodes = disk
  BY <1>2 DEF Nodes, DiskAfter, NoWrite
<1>4. SameIndex
  BY <1>1 DEF TreeInv, LocalTree
<1> QED BY <1>1, <1>2, <1>3, <1>4 DEF SameIndex, Rooted

\* So no step of a query moves it.
LEMMA FileStands ==
  ASSUME DataInv, TypeInv, TreeInv, pc \in {"query", "lookup", "scan", "done"},
         call.op = "range" \/ pc # "done", Fetch \/ UNCHANGED storeVars
  PROVE  disk' = disk /\ meta' = meta /\ FileMeta' = FileMeta /\ (Rooted(FileMeta)' <=> Rooted(FileMeta))
<1>1. pending = NoWrite
  BY QueryStands
<1>2. disk' = disk /\ meta' = meta /\ header' = header
  BY <1>1 DEF Fetch, Apply, HeaderAfter, DiskAfter, NoWrite, storeVars
<1> QED BY <1>2 DEF FileMeta, Rooted

\* The tree of the file is the one that lookup and range go through.
LEMMA TreeOfFile ==
  ASSUME DataInv, TypeInv, TreeInv, pc \in {"query", "lookup", "scan", "done"}, call.op = "range" \/ pc # "done",
         NEW g, NEW h, NEW D, Serves(FileMeta, g, h, D, disk)
  PROVE  Stands(g, h) /\ Shows(g)
<1>1. Rooted(FileMeta)
  BY FileIndexIs DEF IndexIsItsBlocks
<1>2. Nodes = disk /\ capacity = Capacity /\ meta.root = FileMeta.root
  BY <1>1, QueryStands
<1>3. TreeStands(g, Capacity, FileMeta.root, h) /\ \A id \in g.ids : disk[id] = g.nodes[id]
  BY DEF Serves
<1> QED BY <1>2, <1>3 DEF Stands, Shows

\* A range is asked for at the root.
LEMMA AskRange ==
  ASSUME DataInv, TypeInv, TreeInv, AskIndex
  PROVE  RangeInv'
<1>1. PICK range \in Ranges : StartCall("range", range[1], range[2])
  BY DEF AskIndex
<1>2. /\ pc = "query" /\ pc' = "lookup" /\ UNCHANGED storeVars
      /\ call' = [op |-> "range", begin |-> range[1], end |-> range[2]] /\ cursor' = meta.root
      /\ found' = <<>> /\ reads' = NoReads
      /\ phase' = IF meta.root = BlockNull THEN "returned" ELSE "lookup"
  BY <1>1 DEF AskIndex, StartCall
<1>3. range = <<range[1], range[2]>>
  BY DatabaseAssumption
<1>4. <<call'.begin, call'.end>> \in Ranges /\ call'.op = "range"
  BY <1>2, <1>3
<1>5. disk' = disk /\ meta' = meta /\ FileMeta' = FileMeta /\ (Rooted(FileMeta)' <=> Rooted(FileMeta))
  BY <1>2, FileStands
<1>6. ASSUME ~Rooted(FileMeta) PROVE NoTree'
  BY <1>2, <1>5 DEF NoTree
<1>7. ASSUME Rooted(FileMeta)
      PROVE  \E g, h, D : Serves(FileMeta', g, h, D, disk') /\ Querying(g, h, D)'
  <2>1. PICK g, h, D : Serves(FileMeta, g, h, D, disk)
    BY <1>7 DEF TreeInv, LocalTree, Served
  <2>2. Stands(g, h) /\ meta.root = FileMeta.root
    BY <1>2, <1>7, <2>1, TreeOfFile, QueryStands
  <2>3. RootFits(g, meta.root, h) /\ TreeShape(g)
    BY <2>2, StandsFacts
  <2> PICK root : root = meta.root
    OBVIOUS
  <2>4. /\ root \in g.ids /\ g.hi[root] = MaxKey + 1 /\ g.ht[root] = h
        /\ \A k \in DOMAIN g.map : g.lo[root] <= k
    BY <2>3 DEF RootFits
  <2>5. root # BlockNull /\ g.ht[root] \in Int /\ h \in Int
    BY <2>3, <2>4, ShapeFacts
  <2>6. phase' = "lookup" /\ cursor' = root
    BY <1>2, <2>5
  <2>7. Asks'
    <3>1. range[1] \in 0..MaxKey /\ range[2] \in 0..MaxKey - 1
      BY DatabaseAssumption
    <3>2. range[1] \in Int /\ range[2] \in Int /\ range[1] <= MaxKey /\ range[1] < MaxKey + 1
      BY <3>1, BlocksAssumption, SMT
    <3> QED BY <1>2, <3>2 DEF Asks
  <2>8. Reaches(g, root, range[1])
    <3>1. range[1] \in 0..MaxKey
      BY DatabaseAssumption
    <3>2. range[1] < MaxKey + 1
      BY <3>1, BlocksAssumption, SMT
    <3> QED BY <2>4, <3>2 DEF Reaches
  <2>9. Reaches(g, cursor', call'.begin)
    BY <1>2, <2>6, <2>8
  <2>10. HasRead(h - g.ht[cursor])'
    <3>1. h - g.ht[root] = 0
      BY <2>4, <2>5, SMT
    <3> QED BY <1>2, <2>6, <3>1 DEF HasRead, NoReads
  <2>11. CallFits(g, h)' /\ Calling'
    BY <1>2, <2>6, <2>7, <2>9, <2>10 DEF CallFits, Calling
  <2>12. Querying(g, h, D)'
    BY <1>2, <2>11 DEF Querying
  <2> QED BY <1>5, <2>1, <2>12
<1> QED BY <1>2, <1>4, <1>5, <1>6, <1>7 DEF RangeInv

\* A node that is read is listed.
LEMMA NodeIsListed ==
  ASSUME IInv, NEW id, Readable(id, "btree")
  PROVE  id \in ToSet(meta.btree)
<1>1. meta.btree \in Seq(Int)
  <2> PICK s : s = meta.btree
    OBVIOUS
  <2>1. s \in Seq(BlockIds)
    BY InvFacts DEF MetaType
  <2>2. BlockIds \subseteq Int
    BY BlocksAssumption, SMT DEF BlockIds
  <2> QED BY <2>1, <2>2, SeqMonotonic, Zenon
<1>2. BinarySearch(meta.btree, id)
  BY DEF Readable, KindOf
<1> QED BY <1>1, <1>2, BinarySearchIsRight

\* The pointers gathered are those of their keys.
LEMMA GatheredSet ==
  ASSUME NEW f, NEW s, NEW K, Gathers(f, s, K)
  PROVE  ToSet(s) = {f[k] : k \in K}
<1>1. PICK ks : Tracks(f, s, ks, K)
  BY DEF Gathers
<1>2. /\ ToSet(ks) = K /\ Len(s) = Len(ks) /\ DOMAIN s = 1..Len(s) /\ DOMAIN ks = 1..Len(ks)
      /\ \A j \in 1..Len(ks) : s[j] = f[ks[j]]
  BY <1>1 DEF Tracks
<1> QED BY <1>2 DEF ToSet

\* A node more on the way.
LEMMA LookupRange ==
  ASSUME DataInv, TypeInv, TreeInv, RangeInv, LookupStep
  PROVE  RangeInv'
<1>1. /\ pc = "lookup" /\ pc' = "lookup" /\ CallStep /\ Fetch /\ call' = call
      /\ phase \in {"lookup", "range"} /\ Readable(cursor, "btree")
  BY DEF LookupStep, CallStep, Descend, ReachLeaf, NextLeafOfRange, ReadNode
<1>2. call.op = "range" /\ <<call.begin, call.end>> \in Ranges
  BY <1>1 DEF RangeInv
<1>3. disk' = disk /\ meta' = meta /\ FileMeta' = FileMeta /\ (Rooted(FileMeta)' <=> Rooted(FileMeta))
  BY <1>1, FileStands
<1>4. CASE Rooted(FileMeta)
  <2>1. PICK g, h, D : Serves(FileMeta, g, h, D, disk) /\ Querying(g, h, D)
    BY <1>2, <1>4 DEF RangeInv
  <2>2. Stands(g, h) /\ Shows(g) /\ StoreFits
    BY <1>1, <2>1, TreeOfFile, QueryStands
  <2>3. CallFits(g, h)
    BY <1>1, <2>1 DEF Querying
  <2>4. CallFits(g, h)' /\ Calling'
    <3>1. CASE Descend
      BY <2>2, <2>3, <3>1, DescendHolds DEF Calling
    <3>2. CASE ReachLeaf
      BY <2>2, <2>3, <3>2, ReachLeafHolds DEF Calling
    <3>3. CASE NextLeafOfRange
      BY <2>2, <2>3, <3>3, NextLeafHolds DEF Calling
    <3> QED BY <1>1, <3>1, <3>2, <3>3 DEF CallStep
  <2>5. Querying(g, h, D)'
    BY <1>1, <2>4 DEF Querying
  <2>6. \E gg, hh, DD : Serves(FileMeta', gg, hh, DD, disk') /\ Querying(gg, hh, DD)'
    BY <1>3, <2>1, <2>5
  <2> QED BY <1>1, <1>2, <1>3, <1>4, <2>6 DEF RangeInv
<1>5. CASE ~Rooted(FileMeta)
  <2>1. cursor = meta.root /\ ~Rooted(meta)
    BY <1>1, <1>2, <1>5, QueryStands DEF RangeInv, NoTree
  <2>2. cursor \in ToSet(meta.btree)
    BY <1>1, NodeIsListed DEF DataInv
  <2> QED BY <2>1, <2>2 DEF Rooted
<1> QED BY <1>4, <1>5

\* The call returns the first blocks of the keys, or nothing.
LEMMA ReturnRange ==
  ASSUME DataInv, TypeInv, TreeInv, RangeInv, LookupReturns
  PROVE  RangeInv'
<1>1. /\ pc = "lookup" /\ pc' = "scan" /\ phase = "returned" /\ scanIds' = found
      /\ UNCHANGED storeVars /\ call' = call /\ UNCHANGED <<seen, records>>
  BY DEF LookupReturns, treeVars
<1>2. call.op = "range" /\ <<call.begin, call.end>> \in Ranges
  BY <1>1 DEF RangeInv
<1>3. disk' = disk /\ meta' = meta /\ FileMeta' = FileMeta /\ (Rooted(FileMeta)' <=> Rooted(FileMeta))
  BY <1>1, FileStands
<1>4. seen' = {} /\ records' = <<>>
  BY <1>1 DEF DataInv, QueryInv
<1>5. CASE Rooted(FileMeta)
  <2>1. PICK g, h, D : Serves(FileMeta, g, h, D, disk) /\ Querying(g, h, D)
    BY <1>2, <1>5 DEF RangeInv
  <2> PICK f, b, e, s : f = g.map /\ b = call.begin /\ e = call.end /\ s = found
    OBVIOUS
  <2>2. s = <<>> \/ Gathers(f, s, AllTo(f, b, e))
    BY <1>1, <1>2, <2>1 DEF Querying, CallFits, Answers
  <2>3. b \in DOMAIN f \/ (\A k \in DOMAIN f : b < k) => Gathers(f, s, AllTo(f, b, e))
    BY <1>1, <1>2, <2>1 DEF Querying, CallFits, Answers
  <2>4. PICK K : /\ K \subseteq DOMAIN f /\ (K = {} \/ K = AllTo(f, b, e))
                 /\ b \in DOMAIN f \/ (\A k \in DOMAIN f : b < k) => K = AllTo(f, b, e)
                 /\ Gathers(f, s, K)
    <3>1. CASE Gathers(f, s, AllTo(f, b, e))
      BY <3>1 DEF AllTo
    <3>2. CASE ~Gathers(f, s, AllTo(f, b, e))
      BY <2>2, <2>3, <3>2, NothingGathered
    <3> QED BY <3>1, <3>2
  <2>5. ToSet(s) = {f[k] : k \in K}
    BY <2>4, GatheredSet
  <2>6. Reached' = {f[k] : k \in K}
    BY <1>1, <1>4, <2>5 DEF Reached
  <2>7. \A k \in DOMAIN f : f[k] \in D /\ KeyAt(disk, f[k]) = k
    BY <2>1 DEF Serves, ChainFits
  <2>8. Reached' \subseteq KeyBlocks(D, K)'
    <3>1. KeyBlocks(D, K)' = KeyBlocks(D, K)
      BY <1>3 DEF KeyBlocks
    <3>2. \A k \in K : f[k] \in KeyBlocks(D, K)
      BY <2>4, <2>7 DEF KeyBlocks
    <3> QED BY <2>6, <3>1, <3>2
  <2>9. FoundKeys(f, K)'
    <3>1. FoundKeys(f, K)
      BY <2>4 DEF FoundKeys
    <3>2. FoundKeys(f, K)' = FoundKeys(f, K)
      BY <1>1 DEF FoundKeys
    <3> QED BY <3>1, <3>2
  <2>10. Scanning(f, D, K)'
    BY <1>4, <2>6, <2>8, <2>9 DEF Scanning
  <2>11. Querying(g, h, D)'
    BY <1>1, <2>10 DEF Querying
  <2>12. \E gg, hh, DD : Serves(FileMeta', gg, hh, DD, disk') /\ Querying(gg, hh, DD)'
    BY <1>3, <2>1, <2>11
  <2> QED BY <1>1, <1>2, <1>3, <1>5, <2>12 DEF RangeInv
<1>6. CASE ~Rooted(FileMeta)
  <2>1. found = <<>>
    BY <1>1, <1>2, <1>6 DEF RangeInv, NoTree
  <2>2. NoTree'
    BY <1>1, <1>4, <2>1 DEF NoTree
  <2> QED BY <1>1, <1>2, <1>3, <1>6, <2>2 DEF RangeInv
<1> QED BY <1>5, <1>6

\* A query goes on along a chain.
LEMMA ScanMoves ==
  ASSUME NEW f, NEW D, NEW K, Scanning(f, D, K), call' = call, disk' = disk,
         Reached \subseteq Reached', Reached' \subseteq KeyBlocks(D, K),
         \A id \in seen' \ seen : disk[id].next # BlockNull => disk[id].next \in Reached'
  PROVE  Scanning(f, D, K)'
<1>1. FoundKeys(f, K)'
  BY DEF Scanning, FoundKeys
<1>2. KeyBlocks(D, K)' = KeyBlocks(D, K)
  BY DEF KeyBlocks
<1> QED BY <1>1, <1>2 DEF Scanning

\* The head of the queue is a block of a key that was found.
LEMMA HeadOfQueue ==
  ASSUME DataInv, TypeInv, TreeInv, pc = "scan", call.op = "range", scanIds # <<>>,
         NEW g, NEW h, NEW D, Serves(FileMeta, g, h, D, disk), NEW K, Scanning(g.map, D, K),
         NEW x, x = Head(scanIds)
  PROVE  /\ x \in D /\ x \in BlockIds /\ KeyAt(disk, x) \in K
         /\ Reached = seen \cup {x} \cup ToSet(Tail(scanIds)) /\ Tail(scanIds) \in Seq(BlockIds)
         /\ IsData(disk[x]) /\ DataAt(x) = disk[x] /\ Matches(KeyAt(disk, x))
<1> PICK s : s = scanIds
  OBVIOUS
<1>1. s \in Seq(BlockIds) /\ s # <<>>
  BY DEF TypeInv, LookupInv
<1>2. ToSet(s) = {x} \cup ToSet(Tail(s)) /\ x \in BlockIds /\ Tail(s) \in Seq(BlockIds)
  BY <1>1, HeadOrTail, TailOnce
<1>3. Reached = seen \cup {x} \cup ToSet(Tail(scanIds))
  BY <1>2 DEF Reached
<1>4. x \in D /\ KeyAt(disk, x) \in K
  BY <1>3 DEF Scanning, KeyBlocks
<1>5. Matches(KeyAt(disk, x))
  BY <1>4 DEF Scanning, FoundKeys, AllTo, Matches
<1>6. IsData(disk[x])
  BY <1>4 DEF Serves, ChainFits, Linked
<1>7. DataAt(x) = disk[x]
  <2>1. Nodes = disk
    BY QueryStands
  <2> QED BY <1>6, <2>1, ContentIsNode DEF DataAt, IsData
<1> QED BY <1>2, <1>3, <1>4, <1>5, <1>6, <1>7

\* A query of a range that has a block to go to has a tree.
LEMMA ScanHasTree ==
  ASSUME RangeInv, pc = "scan", call.op = "range", scanIds # <<>>
  PROVE  /\ Rooted(FileMeta) /\ <<call.begin, call.end>> \in Ranges
         /\ \E g, h, D, K : Serves(FileMeta, g, h, D, disk) /\ Scanning(g.map, D, K)
<1>1. Rooted(FileMeta) /\ <<call.begin, call.end>> \in Ranges
  BY DEF RangeInv, NoTree
<1>2. PICK g, h, D : Serves(FileMeta, g, h, D, disk) /\ Querying(g, h, D)
  BY <1>1 DEF RangeInv
<1> QED BY <1>1, <1>2 DEF Querying

\* A step of the loop over the queue goes on with the keys that were found.
LEMMA ScanOn ==
  ASSUME DataInv, TypeInv, TreeInv, pc = "scan", pc' = "scan", call.op = "range", call' = call,
         Rooted(FileMeta), <<call.begin, call.end>> \in Ranges, Fetch \/ UNCHANGED storeVars,
         NEW g, NEW h, NEW D, Serves(FileMeta, g, h, D, disk), NEW K, Scanning(g.map, D, K),
         Reached \subseteq Reached', Reached' \subseteq KeyBlocks(D, K),
         \A id \in seen' \ seen : disk[id].next # BlockNull => disk[id].next \in Reached'
  PROVE  RangeInv'
<1>1. disk' = disk /\ meta' = meta /\ FileMeta' = FileMeta /\ (Rooted(FileMeta)' <=> Rooted(FileMeta))
  BY FileStands
<1> PICK f : f = g.map
  OBVIOUS
<1>2. Scanning(f, D, K)'
  BY <1>1, ScanMoves
<1>3. Querying(g, h, D)'
  BY <1>2 DEF Querying
<1>4. \E gg, hh, DD : Serves(FileMeta', gg, hh, DD, disk') /\ Querying(gg, hh, DD)'
  BY <1>1, <1>3
<1> QED BY <1>1, <1>4 DEF RangeInv

\* The process is no query of a range.
LEMMA NoRange ==
  ASSUME call'.op # "range", pc' # "lookup"
  PROVE  RangeInv'
  BY DEF RangeInv

\* A block that was seen is left out of the queue.
LEMMA SkipSeenRange ==
  ASSUME DataInv, TypeInv, TreeInv, RangeInv, SkipSeen
  PROVE  RangeInv'
<1>1. /\ pc = "scan" /\ pc' = "scan" /\ call' = call /\ UNCHANGED storeVars /\ scanIds # <<>>
      /\ Head(scanIds) \in seen /\ scanIds' = Tail(scanIds) /\ seen' = seen
  BY DEF SkipSeen, Seen, treeVars
<1>2. CASE call.op = "range"
  <2>1. /\ Rooted(FileMeta) /\ <<call.begin, call.end>> \in Ranges
        /\ \E g, h, D, K : Serves(FileMeta, g, h, D, disk) /\ Scanning(g.map, D, K)
    BY <1>1, <1>2, ScanHasTree
  <2>2. PICK g, h, D, K : Serves(FileMeta, g, h, D, disk) /\ Scanning(g.map, D, K)
    BY <2>1
  <2>3. Reached = seen \cup {Head(scanIds)} \cup ToSet(Tail(scanIds))
    BY <1>1, <1>2, <2>2, HeadOfQueue
  <2>4. Reached' = Reached
    BY <1>1, <2>3 DEF Reached
  <2>5. Reached \subseteq KeyBlocks(D, K)
    BY <2>2 DEF Scanning
  <2> QED BY <1>1, <1>2, <2>1, <2>2, <2>4, <2>5, ScanOn
<1>3. CASE call.op # "range"
  BY <1>1, <1>3, NoRange
<1> QED BY <1>2, <1>3

\* A link joins the end of the queue.
LEMMA LinkQueued ==
  ASSUME NEW t, t \in Seq(BlockIds), NEW p, p \in BlockIds, NEW u, u = t \o <<p>>
  PROVE  ToSet(u) = ToSet(t) \cup {p}
<1>1. u = Append(t, p)
  BY SMT
<1>2. ToSet(Append(t, p)) = ToSet(t) \cup {p}
  BY AppendLemma
<1> QED BY <1>1, <1>2

\* A block that is taken brings the next one of its key.
LEMMA TakeRange ==
  ASSUME DataInv, TypeInv, TreeInv, RangeInv, TakeBlock
  PROVE  RangeInv'
<1> PICK x : x = Head(scanIds)
  OBVIOUS
<1>1. /\ pc = "scan" /\ pc' = "scan" /\ call' = call /\ Fetch /\ scanIds # <<>> /\ seen' = seen \cup {x}
      /\ scanIds' = Tail(scanIds) \o (IF DataAt(x).next = BlockNull THEN <<>> ELSE <<DataAt(x).next>>)
  BY DEF TakeBlock, ReadData
<1>2. CASE call.op = "range"
  <2>1. /\ Rooted(FileMeta) /\ <<call.begin, call.end>> \in Ranges
        /\ \E g, h, D, K : Serves(FileMeta, g, h, D, disk) /\ Scanning(g.map, D, K)
    BY <1>1, <1>2, ScanHasTree
  <2>2. PICK g, h, D, K : Serves(FileMeta, g, h, D, disk) /\ Scanning(g.map, D, K)
    BY <2>1
  <2>3. /\ x \in D /\ x \in BlockIds /\ KeyAt(disk, x) \in K
        /\ Reached = seen \cup {x} \cup ToSet(Tail(scanIds)) /\ Tail(scanIds) \in Seq(BlockIds)
        /\ DataAt(x) = disk[x]
    BY <1>1, <1>2, <2>2, HeadOfQueue
  <2> PICK next, t : next = disk[x].next /\ t = Tail(scanIds)
    OBVIOUS
  <2>4. next # BlockNull => next \in D /\ KeyAt(disk, next) = KeyAt(disk, x)
    BY <2>2, <2>3 DEF Serves, ChainFits, Linked
  <2>5. D \subseteq BlockIds
    BY <2>2 DEF Serves, ChainFits
  <2>6. ToSet(scanIds') = ToSet(t) \cup (IF next = BlockNull THEN {} ELSE {next})
    <3>1. CASE next = BlockNull
      <4>1. t \o <<>> = t
        BY <2>3, SMT
      <4> QED BY <1>1, <2>3, <3>1, <4>1
    <3>2. CASE next # BlockNull
      <4>1. next \in BlockIds
        BY <2>4, <2>5, <3>2
      <4> PICK u : u = t \o <<next>>
        OBVIOUS
      <4>2. t \in Seq(BlockIds)
        BY <2>3
      <4>3. ToSet(u) = ToSet(t) \cup {next}
        BY <4>1, <4>2, LinkQueued
      <4>4. scanIds' = u
        BY <1>1, <2>3, <3>2
      <4> QED BY <3>2, <4>3, <4>4
    <3> QED BY <3>1, <3>2
  <2>7. Reached' = Reached \cup (IF next = BlockNull THEN {} ELSE {next})
    BY <1>1, <2>3, <2>6 DEF Reached
  <2>8. Reached' \subseteq KeyBlocks(D, K)
    <3>1. Reached \subseteq KeyBlocks(D, K)
      BY <2>2 DEF Scanning
    <3>2. next # BlockNull => next \in KeyBlocks(D, K)
      BY <2>3, <2>4 DEF KeyBlocks
    <3> QED BY <2>7, <3>1, <3>2
  <2>9. \A id \in seen' \ seen : disk[id].next # BlockNull => disk[id].next \in Reached'
    BY <1>1, <2>7
  <2>10. Reached \subseteq Reached'
    BY <2>7
  <2> QED BY <1>1, <1>2, <2>1, <2>2, <2>8, <2>9, <2>10, ScanOn
<1>3. CASE call.op # "range"
  BY <1>1, <1>3, NoRange
<1> QED BY <1>2, <1>3

\* Every block of a key in the range matches.
LEMMA SkipBlockRange ==
  ASSUME DataInv, TypeInv, TreeInv, RangeInv, SkipBlock
  PROVE  RangeInv' /\ call.op # "range"
<1> PICK x : x = Head(scanIds)
  OBVIOUS
<1>1. /\ pc = "scan" /\ pc' = "scan" /\ call' = call /\ scanIds # <<>>
      /\ Readable(x, "data") /\ ~Matches(DataKey(DataAt(x)))
  BY DEF SkipBlock, ReadData
<1>2. call.op # "range"
  <2> SUFFICES ASSUME call.op = "range" PROVE FALSE
    OBVIOUS
  <2>1. PICK g, h, D, K : Serves(FileMeta, g, h, D, disk) /\ Scanning(g.map, D, K)
    BY <1>1, ScanHasTree
  <2>2. /\ x \in D /\ IsData(disk[x]) /\ DataAt(x) = disk[x] /\ Matches(KeyAt(disk, x))
    BY <1>1, <2>1, HeadOfQueue
  <2>3. disk[x].records # <<>>
    BY <2>1, <2>2 DEF Serves, ChainFits, Linked
  <2> PICK s : s = OnDisk(x)
    OBVIOUS
  <2>4. s = disk[x].records /\ s # <<>> /\ x \in BlockIds
    BY <2>1, <2>2, <2>3 DEF OnDisk, RecordsOf, Serves, ChainFits
  <2>5. s \in Seq(Rows)
    BY <2>4 DEF DataInv, FileInv, OneKey
  <2>6. Head(s) = s[1]
    BY <2>4, <2>5, SMT
  <2>7. DataKey(DataAt(x)) = KeyAt(disk, x)
    BY <2>2, <2>4, <2>6 DEF DataKey, KeyAt
  <2> QED BY <1>1, <2>2, <2>7
<1> QED BY <1>1, <1>2, NoRange

\* The answer is complete when the queue is empty.
LEMMA AnswerRange ==
  ASSUME DataInv, TypeInv, TreeInv, RangeInv, Answer
  PROVE  RangeInv'
<1>1. /\ pc = "scan" /\ pc' = "done" /\ call' = call /\ UNCHANGED storeVars /\ scanIds = <<>>
      /\ UNCHANGED <<scanIds, seen, records>>
  BY DEF Answer, treeVars, queryVars
<1>2. CASE call.op = "range"
  <2>1. disk' = disk /\ meta' = meta /\ FileMeta' = FileMeta /\ (Rooted(FileMeta)' <=> Rooted(FileMeta))
    BY <1>1, FileStands
  <2>2. ASSUME NEW g, NEW h, NEW D, Querying(g, h, D) PROVE Querying(g, h, D)'
    <3> PICK f : f = g.map
      OBVIOUS
    <3>1. PICK K : Scanning(f, D, K)
      BY <1>1, <2>2 DEF Querying
    <3>2. Reached' = Reached
      BY <1>1 DEF Reached
    <3>3. Scanning(f, D, K)'
      BY <1>1, <2>1, <3>1, <3>2, ScanMoves DEF Scanning
    <3> QED BY <1>1, <3>3 DEF Querying
  <2>3. NoTree => NoTree'
    BY <1>1 DEF NoTree
  <2>4. Rooted(FileMeta) => \E g, h, D : Serves(FileMeta', g, h, D, disk') /\ Querying(g, h, D)'
    BY <1>1, <1>2, <2>1, <2>2 DEF RangeInv
  <2> QED BY <1>1, <1>2, <2>1, <2>3, <2>4 DEF RangeInv
<1>3. CASE call.op # "range"
  BY <1>1, <1>3, NoRange
<1> QED BY <1>2, <1>3
-----------------------------------------------------------------------------
(* The answer of a query of a range.                                       *)

\* A step that changes nothing.
LEMMA StillRange ==
  ASSUME RangeInv, UNCHANGED vars
  PROVE  RangeInv'
<1>1. /\ UNCHANGED <<header, disk, meta, pc, scanIds, seen, records>>
      /\ UNCHANGED <<call, phase, cursor, found, reads>>
  BY DEF vars, storeVars, treeVars, queryVars
<1>2. FileMeta' = FileMeta /\ (Rooted(FileMeta)' <=> Rooted(FileMeta)) /\ (NoTree' <=> NoTree)
  BY <1>1 DEF FileMeta, Rooted, NoTree
<1>3. ASSUME NEW g, NEW h, NEW D, Querying(g, h, D) PROVE Querying(g, h, D)'
  <2>1. CASE pc = "lookup"
    BY <1>1, <1>3, <2>1 DEF Querying, Calling, CallFits, Asks, HasRead, Answers
  <2>2. CASE pc # "lookup"
    BY <1>1, <1>3, <2>2 DEF Querying, Scanning, FoundKeys, KeyBlocks, Reached
  <2> QED BY <2>1, <2>2
<1>4. ASSUME Rooted(FileMeta), call.op = "range"
      PROVE  \E g, h, D : Serves(FileMeta', g, h, D, disk') /\ Querying(g, h, D)'
  <2>1. PICK g, h, D : Serves(FileMeta, g, h, D, disk) /\ Querying(g, h, D)
    BY <1>4 DEF RangeInv
  <2>2. Querying(g, h, D)'
    BY <1>3, <2>1
  <2> QED BY <1>1, <1>2, <2>1, <2>2
<1> QED BY <1>1, <1>2, <1>4 DEF RangeInv

\* Every step keeps what a query of a range goes by.
LEMMA NextRange ==
  ASSUME DataInv, TypeInv, TreeInv, RangeInv, [Next]_vars
  PROVE  RangeInv'
<1>1. CASE AskIndex
  BY <1>1, AskRange
<1>2. CASE LookupStep \/ LookupReturns
  BY <1>2, LookupRange, ReturnRange
<1>3. CASE SkipSeen \/ SkipBlock \/ TakeBlock \/ Answer
  BY <1>3, SkipSeenRange, SkipBlockRange, TakeRange, AnswerRange
<1>4. CASE UNCHANGED vars
  BY <1>4, StillRange
<1>5. CASE AtEnd
  <2>1. pc' = "closed" /\ call' = NoCall
    BY <1>5 DEF AtEnd, ReadRowThrows, PrintRootThrows, LookupFails, ReadDataFails, Exit, Ends,
       Dies, Gone, TreeReset
  <2> QED BY <2>1, NoRange DEF NoCall
<1>6. CASE AskScan
  BY <1>6, NoRange DEF AskScan
<1>7. CASE \/ OpenToLoad \/ OpenToQuery \/ StartLoad \/ ReadRow \/ TableRead \/ PrintRoot
           \/ InsertData \/ StartIndex \/ IndexStep \/ Persist \/ Flush
  <2>1. call' = call /\ pc \notin {"lookup", "scan", "done"} /\ pc' # "lookup"
    <3>1. CASE \/ OpenToLoad \/ OpenToQuery \/ StartLoad \/ ReadRow \/ TableRead \/ PrintRoot
               \/ InsertData \/ StartIndex \/ Persist \/ Flush
      BY <3>1 DEF OpenToLoad, OpenToQuery, StartLoad, ReadRow, TableRead, PrintRoot, InsertData,
         StartIndex, BulkLoad, Persist, Flush, treeVars, callVars
    <3>2. CASE IndexStep
      BY <3>2 DEF IndexStep, LoadStep, NewLeaf, LinkLeaf, FillLeaf, NewInternal, FillInternal, Fill,
         NextLevel, RootDone, callVars
    <3> QED BY <1>7, <3>1, <3>2
  <2>2. call.op # "range"
    BY <2>1 DEF RangeInv
  <2> QED BY <2>1, <2>2, NoRange
<1> QED BY <1>1, <1>2, <1>3, <1>4, <1>5, <1>6, <1>7, NextCases DEF InMemory, Reading

\* From the first blocks of its keys a query reaches all their blocks.
LEMMA AllReached ==
  ASSUME NEW f, NEW D, ChainFits(D, f, disk), NEW K, Scanning(f, D, K), scanIds = <<>>
  PROVE  seen = KeyBlocks(D, K)
<1>1. Reached = seen /\ seen \subseteq KeyBlocks(D, K)
  BY NothingOnce DEF Reached, Scanning
<1> DEFINE Missed == KeyBlocks(D, K) \ seen
<1>2. Missed = {}
  <2> SUFFICES ASSUME Missed # {} PROVE FALSE
    OBVIOUS
  <2>1. Missed \subseteq 0..BlockNull /\ BlockNull \in Nat
    BY BlocksAssumption DEF ChainFits, KeyBlocks, BlockIds
  <2> HIDE DEF Missed
  <2>2. PICK id \in Missed : \A i \in Missed : i <= id
    BY <2>1, GreatestBelow
  <2>3. id \in D /\ KeyAt(disk, id) \in K /\ id \notin seen
    BY DEF Missed, KeyBlocks
  <2>4. Linked(D, f, disk, id) /\ id # BlockNull
    BY <2>3 DEF ChainFits
  <2>5. CASE id = f[KeyAt(disk, id)]
    BY <1>1, <2>3, <2>5 DEF Scanning
  <2>6. CASE \E j \in D : disk[j].next = id
    <3>1. PICK j \in D : disk[j].next = id
      BY <2>6
    <3>2. Linked(D, f, disk, j)
      BY DEF ChainFits
    <3>3. id < j /\ KeyAt(disk, j) = KeyAt(disk, id)
      BY <2>4, <3>1, <3>2 DEF Linked
    <3>4. j \notin Missed
      <4>1. id \in Nat /\ j \in Nat
        <5>1. D \subseteq BlockIds
          BY DEF ChainFits
        <5>2. \A x \in BlockIds : x \in Nat
          BY BlocksAssumption, SMT DEF BlockIds
        <5> QED BY <2>3, <3>1, <5>1, <5>2
      <4> QED BY <2>2, <3>3, <4>1, SMT
    <3>5. j \in seen
      BY <2>3, <3>3, <3>4 DEF Missed, KeyBlocks
    <3> QED BY <1>1, <2>3, <2>4, <3>1, <3>5 DEF Scanning
  <2> QED BY <2>4, <2>5, <2>6 DEF Linked
<1> QED BY <1>1, <1>2

\* All records of a block have the key of its first one.
LEMMA RecordsHaveKey ==
  ASSUME FileInv, NEW f, NEW D, ChainFits(D, f, disk), NEW id \in D
  PROVE  /\ KeyAt(disk, id) \in DOMAIN f
         /\ \A r \in ToSet(OnDisk(id)) : r.key = KeyAt(disk, id)
         /\ \E r \in ToSet(OnDisk(id)) : r.key = KeyAt(disk, id)
<1>1. IsData(disk[id]) /\ disk[id].records # <<>> /\ KeyAt(disk, id) \in DOMAIN f /\ id \in BlockIds
  BY DEF ChainFits, Linked
<1> PICK s : s = OnDisk(id)
  OBVIOUS
<1>2. s = disk[id].records /\ s # <<>>
  BY <1>1 DEF OnDisk, RecordsOf
<1>3. s \in Seq(Rows) /\ \A i \in DOMAIN s : s[i].key = s[1].key
  BY <1>1 DEF FileInv, OneKey
<1>4. 1 \in DOMAIN s /\ s[1].key = KeyAt(disk, id)
  <2>1. 1 \in DOMAIN s
    BY <1>2, <1>3, SMT
  <2> QED BY <1>2, <2>1 DEF KeyAt
<1>5. s[1] \in ToSet(s)
  BY <1>4 DEF ToSet
<1>6. \A r \in ToSet(s) : r.key = KeyAt(disk, id)
  BY <1>3, <1>4 DEF ToSet
<1> QED BY <1>1, <1>4, <1>5, <1>6

\* The records of a range are those of the blocks with keys of it.
LEMMA RangeOfBlocks ==
  ASSUME FileInv, NEW f, NEW D, ChainFits(D, f, disk), NEW K, K = AllTo(f, call.begin, call.end)
  PROVE  InBlocks(KeyBlocks(D, K)) = Matching(InBlocks(D))
<1>1. ASSUME NEW id \in D, NEW r \in ToSet(OnDisk(id))
      PROVE  InRange(r.key) <=> id \in KeyBlocks(D, K)
  <2>1. KeyAt(disk, id) \in DOMAIN f /\ r.key = KeyAt(disk, id)
    BY RecordsHaveKey
  <2> QED BY <2>1 DEF InRange, KeyBlocks, AllTo
<1>2. KeyBlocks(D, K) \subseteq D
  BY DEF KeyBlocks
<1> QED BY <1>1, <1>2 DEF InBlocks, Matching

\* What the answer of a query of a range is made of.
LEMMA RangeIsAnswered ==
  ASSUME DataInv, ScanInv, TypeInv, TreeInv, RangeInv, pc = "done", call.op = "range",
         NEW g, NEW h, NEW D, Serves(FileMeta, g, h, D, disk), NEW K, Scanning(g.map, D, K)
  PROVE  /\ seen = KeyBlocks(D, K) /\ ToSet(records) = InBlocks(seen) /\ Indexed = InBlocks(D)
         /\ records # <<>> => K = AllTo(g.map, call.begin, call.end)
         /\ (\E r \in Indexed : r.key = call.begin) \/ (\A r \in Indexed : r.key > call.begin)
              => K = AllTo(g.map, call.begin, call.end)
<1> PICK f : f = g.map
  OBVIOUS
<1>1. scanIds = <<>> /\ FileInv /\ <<call.begin, call.end>> \in Ranges
  BY DEF RangeInv, DataInv
<1>2. ChainFits(D, f, disk)
  BY DEF Serves
<1>3. seen = KeyBlocks(D, K)
  BY <1>1, <1>2, AllReached
<1>4. ToSet(records) = InBlocks(seen)
  <2>1. \A r \in ToSet(records) : \E id \in seen : r \in ToSet(OnDisk(id))
    BY DEF DataInv, QueryInv
  <2>2. \A id \in seen : ToSet(OnDisk(id)) \subseteq ToSet(records)
    BY DEF ScanInv
  <2> QED BY <2>1, <2>2 DEF InBlocks
<1>5. Indexed = InBlocks(D)
  BY FileIndexIs DEF IndexIsItsBlocks
<1>6. records # <<>> => K = AllTo(f, call.begin, call.end)
  <2> SUFFICES ASSUME records # <<>> PROVE K # {}
    BY DEF Scanning, FoundKeys
  <2> PICK s : s = records
    OBVIOUS
  <2>1. s \in Seq(Rows) /\ s # <<>>
    BY DEF DataInv, QueryInv
  <2>2. 1 \in DOMAIN s
    BY <2>1, SMT
  <2>3. s[1] \in ToSet(s)
    BY <2>2 DEF ToSet
  <2>4. seen # {}
    BY <1>4, <2>3 DEF InBlocks
  <2> QED BY <1>3, <2>4 DEF KeyBlocks
<1>7. ASSUME \/ \E r \in Indexed : r.key = call.begin
             \/ \A r \in Indexed : r.key > call.begin
      PROVE  K = AllTo(f, call.begin, call.end)
  <2>1. CASE \E r \in Indexed : r.key = call.begin
    <3>1. PICK r \in Indexed : r.key = call.begin
      BY <2>1
    <3>2. PICK id \in D : r \in ToSet(OnDisk(id))
      BY <1>5, <3>1 DEF InBlocks
    <3>3. call.begin \in DOMAIN f
      BY <1>1, <1>2, <3>1, <3>2, RecordsHaveKey
    <3> QED BY <3>3 DEF Scanning, FoundKeys
  <2>2. CASE \A r \in Indexed : r.key > call.begin
    <3>1. ASSUME NEW k \in DOMAIN f PROVE call.begin < k
      <4>1. f[k] \in D /\ KeyAt(disk, f[k]) = k /\ k \in 0..MaxKey
        BY <1>2 DEF ChainFits
      <4>2. PICK r \in ToSet(OnDisk(f[k])) : r.key = k
        BY <1>1, <1>2, <4>1, RecordsHaveKey
      <4>3. r \in Indexed
        BY <1>5, <4>1 DEF InBlocks
      <4>4. k > call.begin
        BY <2>2, <4>2, <4>3
      <4>5. k \in Int /\ call.begin \in Int
        BY <1>1, <4>1, RangeFacts, BlocksAssumption, SMT
      <4> QED BY <4>4, <4>5, SMT
    <3> QED BY <3>1 DEF Scanning, FoundKeys
  <2> QED BY <1>7, <2>1, <2>2
<1> QED BY <1>3, <1>4, <1>5, <1>6, <1>7

\* So it is exact, or empty.
LEMMA AnswersAreIndexed ==
  ASSUME DataInv, ScanInv, TypeInv, TreeInv, RangeInv
  PROVE  IndexIsExactOrEmpty
<1> SUFFICES ASSUME pc = "done", call.op = "range"
             PROVE  /\ records # <<>> =>
                         /\ ToSet(records) = Matching(Indexed)
                         /\ Len(records) = Cardinality(Matching(Indexed))
                    /\ (\E r \in Indexed : r.key = call.begin) \/ (\A r \in Indexed : r.key > call.begin)
                         => ToSet(records) = Matching(Indexed)
  BY DEF IndexIsExactOrEmpty
<1>1. CASE ~Rooted(FileMeta)
  <2>1. records = <<>> /\ Indexed = {}
    BY <1>1 DEF RangeInv, NoTree, Indexed, Rooted
  <2> QED BY <2>1, NothingOnce DEF Matching
<1>2. CASE Rooted(FileMeta)
  <2>1. PICK g, h, D : Serves(FileMeta, g, h, D, disk) /\ Querying(g, h, D)
    BY <1>2 DEF RangeInv
  <2>2. PICK K : Scanning(g.map, D, K)
    BY <2>1 DEF Querying
  <2>3. /\ seen = KeyBlocks(D, K) /\ ToSet(records) = InBlocks(seen) /\ Indexed = InBlocks(D)
        /\ records # <<>> => K = AllTo(g.map, call.begin, call.end)
        /\ (\E r \in Indexed : r.key = call.begin) \/ (\A r \in Indexed : r.key > call.begin)
             => K = AllTo(g.map, call.begin, call.end)
    BY <2>1, <2>2, RangeIsAnswered
  <2>4. K = AllTo(g.map, call.begin, call.end) => ToSet(records) = Matching(Indexed)
    <3>1. ChainFits(D, g.map, disk) /\ FileInv
      BY <2>1 DEF Serves, DataInv
    <3> QED BY <2>3, <3>1, RangeOfBlocks
  <2>5. records \in Seq(Rows) /\ Once(records)
    BY DEF DataInv, QueryInv
  <2>6. Cardinality(ToSet(records)) = Len(records)
    BY <2>5, OnceCounts
  <2> QED BY <2>3, <2>4, <2>6
<1> QED BY <1>1, <1>2

\* What a query of a range goes by is kept while the metadata block is whole.
LEMMA RangeKept ==
  ASSUME MetaFits, ~TornMeta
  PROVE  Spec => [](DataInv /\ ScanInv /\ TypeInv /\ TreeInv /\ RangeInv)
<1>1. Init => RangeInv
  BY DEF Init, TreeInit, NoCall, RangeInv
<1>2. DataInv /\ TypeInv /\ TreeInv /\ RangeInv /\ [Next]_vars => RangeInv'
  BY NextRange
<1> QED BY TreeKeptBySteps, <1>1, <1>2, PTL DEF Spec

\* Database::query with the index, for every capacity, table and range, after any
\* number of loads and deaths: the answer is exactly the records of the range that
\* the index of the file leads to, once each, or empty; it is exact when the range
\* begins at an indexed key or below all of them.
THEOREM IndexStaysExact ==
  ASSUME MetaFits, ~TornMeta PROVE Spec => []IndexIsExactOrEmpty
<1>1. DataInv /\ ScanInv /\ TypeInv /\ TreeInv /\ RangeInv => IndexIsExactOrEmpty
  BY AnswersAreIndexed
<1> QED BY RangeKept, <1>1, PTL
-----------------------------------------------------------------------------
(* What the metadata lists, and the blocks that lead to each other.        *)

\* No block is listed twice, and a process has the blocks that the file lists and
\* those it has inserted.
Tidy ==
  /\ Once(meta.data) /\ Once(FileMeta.data)
  /\ open => OldData = ToSet(FileMeta.data)

\* A data block holds records and leads to a listed block of its key.
Chained(L, n) ==
  \A id \in L : /\ IsData(n[id]) /\ n[id].records # <<>>
                /\ n[id].next # BlockNull =>
                     n[id].next \in L /\ KeyAt(n, n[id].next) = KeyAt(n, id)
FileIsChained == Chained(ToSet(FileMeta.data), disk)

\* An id is not registered twice.
LEMMA OnceAppended ==
  ASSUME NEW S, NEW s \in Seq(S), Once(s), NEW x \in S, x \notin ToSet(s)
  PROVE  Once(Append(s, x))
<1>1. /\ Append(s, x) \in Seq(S) /\ DOMAIN s = 1..Len(s) /\ Len(s) \in Nat
      /\ DOMAIN Append(s, x) = 1..Len(s) + 1
      /\ Append(s, x)[Len(s) + 1] = x
      /\ \A i \in 1..Len(s) : Append(s, x)[i] = s[i]
  BY SMT
<1>2. \A i \in 1..Len(s) + 1 : i \in 1..Len(s) \/ i = Len(s) + 1
  BY <1>1, SMT
<1>3. \A i \in 1..Len(s) : s[i] # x
  BY <1>1 DEF ToSet
<1> QED BY <1>1, <1>2, <1>3 DEF Once

\* An insertion registers a new id.
LEMMA InsertTidy ==
  ASSUME IInv, Once(meta.data), NEW block, Insert(block)
  PROVE  Once(meta'.data) /\ OldData' = OldData /\ header' = header /\ open
<1>0. PICK c : c = Count(meta)
  OBVIOUS
<1>1. /\ meta \in MetaType /\ c \in Nat /\ c < MaxBlocks /\ base \in Nat /\ base <= c
      /\ \A id \in IdsOf(meta) : id < c
      /\ meta' = Register(meta, block.kind) /\ base' = base /\ open
  BY <1>0, InvFacts DEF Insert, Ready, IInv, StoreInv, BaseBetweenCounts
<1>2. c < BlockNull /\ c \in BlockIds /\ ~(c < base) /\ ~(c < c)
  <2> QED BY <1>1, BlocksAssumption, DiskStoreAssumption, SMT DEF BlockIds
<1>3. NewId(meta) = c
  BY <1>0, <1>1, <1>2, RegisterLemma
<1>4. meta.data \in Seq(BlockIds)
  BY <1>1, MetaFacts
<1>5. c \notin ToSet(meta.data)
  BY <1>1, <1>2 DEF IdsOf
<1>7. header' = header
  BY DEF Insert, Ready, Apply, HeaderAfter
<1>8. CASE block.kind = "data"
  <2>1. meta'.data = Append(meta.data, c)
    BY <1>1, <1>3, <1>8 DEF Register, MetaType
  <2>2. Once(meta'.data) /\ ToSet(meta'.data) = ToSet(meta.data) \cup {c}
    BY <1>2, <1>4, <1>5, <2>1, OnceAppended, AppendLemma
  <2>3. OldData' = OldData
    BY <1>1, <1>2, <2>2 DEF OldData
  <2> QED BY <1>1, <1>7, <2>2, <2>3
<1>9. CASE block.kind # "data"
  <2>1. meta'.data = meta.data
    BY <1>1, <1>3, <1>9 DEF Register, MetaType
  <2>3. OldData' = OldData
    BY <1>1, <2>1 DEF OldData
  <2> QED BY <1>1, <1>7, <2>1, <2>3
<1> QED BY <1>8, <1>9

\* A process that has just opened the file, or persisted, has no new block.
OldIsAll == IInv /\ base = Count(meta) => OldData = ToSet(meta.data)
\* It follows from the count of ids.
LEMMA AllAreOld == OldIsAll
<1> SUFFICES ASSUME IInv, base = Count(meta) PROVE OldData = ToSet(meta.data)
  BY DEF OldIsAll
<1>1. \A id \in IdsOf(meta) : id < Count(meta)
  BY InvFacts
<1> QED BY <1>1 DEF OldData, IdsOf

\* No id is below 0.
LEMMA NoneBelow ==
  ASSUME NEW m \in MetaType, NEW n, n = 0, \A id \in IdsOf(m) : id < n
  PROVE  IdsOf(m) = {} /\ Once(m.data)
<1>1. \A id \in IdsOf(m) : id \in Nat
  BY IdsAreBlockIds, BlocksAssumption, SMT DEF BlockIds
<1>2. \A id \in IdsOf(m) : FALSE
  BY <1>1, SMT
<1>3. ToSet(m.data) = {}
  BY <1>2 DEF IdsOf
<1>4. Once(m.data)
  BY <1>3 DEF Once, ToSet
<1> QED BY <1>2, <1>4

\* An empty file leads to metadata that lists nothing, if the memory that its
\* sizes are read into holds zeros.
LEMMA OpenTidy ==
  ASSUME IInv, IInv', StaleMax = 0, Tidy, Open
  PROVE  Tidy'
<1>1. base' = Count(meta') /\ header' = header /\ FileMeta' = FileMeta
  BY DEF Open, FileMeta
<1>2. OldData' = ToSet(meta'.data)
  <2>1. OldIsAll'
    BY AllAreOld, PTL
  <2> QED BY <1>1, <2>1 DEF OldIsAll
<1>3. CASE status = "written"
  <2>1. meta' = FileMeta
    BY <1>3 DEF Open, MetaOnOpen, FileMeta
  <2> QED BY <1>1, <1>2, <2>1 DEF Tidy
<1>4. CASE status # "written"
  <2>1. meta' = FreshMeta \/ meta' \in {ZeroMeta(n, m) : n, m \in 0..StaleMax}
    BY <1>4 DEF Open, MetaOnOpen, IInv, StoreTypeOK
  <2>2. meta' \in MetaType /\ Count(meta') = 0 /\ IdsOf(meta') = {}
    <3>1. CASE meta' = FreshMeta
      BY <3>1, FreshFacts
    <3>2. CASE meta' \in {ZeroMeta(n, m) : n, m \in 0..StaleMax}
      <4>1. PICK n \in 0..StaleMax, m \in 0..StaleMax : meta' = ZeroMeta(n, m)
        BY <3>2
      <4>2. n = 0 /\ m = 0 /\ n + m = 0
        BY SMT
      <4>3. meta' \in MetaType /\ Count(meta') = 0 /\ \A id \in IdsOf(meta') : id < 0
        BY <4>1, <4>2, FreshFacts
      <4> QED BY <4>3, NoneBelow
    <3> QED BY <2>1, <3>1, <3>2
  <2>3. FileCount = 0
    <3>1. FileCount' = FileCount /\ FileCount' <= 0 /\ FileCount' \in Nat
      BY <1>1, <2>2, InvFacts DEF FileCount, Open, IInv, StoreInv, BaseBetweenCounts
    <3> QED BY <3>1, SMT
  <2>4. IdsOf(FileMeta) = {}
    <3>1. FileMeta \in MetaType /\ \A x \in IdsOf(FileMeta) : x < FileCount
      BY InvFacts, DecodeLemma DEF FileMeta
    <3> QED BY <2>3, <3>1, NoneBelow
  <2>5. OldData' = ToSet(FileMeta'.data)
    BY <1>1, <1>2, <2>2, <2>4 DEF IdsOf
  <2>6. Once(meta'.data)
    BY <2>2, NoneBelow
  <2> QED BY <1>1, <2>5, <2>6 DEF Tidy
<1> QED BY <1>3, <1>4

\* persist() makes the metadata of the process that of the file.
LEMMA FlushTidy ==
  ASSUME IInv, IInv', Tidy, PersistFlush
  PROVE  Tidy'
<1>1. /\ pending.to = "meta" /\ pending.words = Encode(meta) /\ header \in Seq(BlockIds)
      /\ header' = Overlay(Encode(meta), header) /\ meta' = meta /\ base' = Count(meta')
  BY DEF PersistFlush, Apply, HeaderAfter, IInv, StoreInv, PendingIsRecent, StoreTypeOK
<1>2. FileMeta' = meta
  BY <1>1, InvFacts, RoundTrip DEF FileMeta
<1>3. OldData' = ToSet(meta'.data)
  <2>1. OldIsAll'
    BY AllAreOld, PTL
  <2> QED BY <1>1, <2>1 DEF OldIsAll
<1> QED BY <1>1, <1>2, <1>3 DEF Tidy

\* Every step of the store keeps the lists.
LEMMA StoreStepTidy ==
  ASSUME IInv, IInv', MetaFits, ~TornMeta, StaleMax = 0, Tidy, StoreStep
  PROVE  Tidy'
<1>1. CASE \E block : Insert(block)
  <2>1. Once(meta'.data) /\ OldData' = OldData /\ header' = header /\ open
    BY <1>1, InsertTidy DEF Tidy
  <2>2. FileMeta' = FileMeta
    BY <2>1 DEF FileMeta
  <2> QED BY <2>1, <2>2 DEF Tidy
<1>2. CASE Open \/ PersistFlush
  BY <1>2, OpenTidy, FlushTidy
<1>3. CASE Close \/ Crash
  <2>1. meta' = FreshMeta /\ ~open'
    BY <1>3 DEF Close, Crash, Forget
  <2>2. Once(FreshMeta.data)
    BY FreshFacts, NoneBelow
  <2>3. FileMeta' = FileMeta \/ FileMeta' = meta
    BY HeaderStep DEF FileMeta
  <2> QED BY <2>1, <2>2, <2>3 DEF Tidy
<1>4. CASE \/ UNCHANGED storeVars \/ (\E id \in Own : \E block : Update(id, block))
           \/ Fetch \/ PersistWrite \/ \E id \in BlockIds : SetRoot(id)
  <2>1. /\ meta'.data = meta.data /\ meta'.btree = meta.btree /\ base' = base /\ header' = header
        /\ open' = open
    BY <1>4, InvFacts DEF storeVars, Update, Fetch, PersistWrite, SetRoot, Ready, Apply, HeaderAfter, MetaType
  <2>2. OldData' = OldData /\ FileMeta' = FileMeta
    BY <2>1 DEF OldData, FileMeta
  <2> QED BY <2>1, <2>2 DEF Tidy
<1> QED BY <1>1, <1>2, <1>3, <1>4 DEF StoreStep

\* The blocks that the file lists stay, and the chains of a load join them.
LEMMA NextChained ==
  ASSUME DataInv, LoadInv, TreeInv, Tidy, MetaFits, ~TornMeta, FileIsChained, StoreStep
  PROVE  FileIsChained'
<1>0. IInv
  BY DEF DataInv
<1>1. CASE header' = header
  <2>1. FileMeta' = FileMeta
    BY <1>1 DEF FileMeta
  <2> PICK L : L = ToSet(FileMeta.data)
    OBVIOUS
  <2>2. \A id \in L : disk'[id] = disk[id]
    BY <1>0, FileDataIsOld, OldBlockStays
  <2>3. Chained(L, disk')
    BY <2>2 DEF FileIsChained, Chained, KeyAt
  <2> QED BY <2>1, <2>3 DEF FileIsChained
<1>2. CASE /\ pending.to = "meta" /\ FileMeta' = meta
           /\ \A id \in BlockIds : disk'[id] = disk[id] /\ Content(id) = disk[id]
  <2>1. pc = "flush" /\ open
    BY <1>0, <1>2 DEF LoadInv, IInv, StoreInv, PendingIsRecent
  <2>2. ChainFits(NewData, keyPointers, Nodes)
    BY <2>1 DEF TreeInv, LocalTree, Loading, NewChains
  <2>3. \A id \in BlockIds : Nodes[id] = disk[id]
    BY <1>2, ContentIsNode
  <2>4. ToSet(meta.data) \subseteq BlockIds
    BY <1>0, InvFacts, IdsAreBlockIds DEF IdsOf
  <2>5. ToSet(meta.data) = OldData \cup NewData
    <3>1. \A id \in BlockIds : id < base \/ base <= id
      BY <1>0, InvFacts, BlocksAssumption, SMT DEF BlockIds
    <3> QED BY <2>4, <3>1 DEF OldData, NewData
  <2>6. Chained(OldData, disk)
    BY <2>1 DEF Tidy, FileIsChained
  <2>7. Chained(NewData, disk)
    <3>1. NewData \subseteq BlockIds
      BY <2>4 DEF NewData
    <3>2. ASSUME NEW id \in NewData PROVE Linked(NewData, keyPointers, Nodes, id)
      BY <2>2 DEF ChainFits
    <3>3. ASSUME NEW id \in NewData PROVE Nodes[id] = disk[id]
      BY <2>3, <3>1
    <3>4. Chained(NewData, Nodes)
      BY <3>2 DEF Linked, Chained
    <3> QED BY <3>3, <3>4 DEF Chained, KeyAt
  <2>8. Chained(OldData \cup NewData, disk)
    BY <2>6, <2>7 DEF Chained
  <2>9. Chained(OldData \cup NewData, disk')
    BY <1>2, <2>4, <2>5, <2>8 DEF Chained, KeyAt
  <2> QED BY <1>2, <2>5, <2>9 DEF FileIsChained
<1> QED BY <1>0, <1>1, <1>2, HeaderStep
-----------------------------------------------------------------------------
(* How often a query reads a data block.                                   *)

\* Listed blocks with a key of the range, and those that a scan is done with.
Hits   == {id \in ToSet(FileMeta.data) : Matches(KeyAt(disk, id))}
Passed == seen \cup (ToSet(FileMeta.data) \ ToSet(scanIds))

\* Only a block of the range is more than once in the queue: in its place and
\* behind the block that links to it.
Repeats(s, H) == \A i, j \in DOMAIN s : s[i] = s[j] => i = j \/ s[i] \in H
ScanCounts ==
  /\ ToSet(scanIds) \subseteq ToSet(FileMeta.data)
  /\ seen \subseteq Hits /\ Hits \subseteq seen \cup ToSet(scanIds)
  /\ Repeats(scanIds, Hits)
  /\ reads.data = Cardinality(Passed)
CountInv ==
  /\ reads \in [data : Nat, btree : Nat]
  /\ pc \in {"closed", "query"} => reads = NoReads
  /\ pc = "query" => base = Count(meta)
  /\ call.op = "range" => reads.data = Cardinality(seen)
  /\ call.op = "scan" => ScanCounts

\* What repeats in a queue without its head.
LEMMA TailRepeats ==
  ASSUME NEW S, NEW s \in Seq(S), s # <<>>, NEW H, Repeats(s, H)
  PROVE  Repeats(Tail(s), H) /\ (Head(s) \notin H => Head(s) \notin ToSet(Tail(s)))
<1>1. /\ Tail(s) \in Seq(S) /\ Head(s) = s[1]
      /\ DOMAIN s = 1..Len(s) /\ Len(s) \in Nat /\ Len(s) > 0
      /\ DOMAIN Tail(s) = 1..Len(s) - 1
      /\ \A i \in 1..Len(s) - 1 : Tail(s)[i] = s[i + 1]
  BY SMT
<1>2. /\ 1 \in 1..Len(s)
      /\ \A i \in 1..Len(s) - 1 : i + 1 \in 1..Len(s) /\ i + 1 # 1
      /\ \A i, j \in 1..Len(s) - 1 : i + 1 = j + 1 => i = j
  BY <1>1, SMT
<1>3. Repeats(Tail(s), H)
  BY <1>1, <1>2 DEF Repeats
<1>4. ASSUME Head(s) \in ToSet(Tail(s)) PROVE Head(s) \in H
  <2>1. PICK i \in 1..Len(s) - 1 : s[i + 1] = s[1]
    BY <1>1, <1>4 DEF ToSet
  <2> QED BY <1>1, <1>2, <2>1 DEF Repeats
<1> QED BY <1>3, <1>4

\* A block of the range may join it again.
LEMMA AppendRepeats ==
  ASSUME NEW S, NEW s \in Seq(S), NEW H, Repeats(s, H), NEW x \in S, x \in H
  PROVE  Repeats(Append(s, x), H)
<1>1. /\ Append(s, x) \in Seq(S) /\ DOMAIN s = 1..Len(s) /\ Len(s) \in Nat
      /\ DOMAIN Append(s, x) = 1..Len(s) + 1
      /\ Append(s, x)[Len(s) + 1] = x
      /\ \A i \in 1..Len(s) : Append(s, x)[i] = s[i]
  BY SMT
<1>2. \A i \in 1..Len(s) + 1 : i \in 1..Len(s) \/ i = Len(s) + 1
  BY <1>1, SMT
<1> QED BY <1>1, <1>2 DEF Repeats

\* Sets of blocks are finite: their elements are counted one by one.
LEMMA CountOneMore ==
  ASSUME NEW S, S \subseteq BlockIds, NEW x, x \in BlockIds, x \notin S
  PROVE  Cardinality(S) \in Nat /\ Cardinality(S \cup {x}) = Cardinality(S) + 1
<1>1. IsFiniteSet(BlockIds)
  BY BlocksAssumption, FS_Interval, SMT DEF BlockIds
<1>2. IsFiniteSet(S)
  BY <1>1, FS_Subset
<1> QED BY <1>2, FS_AddElement, FS_CardinalityType

\* The file stands still under a query.
LEMMA QueryLeavesFile ==
  ASSUME DataInv, pc \in {"query", "lookup", "scan", "done"}, Fetch \/ UNCHANGED storeVars
  PROVE  disk' = disk /\ header' = header /\ meta' = meta /\ base' = base /\ FileMeta' = FileMeta
<1>1. pending = NoWrite
  BY DEF DataInv, QueryInv
<1>2. disk' = disk /\ meta' = meta /\ header' = header /\ base' = base
  BY <1>1 DEF Fetch, Apply, HeaderAfter, DiskAfter, NoWrite, storeVars
<1> QED BY <1>2 DEF FileMeta

\* Listed blocks are ids.
LEMMA ListedIds ==
  ASSUME DataInv
  PROVE  ToSet(FileMeta.data) \subseteq BlockIds
<1>1. IInv
  BY DEF DataInv
<1> QED BY <1>1, FileDataIsOld

\* The block at the head of a scan's queue.
LEMMA ScannedBlock ==
  ASSUME DataInv, FileIsChained, ScanCounts, TypeInv, pc = "scan", scanIds # <<>>,
         NEW x, x = Head(scanIds)
  PROVE  /\ x \in ToSet(FileMeta.data) /\ x \in BlockIds /\ DataAt(x) = disk[x]
         /\ DataKey(DataAt(x)) = KeyAt(disk, x)
         /\ ToSet(scanIds) = {x} \cup ToSet(Tail(scanIds)) /\ Tail(scanIds) \in Seq(BlockIds)
<1> PICK s : s = scanIds
  OBVIOUS
<1>1. s \in Seq(BlockIds) /\ s # <<>>
  BY DEF TypeInv, LookupInv
<1>2. ToSet(s) = {x} \cup ToSet(Tail(s)) /\ x \in BlockIds /\ Tail(s) \in Seq(BlockIds)
  BY <1>1, HeadOrTail, TailOnce
<1>3. x \in ToSet(FileMeta.data)
  BY <1>2 DEF ScanCounts
<1>4. IsData(disk[x]) /\ disk[x].records # <<>>
  BY <1>3 DEF FileIsChained, Chained
<1>5. DataAt(x) = disk[x]
  <2>1. Content(x) = disk[x]
    BY DEF DataInv, QueryInv, Content, DiskAfter, NoWrite
  <2> QED BY <1>4, <2>1 DEF DataAt, IsData
<1> PICK t : t = OnDisk(x)
  OBVIOUS
<1>6. t = disk[x].records /\ t # <<>>
  BY <1>4 DEF OnDisk, RecordsOf
<1>7. t \in Seq(Rows)
  BY <1>2, <1>6 DEF DataInv, FileInv, OneKey
<1>8. Head(t) = t[1]
  BY <1>6, <1>7, SMT
<1>9. DataKey(DataAt(x)) = KeyAt(disk, x)
  BY <1>5, <1>6, <1>8 DEF DataKey, KeyAt
<1> QED BY <1>2, <1>3, <1>5, <1>9
-----------------------------------------------------------------------------
(* The counts of a scan.                                                   *)

\* A scan begins with every listed block.
LEMMA AskScanCounts ==
  ASSUME DataInv, TypeInv, Tidy, CountInv, AskScan
  PROVE  CountInv'
<1>1. /\ pc = "query" /\ pc' = "scan" /\ call'.op = "scan" /\ UNCHANGED storeVars /\ reads' = reads
      /\ scanIds' = meta.data /\ seen' = seen /\ seen = {}
  BY DEF AskScan, DataInv, QueryInv
<1>2. disk' = disk /\ FileMeta' = FileMeta
  BY <1>1, QueryLeavesFile
<1>3. ToSet(meta.data) = ToSet(FileMeta.data)
  <2>1. OldIsAll
    BY AllAreOld
  <2>2. open /\ base = Count(meta) /\ IInv
    BY <1>1 DEF CountInv, DataInv, TypeInv, ProcInv
  <2> QED BY <2>1, <2>2 DEF OldIsAll, Tidy
<1>4. reads = NoReads /\ reads \in [data : Nat, btree : Nat]
  BY <1>1 DEF CountInv
<1>5. reads'.data = Cardinality(Passed)'
  <2>1. ToSet(scanIds') = ToSet(FileMeta'.data) /\ seen' = {} /\ reads' = NoReads
    BY <1>1, <1>2, <1>3, <1>4
  <2>2. Passed' = {}
    BY <2>1 DEF Passed
  <2>3. Cardinality({}) = 0
    BY FS_EmptySet
  <2> QED BY <2>1, <2>2, <2>3 DEF NoReads
<1>6. Repeats(scanIds, Hits)'
  BY <1>1 DEF Tidy, Once, Repeats
<1>7. ScanCounts'
  BY <1>1, <1>2, <1>3, <1>5, <1>6 DEF ScanCounts, Hits
<1> QED BY <1>1, <1>4, <1>7 DEF CountInv

\* A block that was seen is not read.
LEMMA SkipSeenCounts ==
  ASSUME DataInv, FileIsChained, TypeInv, CountInv, SkipSeen
  PROVE  CountInv'
<1> PICK x : x = Head(scanIds)
  OBVIOUS
<1>1. /\ pc = "scan" /\ pc' = "scan" /\ call' = call /\ UNCHANGED storeVars /\ scanIds # <<>>
      /\ x \in seen /\ scanIds' = Tail(scanIds) /\ seen' = seen /\ reads' = reads
  BY DEF SkipSeen, Seen, treeVars
<1>2. disk' = disk /\ FileMeta' = FileMeta
  BY <1>1, QueryLeavesFile
<1>3. ASSUME ScanCounts PROVE ScanCounts'
  <2>1. /\ x \in ToSet(FileMeta.data) /\ ToSet(scanIds) = {x} \cup ToSet(Tail(scanIds))
        /\ scanIds \in Seq(BlockIds)
    BY <1>1, <1>3, ScannedBlock DEF TypeInv, LookupInv
  <2>2. Hits' = Hits
    BY <1>1, <1>2 DEF Hits, Matches
  <2>3. Repeats(scanIds', Hits)
    BY <1>1, <1>3, <2>1, TailRepeats DEF ScanCounts
  <2>4. Passed' = Passed
    BY <1>1, <1>2, <2>1 DEF Passed
  <2> QED BY <1>1, <1>2, <1>3, <2>1, <2>2, <2>3, <2>4 DEF ScanCounts
<1> QED BY <1>1, <1>3 DEF CountInv

\* A block out of the range is not met again.
LEMMA SkipBlockCounts ==
  ASSUME DataInv, FileIsChained, TypeInv, CountInv, SkipBlock, call.op # "range"
  PROVE  CountInv'
<1> PICK x : x = Head(scanIds)
  OBVIOUS
<1>1. /\ pc = "scan" /\ pc' = "scan" /\ call' = call /\ Fetch /\ scanIds # <<>> /\ x \notin seen
      /\ ~Matches(DataKey(DataAt(x))) /\ scanIds' = Tail(scanIds) /\ seen' = seen
      /\ reads' = [reads EXCEPT !.data = @ + 1]
  BY DEF SkipBlock, ReadData, Seen
<1>2. disk' = disk /\ FileMeta' = FileMeta
  BY <1>1, QueryLeavesFile
<1>3. reads \in [data : Nat, btree : Nat]
  BY DEF CountInv
<1>4. reads'.data = reads.data + 1 /\ reads' \in [data : Nat, btree : Nat]
  BY <1>1, <1>3
<1>5. ASSUME ScanCounts PROVE ScanCounts'
  <2>1. /\ x \in ToSet(FileMeta.data) /\ ToSet(scanIds) = {x} \cup ToSet(Tail(scanIds))
        /\ scanIds \in Seq(BlockIds) /\ DataKey(DataAt(x)) = KeyAt(disk, x) /\ x \in BlockIds
    BY <1>1, <1>5, ScannedBlock DEF TypeInv, LookupInv
  <2>2. Hits' = Hits /\ x \notin Hits
    BY <1>1, <1>2, <2>1 DEF Hits, Matches
  <2>3. Repeats(scanIds', Hits) /\ x \notin ToSet(scanIds')
    BY <1>1, <1>5, <2>1, <2>2, TailRepeats DEF ScanCounts
  <2>4. Passed' = Passed \cup {x} /\ x \notin Passed
    BY <1>1, <1>2, <2>1, <2>3 DEF Passed
  <2>5. Passed \subseteq BlockIds
    BY <1>5, ListedIds DEF ScanCounts, Hits, Passed
  <2>6. Cardinality(Passed') = Cardinality(Passed) + 1
    BY <2>1, <2>4, <2>5, CountOneMore
  <2>7. Hits \subseteq seen' \cup ToSet(scanIds')
    BY <1>1, <1>5, <2>1, <2>2 DEF ScanCounts
  <2> QED BY <1>1, <1>2, <1>4, <1>5, <2>1, <2>2, <2>3, <2>6, <2>7 DEF ScanCounts
<1> QED BY <1>1, <1>4, <1>5 DEF CountInv

\* A block of the range brings the block it links to, which is of the range too.
LEMMA TakeBlockCounts ==
  ASSUME DataInv, FileIsChained, TypeInv, CountInv, TakeBlock
  PROVE  CountInv'
<1> PICK x : x = Head(scanIds)
  OBVIOUS
<1>1. /\ pc = "scan" /\ pc' = "scan" /\ call' = call /\ Fetch /\ scanIds # <<>> /\ x \notin seen
      /\ Matches(DataKey(DataAt(x))) /\ seen' = seen \cup {x}
      /\ reads' = [reads EXCEPT !.data = @ + 1]
      /\ scanIds' = Tail(scanIds) \o (IF DataAt(x).next = BlockNull THEN <<>> ELSE <<DataAt(x).next>>)
  BY DEF TakeBlock, ReadData, Seen
<1>2. disk' = disk /\ FileMeta' = FileMeta
  BY <1>1, QueryLeavesFile
<1>3. reads \in [data : Nat, btree : Nat]
  BY DEF CountInv
<1>4. reads'.data = reads.data + 1 /\ reads' \in [data : Nat, btree : Nat]
  BY <1>1, <1>3
<1>5. ASSUME call.op = "range" PROVE reads'.data = Cardinality(seen')
  <2>1. seen \subseteq BlockIds /\ x \in BlockIds
    <3>1. scanIds \in Seq(BlockIds)
      BY DEF TypeInv, LookupInv
    <3> QED BY <1>1, <3>1, TailOnce DEF DataInv, QueryInv
  <2> QED BY <1>1, <1>4, <1>5, <2>1, CountOneMore DEF CountInv
<1>6. ASSUME ScanCounts PROVE ScanCounts'
  <2> PICK next, t : next = disk[x].next /\ t = Tail(scanIds)
    OBVIOUS
  <2>1. /\ x \in ToSet(FileMeta.data) /\ ToSet(scanIds) = {x} \cup ToSet(t) /\ t \in Seq(BlockIds)
        /\ scanIds \in Seq(BlockIds) /\ DataKey(DataAt(x)) = KeyAt(disk, x) /\ x \in BlockIds
        /\ DataAt(x) = disk[x]
    BY <1>1, <1>6, ScannedBlock DEF TypeInv, LookupInv
  <2>2. Hits' = Hits /\ x \in Hits
    BY <1>1, <1>2, <2>1 DEF Hits, Matches
  <2>3. next # BlockNull => next \in Hits
    BY <2>1, <2>2 DEF FileIsChained, Chained, Hits
  <2>4. Repeats(t, Hits)
    BY <1>1, <1>6, <2>1, TailRepeats DEF ScanCounts
  <2>5. /\ ToSet(scanIds') = ToSet(t) \cup (IF next = BlockNull THEN {} ELSE {next})
        /\ Repeats(scanIds', Hits)
    <3>1. CASE next = BlockNull
      <4>1. t \o <<>> = t
        BY <2>1, SMT
      <4> QED BY <1>1, <2>1, <2>4, <3>1, <4>1
    <3>2. CASE next # BlockNull
      <4>1. next \in BlockIds /\ next \in Hits
        BY <2>3, <3>2, ListedIds DEF Hits
      <4> PICK u : u = t \o <<next>>
        OBVIOUS
      <4>2. u = Append(t, next)
        BY <2>1, <4>1, SMT
      <4>3. ToSet(u) = ToSet(t) \cup {next} /\ Repeats(u, Hits)
        <5> PICK H : H = Hits
          OBVIOUS
        <5>1. t \in Seq(BlockIds) /\ Repeats(t, H) /\ next \in BlockIds /\ next \in H
          BY <2>1, <2>4, <4>1
        <5>2. ToSet(Append(t, next)) = ToSet(t) \cup {next}
          BY <4>2, <5>1, LinkQueued
        <5>3. Repeats(Append(t, next), H)
          BY <5>1, AppendRepeats
        <5> QED BY <4>2, <5>2, <5>3
      <4>4. scanIds' = u
        BY <1>1, <2>1, <3>2
      <4> QED BY <3>2, <4>3, <4>4
    <3> QED BY <3>1, <3>2
  <2>6. Hits \subseteq ToSet(FileMeta.data)
    BY DEF Hits
  <2>7. /\ ToSet(scanIds') \subseteq ToSet(FileMeta.data) /\ seen' \subseteq Hits
        /\ Hits \subseteq seen' \cup ToSet(scanIds')
    BY <1>1, <1>6, <2>1, <2>2, <2>3, <2>5, <2>6 DEF ScanCounts
  <2>8. Passed' = Passed \cup {x} /\ x \notin Passed
    <3>1. next # BlockNull => next \in seen \cup ToSet(scanIds)
      BY <1>6, <2>3 DEF ScanCounts
    <3>2. Passed' = (seen \cup {x}) \cup (ToSet(FileMeta.data) \ ToSet(scanIds'))
      BY <1>1, <1>2 DEF Passed
    <3> QED BY <1>1, <2>1, <2>5, <3>1, <3>2 DEF Passed
  <2>9. Passed \subseteq BlockIds
    BY <1>6, <2>6, ListedIds DEF ScanCounts, Passed
  <2>10. Cardinality(Passed') = Cardinality(Passed) + 1
    BY <2>1, <2>8, <2>9, CountOneMore
  <2> QED BY <1>2, <1>4, <1>6, <2>2, <2>5, <2>7, <2>10 DEF ScanCounts
<1> QED BY <1>1, <1>4, <1>5, <1>6 DEF CountInv

\* The lookup reads nodes only.
LEMMA LookupCounts ==
  ASSUME CountInv, RangeInv, AskIndex \/ LookupStep \/ LookupReturns, DataInv
  PROVE  CountInv'
<1>1. CASE AskIndex
  <2>1. /\ call'.op = "range" /\ reads' = NoReads /\ pc' = "lookup" /\ seen' = seen /\ seen = {}
    BY <1>1 DEF AskIndex, StartCall, queryVars, DataInv, QueryInv
  <2>2. Cardinality({}) = 0
    BY FS_EmptySet
  <2> QED BY <2>1, <2>2 DEF CountInv, NoReads
<1>2. CASE LookupStep
  <2>1. /\ pc = "lookup" /\ pc' = "lookup" /\ call' = call /\ seen' = seen
        /\ reads' = [reads EXCEPT !.btree = @ + 1]
    BY <1>2 DEF LookupStep, CallStep, Descend, ReachLeaf, NextLeafOfRange, ReadNode, queryVars
  <2>2. call.op = "range"
    BY <2>1 DEF RangeInv
  <2>3. reads'.data = reads.data /\ reads' \in [data : Nat, btree : Nat]
    BY <2>1 DEF CountInv
  <2> QED BY <2>1, <2>2, <2>3 DEF CountInv
<1>3. CASE LookupReturns
  <2>1. pc = "lookup" /\ pc' = "scan" /\ call' = call /\ seen' = seen /\ reads' = reads
    BY <1>3 DEF LookupReturns, treeVars
  <2>2. call.op = "range"
    BY <2>1 DEF RangeInv
  <2> QED BY <2>1, <2>2 DEF CountInv
<1> QED BY <1>1, <1>2, <1>3

\* An answer reads nothing.
LEMMA StillCounts ==
  ASSUME CountInv, UNCHANGED vars \/ Answer
  PROVE  CountInv'
<1>1. /\ UNCHANGED <<header, disk, meta, base, scanIds, seen, call, reads>>
      /\ pc' \in {"closed", "query"} => pc' = pc
  BY DEF vars, storeVars, treeVars, queryVars, Answer
<1>2. FileMeta' = FileMeta /\ Hits' = Hits
  BY <1>1 DEF FileMeta, Hits, Matches
<1>3. ScanCounts' <=> ScanCounts
  BY <1>1, <1>2 DEF ScanCounts, Passed
<1>4. Count(meta') = Count(meta)
  BY <1>1
<1> QED BY <1>1, <1>3, <1>4 DEF CountInv

\* Every step keeps the counts.
LEMMA NextCounts ==
  ASSUME DataInv, ScanInv, TypeInv, TreeInv, RangeInv, Tidy, FileIsChained, CountInv, [Next]_vars
  PROVE  CountInv'
<1>1. CASE AskScan
  BY <1>1, AskScanCounts
<1>2. CASE AskIndex \/ LookupStep \/ LookupReturns
  BY <1>2, LookupCounts
<1>3. CASE SkipSeen \/ SkipBlock \/ TakeBlock
  BY <1>3, SkipSeenCounts, SkipBlockCounts, TakeBlockCounts, SkipBlockRange
<1>4. CASE UNCHANGED vars \/ Answer
  BY <1>4, StillCounts
<1>5. CASE AtEnd
  <2>1. pc' = "closed" /\ call' = NoCall /\ reads' = NoReads
    BY <1>5 DEF AtEnd, ReadRowThrows, PrintRootThrows, LookupFails, ReadDataFails, Exit, Ends,
       Dies, Gone, TreeReset
  <2> QED BY <2>1 DEF CountInv, NoCall, NoReads
<1>6. CASE \/ OpenToLoad \/ OpenToQuery \/ StartLoad \/ ReadRow \/ TableRead \/ PrintRoot
           \/ InsertData \/ StartIndex \/ IndexStep \/ Persist \/ Flush
  <2>1. /\ call' = call /\ pc \notin {"lookup", "scan", "done"} /\ pc' # "closed"
        /\ reads' = reads \/ reads' = [reads EXCEPT !.btree = @ + 1]
        /\ pc' = "query" => pc = "closed" /\ base' = Count(meta') /\ reads' = reads
    <3>1. CASE \/ OpenToLoad \/ OpenToQuery \/ StartLoad \/ ReadRow \/ TableRead \/ PrintRoot
               \/ InsertData \/ StartIndex \/ Persist \/ Flush
      BY <3>1 DEF OpenToLoad, OpenToQuery, StartLoad, ReadRow, TableRead, PrintRoot, InsertData,
         StartIndex, BulkLoad, Persist, Flush, treeVars, callVars, Open
    <3>2. CASE IndexStep
      BY <3>2 DEF IndexStep, LoadStep, NewLeaf, LinkLeaf, FillLeaf, NewInternal, FillInternal, Fill,
         NextLevel, RootDone, callVars
    <3> QED BY <1>6, <3>1, <3>2
  <2>2. call.op # "range" /\ call.op # "scan"
    BY <2>1 DEF RangeInv, ScanInv
  <2>3. reads' \in [data : Nat, btree : Nat]
    BY <2>1 DEF CountInv
  <2> QED BY <2>1, <2>2, <2>3 DEF CountInv
<1> QED BY <1>1, <1>2, <1>3, <1>4, <1>5, <1>6, NextCases DEF InMemory, Reading

\* The blocks that an index query takes records from are those with records of
\* the range in the tree of the file.
LEMMA MatchingAreKeyBlocks ==
  ASSUME FileInv, <<call.begin, call.end>> \in Ranges,
         NEW f, NEW D, ChainFits(D, f, disk), D \subseteq ToSet(FileMeta.data),
         ToSet(FileMeta.data) \subseteq BlockIds, Indexed = InBlocks(D)
  PROVE  KeyBlocks(D, AllTo(f, call.begin, call.end)) = MatchingBlocks(Indexed)
<1> PICK K : K = AllTo(f, call.begin, call.end)
  OBVIOUS
<1>1. \A id : RecordsIn(id) = ToSet(OnDisk(id))
  BY NothingOnce DEF RecordsIn, OnDisk, RecordsOf, IsData
<1>2. Matching(Indexed) = InBlocks(KeyBlocks(D, K))
  BY RangeOfBlocks
<1>3. ASSUME NEW id \in KeyBlocks(D, K) PROVE id \in MatchingBlocks(Indexed)
  <2>1. id \in D /\ id \in ToSet(FileMeta.data)
    BY <1>3 DEF KeyBlocks
  <2>2. PICK r \in ToSet(OnDisk(id)) : TRUE
    BY <2>1, RecordsHaveKey
  <2>3. r \in Matching(Indexed) /\ r \in RecordsIn(id)
    BY <1>1, <1>2, <1>3, <2>2 DEF InBlocks
  <2> QED BY <2>1, <2>3 DEF MatchingBlocks
<1>4. ASSUME NEW id \in MatchingBlocks(Indexed) PROVE id \in KeyBlocks(D, K)
  <2>1. id \in BlockIds
    BY <1>4 DEF MatchingBlocks
  <2>2. PICK r : r \in RecordsIn(id) /\ r \in Matching(Indexed)
    BY <1>4 DEF MatchingBlocks
  <2>3. PICK i \in KeyBlocks(D, K) : r \in ToSet(OnDisk(i))
    BY <1>2, <2>2 DEF InBlocks
  <2>4. i \in BlockIds
    BY <2>3 DEF KeyBlocks, ChainFits
  <2>5. i = id
    BY <1>1, <2>1, <2>2, <2>3, <2>4 DEF FileInv, Apart
  <2> QED BY <2>3, <2>5
<1> QED BY <1>3, <1>4

\* When the queue is empty the counts are those of the blocks.
LEMMA EachIsReadOnce ==
  ASSUME DataInv, ScanInv, TypeInv, TreeInv, RangeInv, CountInv
  PROVE  QueriesReadEachBlockOnce
<1>1. ASSUME pc = "done", call.op = "scan"
      PROVE  reads.data = Cardinality(ToSet(FileMeta.data))
  <2>1. scanIds = <<>> /\ ScanCounts
    BY <1>1 DEF ScanInv, CountInv
  <2>2. Passed = ToSet(FileMeta.data)
    BY <2>1, NothingOnce DEF ScanCounts, Passed, Hits
  <2> QED BY <2>1, <2>2 DEF ScanCounts
<1>2. ASSUME pc = "done", call.op = "range"
      PROVE  reads.data = IF records = <<>> THEN 0 ELSE Cardinality(MatchingBlocks(Indexed))
  <2>1. reads.data = Cardinality(seen) /\ <<call.begin, call.end>> \in Ranges /\ FileInv
    BY <1>2 DEF CountInv, RangeInv, DataInv
  <2>2. Cardinality({}) = 0
    BY FS_EmptySet
  <2>3. CASE ~Rooted(FileMeta)
    <3>1. records = <<>> /\ seen = {}
      BY <1>2, <2>3 DEF RangeInv, NoTree
    <3> QED BY <2>1, <2>2, <3>1
  <2>4. CASE Rooted(FileMeta)
    <3>1. PICK g, h, D : Serves(FileMeta, g, h, D, disk) /\ Querying(g, h, D)
      BY <1>2, <2>4 DEF RangeInv
    <3>2. PICK K : Scanning(g.map, D, K)
      BY <1>2, <3>1 DEF Querying
    <3>3. /\ seen = KeyBlocks(D, K) /\ ToSet(records) = InBlocks(seen) /\ Indexed = InBlocks(D)
          /\ records # <<>> => K = AllTo(g.map, call.begin, call.end)
      BY <1>2, <3>1, <3>2, RangeIsAnswered
    <3>4. ChainFits(D, g.map, disk) /\ D \subseteq ToSet(FileMeta.data)
      BY <3>1 DEF Serves
    <3>5. CASE records = <<>>
      <4>1. seen = {}
        <5> SUFFICES ASSUME NEW id \in seen PROVE FALSE
          OBVIOUS
        <5>1. id \in D
          BY <3>3 DEF KeyBlocks
        <5>2. PICK r \in ToSet(OnDisk(id)) : TRUE
          BY <2>1, <3>4, <5>1, RecordsHaveKey
        <5>3. r \in ToSet(records)
          BY <3>3, <5>2 DEF InBlocks
        <5> QED BY <3>5, <5>3, NothingOnce
      <4> QED BY <2>1, <2>2, <3>5, <4>1
    <3>6. CASE records # <<>>
      <4>1. KeyBlocks(D, AllTo(g.map, call.begin, call.end)) = MatchingBlocks(Indexed)
        BY <2>1, <3>3, <3>4, ListedIds, MatchingAreKeyBlocks
      <4> QED BY <2>1, <3>3, <3>6, <4>1
    <3> QED BY <3>5, <3>6
  <2> QED BY <2>3, <2>4
<1> QED BY <1>1, <1>2 DEF QueriesReadEachBlockOnce

\* The counts are kept while the metadata block is whole and its sizes are never
\* read from an empty file as anything but zeros.
LEMMA CountsKept ==
  ASSUME MetaFits, ~TornMeta, StaleMax = 0
  PROVE  Spec => [](DataInv /\ ScanInv /\ TypeInv /\ TreeInv /\ RangeInv /\ CountInv)
<1>1. Init => Tidy /\ FileIsChained /\ CountInv
  <2> SUFFICES ASSUME Init PROVE Tidy /\ FileIsChained /\ CountInv
    OBVIOUS
  <2>1. IInv /\ header = <<>> /\ ~open /\ meta = FreshMeta
    BY InitInv DEF Init, StoreInit
  <2>2. Once(FreshMeta.data)
    BY FreshFacts, NoneBelow
  <2>3. IdsOf(FileMeta) = {} /\ Once(FileMeta.data)
    <3>1. FileCount = 0
      BY <2>1 DEF FileCount, Word
    <3>2. FileMeta \in MetaType /\ \A x \in IdsOf(FileMeta) : x < FileCount
      BY <2>1, InvFacts, DecodeLemma DEF FileMeta
    <3> QED BY <3>1, <3>2, NoneBelow
  <2>4. Tidy /\ FileIsChained
    BY <2>1, <2>2, <2>3 DEF Tidy, FileIsChained, Chained, IdsOf
  <2>5. CountInv
    BY DEF Init, TreeInit, NoReads, NoCall, CountInv
  <2> QED BY <2>4, <2>5
<1>2. /\ DataInv /\ DataInv' /\ ScanInv /\ TypeInv /\ TreeInv /\ RangeInv /\ LoadInv
      /\ Tidy /\ FileIsChained /\ CountInv /\ [Next]_vars
      => Tidy' /\ FileIsChained' /\ CountInv'
  <2> SUFFICES ASSUME DataInv, DataInv', ScanInv, TypeInv, TreeInv, RangeInv, LoadInv,
                      Tidy, FileIsChained, CountInv, [Next]_vars
               PROVE  Tidy' /\ FileIsChained' /\ CountInv'
    OBVIOUS
  <2>1. IInv /\ IInv' /\ StoreStep
    BY NextBuilds DEF DataInv
  <2> QED BY <2>1, StoreStepTidy, NextChained, NextCounts
<1> QED BY RangeKept, TreeKeptBySteps, <1>1, <1>2, PTL DEF Spec

\* database.h:19, "Utilise index to reduce blocks scanned": a query with the index
\* reads the blocks it takes records from and no other, and a scan every listed
\* block, each once, if an empty file is never read as one with sizes.
THEOREM EachBlockIsReadOnce ==
  ASSUME MetaFits, ~TornMeta, StaleMax = 0 PROVE Spec => []QueriesReadEachBlockOnce
<1>1. DataInv /\ ScanInv /\ TypeInv /\ TreeInv /\ RangeInv /\ CountInv => QueriesReadEachBlockOnce
  BY EachIsReadOnce
<1> QED BY CountsKept, <1>1, PTL
=============================================================================
