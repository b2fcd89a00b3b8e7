--------------------------- MODULE DatabaseProofs ---------------------------
(***************************************************************************)
(* Proofs about project1's program, for every value of the constants: what *)
(* a load writes and what a query answers, whatever processes came before, *)
(* ended or died.                                                          *)
(***************************************************************************)
EXTENDS Database, IndexProofs

-----------------------------------------------------------------------------
(* The program as a client of the store.                                   *)

\* The blocks that the process inserted and has not persisted.
Own == base..Count(meta) - 1

\* What a client of the store does that updates its own blocks only.
StoreStep ==
  \/ UNCHANGED storeVars
  \/ Open
  \/ \E block : Insert(block)
  \/ \E id \in Own : \E block : Update(id, block)
  \/ \E id \in BlockIds : SetRoot(id)
  \/ Fetch \/ PersistWrite \/ PersistFlush \/ Close \/ Crash

LEMMA StoreStepInv == ASSUME IInv, StoreStep PROVE IInv'
<1>1. CASE UNCHANGED storeVars
  BY <1>1, StutterInv
<1>2. CASE Open
  BY <1>2, OpenInv
<1>3. CASE \E block : Insert(block)
  BY <1>3, InsertInv
<1>4. CASE \E id \in Own : \E block : Update(id, block)
  BY <1>4, UpdateInv DEF Own
<1>5. CASE \E id \in BlockIds : SetRoot(id)
  BY <1>5, SetRootInv
<1>6. CASE Fetch \/ PersistWrite
  BY <1>6, FetchInv
<1>7. CASE PersistFlush
  BY <1>7, FlushInv
<1>8. CASE Close \/ Crash
  BY <1>8, EndInv
<1> QED BY <1>1, <1>2, <1>3, <1>4, <1>5, <1>6, <1>7, <1>8 DEF StoreStep

\* bulk_load's locals name blocks of its own, and what it has in its hands is a
\* tree node.  There is nothing in its hands outside of it.
IsNode(n) == "kind" \in DOMAIN n /\ n.kind = "btree"
BuildInv ==
  /\ nodeId # BlockNull =>
       pc = "index" /\ phase \in {"leaf", "internal"} /\ nodeId \in Own /\ IsNode(node)
  /\ nodeId = BlockNull => node = NoNode
  /\ nextLeaf # NoId =>
       phase = "leaf" /\ work # <<>> /\ nodeId # BlockNull /\ nextLeaf \in Own
  /\ \E K : propagate \in Seq(K \X BlockIds)

\* A block that is inserted is the process's own, like those before it.
LEMMA InsertOwns ==
  ASSUME IInv, NEW block, Insert(block)
  PROVE  /\ NewId(meta) \in Own' /\ Own \subseteq Own'
         /\ NewId(meta) \in BlockIds \ {BlockNull, NoId}
<1> DEFINE c == Count(meta)
           d == Count(meta')
<1>1. /\ meta \in MetaType /\ c \in Nat /\ c < MaxBlocks /\ base <= c /\ base \in Nat
      /\ \A id \in IdsOf(meta) : id < c
  BY InvFacts DEF Insert, Ready, IInv, StoreInv, BaseBetweenCounts
<1>2. c < BlockNull
  <2>1. c \in Nat /\ c < MaxBlocks
    BY <1>1
  <2> HIDE DEF c
  <2> QED BY <2>1, BlocksAssumption, DiskStoreAssumption, SMT
<1>3. NewId(meta) = c /\ d = c + 1
  BY <1>1, <1>2, RegisterLemma DEF Insert
<1>4. base' = base
  BY DEF Insert
<1>5. Own = base..c - 1 /\ Own' = base'..d - 1
  BY DEF Own
<1>6. c \in Nat /\ base \in Nat /\ base <= c
  BY <1>1
<1> HIDE DEF c, d
<1> QED BY <1>2, <1>3, <1>4, <1>5, <1>6, BlocksAssumption, SMT DEF BlockIds, NoId

LEMMA NodeFacts ==
  /\ IsNode(EmptyNode(TRUE)) /\ IsNode(EmptyNode(FALSE)) /\ ~IsNode(NoNode)
  /\ \A n : IsNode(n) => n # NoNode
  BY DEF IsNode, EmptyNode, NoNode

\* Filling and linking a node leaves it one.
LEMMA NodeStaysNode ==
  ASSUME NEW n, IsNode(n), NEW k, NEW p
  PROVE  IsNode(NodeInsert(n, k, p)) /\ IsNode(LinkTo(n, p))
  BY DEF IsNode, NodeInsert, LeafInsert, InternalInsert, LinkTo

LEMMA PairsAppend ==
  ASSUME NEW p, \E K : p \in Seq(K \X BlockIds), NEW k, NEW id \in BlockIds
  PROVE  \E K : Append(p, <<k, id>>) \in Seq(K \X BlockIds)
<1>1. PICK K : p \in Seq(K \X BlockIds)
  OBVIOUS
<1> DEFINE L == K \cup {k}
           S == K \X BlockIds
           T == L \X BlockIds
<1>2. S \subseteq T /\ <<k, id>> \in T
  OBVIOUS
<1>3. p \in Seq(S)
  BY <1>1
<1> HIDE DEF S, T
<1>4. p \in Seq(T)
  BY <1>2, <1>3, SeqMonotonic
<1>5. Append(p, <<k, id>>) \in Seq(T)
  BY <1>2, <1>4, AppendProperties
<1> QED BY <1>5 DEF T

LEMMA NoPairs == \E K : <<>> \in Seq(K \X BlockIds)
<1> DEFINE S == {} \X BlockIds
<1>1. <<>> \in Seq(S)
  BY EmptySeq
<1> QED BY <1>1

\* A step of bulk_load inserts a block, updates one of its own, sets the root,
\* or works in memory.
LEMMA LoadStepBuilds ==
  ASSUME IInv, BuildInv, pc = "index", pc' = "index", LoadStep
  PROVE  BuildInv' /\ StoreStep
<1>1. CASE NewLeaf
  <2>1. Insert(EmptyNode(TRUE))
    BY <1>1 DEF NewLeaf
  <2>2. /\ NewId(meta) \in Own' /\ Own \subseteq Own'
        /\ NewId(meta) \in BlockIds \ {BlockNull, NoId}
    BY <2>1, InsertOwns
  <2>3. \E K : propagate' \in Seq(K \X BlockIds)
    BY <1>1, <2>2, PairsAppend DEF NewLeaf, BuildInv
  <2>4. BuildInv'
    <3>1. CASE nodeId = BlockNull
      BY <1>1, <2>2, <2>3, <3>1, NodeFacts DEF NewLeaf, BuildInv
    <3>2. CASE nodeId # BlockNull
      BY <1>1, <2>2, <2>3, <3>2 DEF NewLeaf, BuildInv
    <3> QED BY <3>1, <3>2
  <2> QED BY <2>1, <2>4 DEF StoreStep
<1>2. CASE LinkLeaf
  <2>1. nodeId # BlockNull /\ nodeId \in Own /\ nextLeaf \in Own
    BY <1>2 DEF LinkLeaf, BuildInv
  <2>2. Update(nodeId, LinkTo(node, nextLeaf)) /\ Own' = Own
    BY <1>2 DEF LinkLeaf, Update, Own
  <2>3. nextLeaf # BlockNull
    <3>1. Count(meta) \in Nat /\ Count(meta) <= BlockNull /\ base \in Nat
      BY InvFacts
    <3> DEFINE c == Count(meta)
    <3>2. nextLeaf \in base..c - 1 /\ c \in Nat /\ c <= BlockNull
      BY <2>1, <3>1 DEF Own
    <3> HIDE DEF c
    <3> QED BY <3>1, <3>2, BlocksAssumption, SMT
  <2>4. BuildInv'
    BY <1>2, <2>1, <2>2, <2>3, NodeFacts DEF LinkLeaf, BuildInv
  <2> QED BY <2>1, <2>2, <2>4 DEF StoreStep
<1>3. CASE FillLeaf \/ FillInternal
  <2>1. node # NoNode /\ Fill /\ phase \in {"leaf", "internal"}
    BY <1>3 DEF FillLeaf, FillInternal, NeedsNode
  <2>2. nodeId # BlockNull /\ nodeId \in Own /\ IsNode(node)
    BY <2>1 DEF BuildInv
  <2>3. Update(nodeId, node') /\ Own' = Own /\ IsNode(node')
    BY <2>1, <2>2, NodeStaysNode DEF Fill, Update, Own
  <2>4. BuildInv'
    BY <2>1, <2>2, <2>3 DEF Fill, BuildInv
  <2> QED BY <2>2, <2>3, <2>4 DEF StoreStep
<1>4. CASE NewInternal
  <2>1. Insert(EmptyNode(FALSE))
    BY <1>4 DEF NewInternal
  <2>2. /\ NewId(meta) \in Own' /\ NewId(meta) \in BlockIds \ {BlockNull, NoId}
    BY <2>1, InsertOwns
  <2>3. \E K : propagate' \in Seq(K \X BlockIds)
    BY <1>4, <2>2, PairsAppend DEF NewInternal, BuildInv
  <2>4. BuildInv'
    BY <1>4, <2>2, <2>3, NodeFacts DEF NewInternal, BuildInv
  <2> QED BY <2>1, <2>4 DEF StoreStep
<1>5. CASE NextLevel
  <2>1. nextLeaf = NoId
    BY <1>5 DEF NextLevel, LevelDone, BuildInv
  <2>2. BuildInv'
    BY <1>5, <2>1, NoPairs DEF NextLevel, BuildInv
  <2> QED BY <1>5, <2>2 DEF NextLevel, StoreStep
<1>6. CASE RootDone
  <2>1. nextLeaf = NoId
    BY <1>6 DEF RootDone, LevelDone, BuildInv
  <2>2. BuildInv'
    BY <1>6, <2>1, NoPairs DEF RootDone, BuildInv
  <2>3. propagate[1][2] \in BlockIds
    <3>1. PICK K : propagate \in Seq(K \X BlockIds)
      BY DEF BuildInv
    <3> DEFINE S == K \X BlockIds
    <3>2. propagate \in Seq(S) /\ Len(propagate) = 1 /\ 1 \in 1..1
      BY <1>6, <3>1 DEF RootDone
    <3> HIDE DEF S
    <3>3. propagate[1] \in S
      BY <3>2, ElementOfSeq
    <3> QED BY <3>3 DEF S
  <2> QED BY <1>6, <2>2, <2>3 DEF RootDone, StoreStep
<1> QED BY <1>1, <1>2, <1>3, <1>4, <1>5, <1>6 DEF LoadStep

\* Outside of bulk_load nothing touches its locals, or they start afresh.
LEMMA BuildIdle ==
  ASSUME BuildInv, pc # "index", UNCHANGED <<node, nodeId, nextLeaf, propagate>>
  PROVE  BuildInv'
  BY DEF BuildInv

LEMMA BuildReset == ASSUME TreeReset PROVE BuildInv'
  BY NoPairs DEF TreeReset, BuildInv

\* Steps that leave the store and the tree alone.
InMemory ==
  \/ StartLoad \/ ReadRow \/ TableRead \/ AskScan \/ LookupReturns \/ SkipSeen \/ Answer
\* Steps in which the process ends or dies.
AtEnd ==
  \/ ReadRowThrows \/ PrintRootThrows \/ LookupFails \/ ReadDataFails \/ Exit \/ Dies
\* Steps that read a block.
Reading == PrintRoot \/ LookupStep \/ SkipBlock \/ TakeBlock

LEMMA NextCases ==
  ASSUME [Next]_vars
  PROVE  \/ OpenToLoad \/ OpenToQuery \/ InMemory \/ AtEnd \/ Reading
         \/ InsertData \/ StartIndex \/ IndexStep \/ Persist \/ Flush \/ AskIndex
         \/ UNCHANGED vars
  BY DEF Next, Step, InMemory, AtEnd, Reading

LEMMA NextBuilds ==
  ASSUME IInv, BuildInv, [Next]_vars
  PROVE  BuildInv' /\ StoreStep
<1>1. CASE OpenToLoad \/ OpenToQuery
  BY <1>1, BuildIdle DEF OpenToLoad, OpenToQuery, treeVars, StoreStep
<1>2. CASE InMemory
  BY <1>2, BuildIdle DEF InMemory, StartLoad, ReadRow, TableRead, AskScan, LookupReturns,
     SkipSeen, Answer, treeVars, loadVars, StoreStep
<1>3. CASE AtEnd
  BY <1>3, BuildReset DEF AtEnd, ReadRowThrows, PrintRootThrows, LookupFails, ReadDataFails,
     Exit, Dies, Ends, Gone, StoreStep
<1>4. CASE Reading
  BY <1>4, BuildIdle DEF Reading, PrintRoot, LookupStep, CallStep, Descend, ReachLeaf,
     NextLeafOfRange, ReadNode, SkipBlock, TakeBlock, ReadData, loadVars, StoreStep
<1>5. CASE InsertData
  BY <1>5, BuildIdle DEF InsertData, treeVars, StoreStep
<1>6. CASE StartIndex
  BY <1>6, BuildIdle DEF StartIndex, BulkLoad, StoreStep
<1>7. CASE IndexStep
  BY <1>7, LoadStepBuilds DEF IndexStep
<1>8. CASE Persist
  <2>1. nodeId = BlockNull
    BY <1>8 DEF Persist, BuildInv
  <2> QED BY <1>8, <2>1 DEF Persist, treeVars, BuildInv, StoreStep
<1>9. CASE Flush
  BY <1>9, BuildIdle DEF Flush, treeVars, StoreStep
<1>10. CASE AskIndex
  BY <1>10, BuildIdle DEF AskIndex, StartCall, loadVars, StoreStep
<1>11. CASE UNCHANGED vars
  <2>1. UNCHANGED <<pc, phase, work, node, nodeId, nextLeaf, propagate, base, meta, storeVars>>
    BY <1>11 DEF vars, treeVars, storeVars
  <2>2. Own' = Own
    BY <2>1 DEF Own
  <2> QED BY <2>1, <2>2 DEF BuildInv, StoreStep
<1> QED BY <1>1, <1>2, <1>3, <1>4, <1>5, <1>6, <1>7, <1>8, <1>9, <1>10, <1>11, NextCases

LEMMA StoreKept == Spec => [](IInv /\ BuildInv)
<1>1. Init => IInv /\ BuildInv
  BY InitInv, NoPairs DEF Init, TreeInit, BuildInv
<1>2. IInv /\ BuildInv /\ [Next]_vars => (IInv /\ BuildInv)'
  BY NextBuilds, StoreStepInv
<1> QED BY <1>1, <1>2, PTL DEF Spec

\* Which write a step lets reach the file.
LEMMA StoreStepWrites ==
  ASSUME IInv, StoreStep
  PROVE  \/ disk' = disk
         \/ open /\ \E write \in {NoWrite, pending} \cup TornWrites : Apply(write)
  BY DEF StoreStep, Open, Insert, Update, SetRoot, Fetch, PersistWrite, PersistFlush,
         Close, Crash, Ready, storeVars

\* While the metadata fits in its block, no load and no query, wherever it dies,
\* changes a block that the file lists: database.cpp and btree.cpp update none
\* but blocks that they inserted.
THEOREM LoadsKeepLiveBlocks == ASSUME MetaFits PROVE Spec => LiveBlocksUntouched
<1>1. IInv /\ BuildInv /\ [Next]_vars
        => [\A id \in FileIds \cap FileIds' : disk'[id] = disk[id]]_storeVars
  BY NextBuilds, StoreStepWrites, LiveBlockStays
<1> QED BY StoreKept, <1>1, PTL DEF Spec, LiveBlocksUntouched

-----------------------------------------------------------------------------
(* Where the records of a table are.                                       *)

Rows == [key : Int, load : Nat \ {0}, row : Nat]

Once(s) == \A i, j \in DOMAIN s : s[i] = s[j] => i = j
Apart(s, t) == ToSet(s) \cap ToSet(t) = {}

\* What a data block holds: records of one key, none twice.
OneKey(s) ==
  s \in Seq(Rows) /\ Once(s) /\ \A i \in DOMAIN s : s[i].key = s[1].key

\* The records of a block that can be read as data.
IsData(block) == block # Garbage /\ block.kind = "data"
RecordsOf(block) == IF IsData(block) THEN block.records ELSE <<>>
OnDisk(id) == RecordsOf(disk[id])
Buffered == IF pending.to = "block" THEN RecordsOf(pending.block) ELSE <<>>

\* The file, and the write in the stream's buffer: no record is in two blocks.
FileInv ==
  /\ \A id \in BlockIds : OneKey(OnDisk(id))
  /\ \A id, id2 \in BlockIds : id # id2 => Apart(OnDisk(id), OnDisk(id2))
  /\ OneKey(Buffered)
  /\ pending.to = "block" => \A id \in BlockIds \ {pending.id} : Apart(OnDisk(id), Buffered)

\* All that was ever written and is still there, of this load or an earlier one.
Written == (UNION {ToSet(OnDisk(id)) : id \in BlockIds}) \cup ToSet(Buffered)

\* Data blocks in memory.
Chunk(key) ==
  {block \in [kind : {"data"}, records : Seq(Rows), next : {BlockNull}] :
     /\ block.records # <<>> /\ Once(block.records)
     /\ \A r \in ToSet(block.records) : r.key = key /\ r.load = loads}
Unwritten(s) == \A r \in ToSet(s) : r \notin Written

\* Records in the chains that are not inserted yet.
InChain(chain) == UNION {ToSet(chain[i].records) : i \in DOMAIN chain}
InChains == UNION {InChain(blocks[key]) : key \in DOMAIN blocks}

\* The data blocks of a key that are not inserted yet.  No record is twice in
\* them, in the rows that are still to be read, or anywhere written.
Unplaced(key, chain, rest) ==
  /\ chain \in Seq(Chunk(key))
  /\ \A i \in DOMAIN chain :
       /\ Apart(chain[i].records, rest) /\ Unwritten(chain[i].records)
       /\ \A j \in DOMAIN chain : i # j => Apart(chain[i].records, chain[j].records)

\* A table between its rows and the file.
TableInv ==
  /\ loads \in Nat
  /\ \A r \in Written : r.load \in 0..loads
  /\ pc # "rows" => rows = <<>>
  /\ pc \notin {"rows", "data"} => DOMAIN blocks = {}
  /\ DOMAIN blocks \subseteq Nat
  /\ rows \in Seq(Rows) /\ Once(rows) /\ Unwritten(rows)
  /\ \A r \in ToSet(rows) : r.load = loads /\ r.key \in Nat \cup {BadRow}
  /\ \A key \in DOMAIN blocks : blocks[key] # <<>> /\ Unplaced(key, blocks[key], rows)

\* A query writes nothing.  Its records are those of the blocks it has seen.
QueryInv ==
  /\ pc \in {"query", "lookup", "scan", "done"} => pending = NoWrite
  /\ pc \notin {"scan", "done"} => records = <<>> /\ seen = {}
  /\ seen \subseteq BlockIds
  /\ records \in Seq(Rows) /\ Once(records)
  /\ \A r \in ToSet(records) :
       InRange(r.key) /\ \E id \in seen : r \in ToSet(OnDisk(id))

-----------------------------------------------------------------------------
(* Sequences without repetition.                                           *)

LEMMA TailOnce ==
  ASSUME NEW S, NEW s \in Seq(S), s # <<>>
  PROVE  /\ Head(s) \in S /\ Tail(s) \in Seq(S)
         /\ Head(s) \in ToSet(s) /\ ToSet(Tail(s)) \subseteq ToSet(s)
         /\ Once(s) => Once(Tail(s)) /\ Head(s) \notin ToSet(Tail(s))
<1>1. /\ Head(s) \in S /\ Tail(s) \in Seq(S) /\ Head(s) = s[1]
      /\ DOMAIN s = 1..Len(s) /\ Len(s) \in Nat /\ Len(s) > 0
      /\ DOMAIN Tail(s) = 1..Len(s) - 1
      /\ \A i \in 1..Len(s) - 1 : Tail(s)[i] = s[i + 1]
  BY SMT
<1>2. /\ 1 \in 1..Len(s)
      /\ \A i \in 1..Len(s) - 1 : i + 1 \in 1..Len(s) /\ i + 1 # 1
      /\ \A i, j \in 1..Len(s) - 1 : i + 1 = j + 1 => i = j
  BY <1>1, SMT
<1> QED BY <1>1, <1>2 DEF Once, ToSet

LEMMA FrontFacts ==
  ASSUME NEW S, NEW s \in Seq(S), s # <<>>
  PROVE  /\ Len(s) \in DOMAIN s /\ Last(s) = s[Len(s)] /\ Last(s) \in S
         /\ Front(s) \in Seq(S) /\ DOMAIN Front(s) = DOMAIN s \ {Len(s)}
         /\ \A i \in DOMAIN Front(s) : Front(s)[i] = s[i]
         /\ Len(s) # 1 => Front(s) # <<>>
<1>1. /\ DOMAIN s = 1..Len(s) /\ Len(s) \in Nat /\ Len(s) > 0
      /\ Front(s) \in Seq(S) /\ Len(Front(s)) = Len(s) - 1
      /\ DOMAIN Front(s) = 1..Len(s) - 1
      /\ \A i \in 1..Len(s) - 1 : Front(s)[i] = s[i]
  <2> DEFINE n == Len(s) - 1
  <2>1. /\ DOMAIN s = 1..Len(s) /\ Len(s) \in Nat /\ Len(s) > 0
        /\ n \in 0..Len(s) /\ Front(s) = SubSeq(s, 1, n)
    BY SMT DEF Front
  <2> HIDE DEF n
  <2>2. /\ SubSeq(s, 1, n) \in Seq(S) /\ Len(SubSeq(s, 1, n)) = n
        /\ DOMAIN SubSeq(s, 1, n) = 1..n
        /\ \A i \in 1..n : SubSeq(s, 1, n)[i] = s[i]
    BY <2>1, SMT
  <2> QED BY <2>1, <2>2 DEF n
<1>2. Last(s) = s[Len(s)]
  BY DEF Last
<1>3. Len(s) \in 1..Len(s) /\ 1..Len(s) - 1 = 1..Len(s) \ {Len(s)} /\ s[Len(s)] \in S
  BY <1>1, SMT
<1>4. Len(s) # 1 => Front(s) # <<>>
  BY <1>1, SMT
<1> QED BY <1>1, <1>2, <1>3, <1>4

LEMMA ConcatOnce ==
  ASSUME NEW S, NEW s \in Seq(S), NEW t \in Seq(S)
  PROVE  /\ s \o t \in Seq(S)
         /\ ToSet(s \o t) = ToSet(s) \cup ToSet(t)
         /\ Once(s) /\ Once(t) /\ Apart(s, t) => Once(s \o t)
<1> DEFINE u == s \o t
           m == Len(s)
           n == Len(t)
<1>1. /\ u \in Seq(S) /\ m \in Nat /\ n \in Nat
      /\ DOMAIN s = 1..m /\ DOMAIN t = 1..n /\ DOMAIN u = 1..m + n
      /\ \A i \in 1..m + n : u[i] = IF i <= m THEN s[i] ELSE t[i - m]
  <2>1. /\ u \in Seq(S) /\ Len(u) = m + n
        /\ \A i \in 1..m + n : u[i] = IF i <= m THEN s[i] ELSE t[i - m]
    BY ConcatProperties
  <2> QED BY <2>1, LenProperties
<1>2. u = s \o t
  OBVIOUS
<1> HIDE DEF u, m, n
<1>3. /\ \A i \in 1..m : i \in 1..m + n /\ u[i] = s[i]
      /\ \A i \in 1..n : m + i \in 1..m + n /\ u[m + i] = t[i]
      /\ \A i \in 1..m + n : \/ i \in 1..m /\ u[i] = s[i]
                             \/ i - m \in 1..n /\ u[i] = t[i - m]
  BY <1>1, SMT
<1>4. ToSet(u) = ToSet(s) \cup ToSet(t)
  <2>1. ASSUME NEW i \in DOMAIN u PROVE u[i] \in ToSet(s) \cup ToSet(t)
    BY <1>1, <1>3, <2>1 DEF ToSet
  <2>2. ASSUME NEW i \in DOMAIN s PROVE s[i] \in ToSet(u)
    BY <1>1, <1>3, <2>2 DEF ToSet
  <2>3. ASSUME NEW i \in DOMAIN t PROVE t[i] \in ToSet(u)
    BY <1>1, <1>3, <2>3 DEF ToSet
  <2> QED BY <2>1, <2>2, <2>3 DEF ToSet
<1>5. ASSUME Once(s), Once(t), Apart(s, t), NEW i \in 1..m + n, NEW j \in 1..m + n, u[i] = u[j]
      PROVE  i = j
  <2>1. CASE i \in 1..m /\ u[i] = s[i] /\ j \in 1..m /\ u[j] = s[j]
    BY <1>1, <1>5, <2>1 DEF Once
  <2>2. CASE i - m \in 1..n /\ u[i] = t[i - m] /\ j - m \in 1..n /\ u[j] = t[j - m]
    <3>1. i - m = j - m
      BY <1>1, <1>5, <2>2 DEF Once
    <3> QED BY <1>1, <3>1, SMT
  <2>3. CASE i \in 1..m /\ u[i] = s[i] /\ j - m \in 1..n /\ u[j] = t[j - m]
    BY <1>1, <1>5, <2>3 DEF Apart, ToSet
  <2>4. CASE i - m \in 1..n /\ u[i] = t[i - m] /\ j \in 1..m /\ u[j] = s[j]
    BY <1>1, <1>5, <2>4 DEF Apart, ToSet
  <2> QED BY <1>3, <2>1, <2>2, <2>3, <2>4
<1> QED BY <1>1, <1>2, <1>4, <1>5 DEF Once

LEMMA InsertAtOnce ==
  ASSUME NEW S, NEW s \in Seq(S), NEW n \in 1..Len(s) + 1, NEW x \in S,
         Once(s), x \notin ToSet(s)
  PROVE  Once(InsertAt(s, n, x))
<1> DEFINE u == InsertAt(s, n, x)
<1>1. /\ DOMAIN u = 1..Len(s) + 1 /\ DOMAIN s = 1..Len(s) /\ Len(s) \in Nat
      /\ \A i \in 1..n - 1 : u[i] = s[i]
      /\ u[n] = x
      /\ \A i \in n + 1..Len(s) + 1 : u[i] = s[i - 1]
  BY InsertAtFacts, LenProperties
<1> HIDE DEF u
<1>2. \A i \in 1..Len(s) + 1 :
        \/ i = n /\ u[i] = x
        \/ i \in 1..n - 1 /\ i \in 1..Len(s) /\ u[i] = s[i]
        \/ i \in n + 1..Len(s) + 1 /\ i - 1 \in 1..Len(s) /\ u[i] = s[i - 1]
  BY <1>1, SMT
<1>3. \A i \in 1..Len(s) : s[i] # x
  BY <1>1 DEF ToSet
<1>4. \A i, j \in 1..Len(s) : s[i] = s[j] => i = j
  BY <1>1 DEF Once
<1>5. ASSUME NEW i \in 1..Len(s) + 1, NEW j \in 1..Len(s) + 1, u[i] = u[j] PROVE i = j
  <2>1. i = n => j = n
    BY <1>2, <1>3, <1>5
  <2>2. j = n => i = n
    BY <1>2, <1>3, <1>5
  <2>3. CASE i \in 1..n - 1 /\ i \in 1..Len(s) /\ u[i] = s[i]
    <3>1. CASE j \in 1..n - 1 /\ j \in 1..Len(s) /\ u[j] = s[j]
      BY <1>4, <1>5, <2>3, <3>1
    <3>2. CASE j \in n + 1..Len(s) + 1 /\ j - 1 \in 1..Len(s) /\ u[j] = s[j - 1]
      <4>1. i = j - 1
        BY <1>4, <1>5, <2>3, <3>2
      <4> QED BY <2>3, <3>2, <4>1, SMT
    <3> QED BY <1>2, <2>2, <3>1, <3>2
  <2>4. CASE i \in n + 1..Len(s) + 1 /\ i - 1 \in 1..Len(s) /\ u[i] = s[i - 1]
    <3>1. CASE j \in 1..n - 1 /\ j \in 1..Len(s) /\ u[j] = s[j]
      <4>1. i - 1 = j
        BY <1>4, <1>5, <2>4, <3>1
      <4> QED BY <2>4, <3>1, <4>1, SMT
    <3>2. CASE j \in n + 1..Len(s) + 1 /\ j - 1 \in 1..Len(s) /\ u[j] = s[j - 1]
      <4>1. i - 1 = j - 1
        BY <1>4, <1>5, <2>4, <3>2
      <4> QED BY <4>1, SMT
    <3> QED BY <1>2, <2>2, <3>1, <3>2
  <2> QED BY <1>2, <2>1, <2>3, <2>4
<1>6. u = InsertAt(s, n, x)
  BY DEF u
<1> QED BY <1>1, <1>5, <1>6 DEF Once

-----------------------------------------------------------------------------
(* The file.                                                               *)

LEMMA NothingOnce == OneKey(<<>>) /\ ToSet(<<>>) = {} /\ RecordsOf(Garbage) = <<>>
<1>1. <<>> \in Seq(Rows) /\ DOMAIN <<>> = {}
  BY EmptySeq
<1> QED BY <1>1 DEF OneKey, Once, ToSet, RecordsOf, IsData

\* What a step, a death included, may do to the records in the file: nothing,
\* lose those of a block, or replace them by the ones in the buffer.
Moves ==
  \A id \in BlockIds :
    \/ OnDisk(id)' = OnDisk(id)
    \/ OnDisk(id)' = <<>>
    \/ pending.to = "block" /\ id = pending.id /\ OnDisk(id)' = Buffered

LEMMA StoreStepMoves == ASSUME IInv, StoreStep PROVE Moves
<1> SUFFICES ASSUME NEW id \in BlockIds
             PROVE  \/ OnDisk(id)' = OnDisk(id)
                    \/ OnDisk(id)' = <<>>
                    \/ pending.to = "block" /\ id = pending.id /\ OnDisk(id)' = Buffered
  BY DEF Moves
<1>1. DOMAIN disk = BlockIds
  BY DEF IInv, StoreTypeOK
<1>2. OnDisk(id)' = RecordsOf(disk'[id]) /\ OnDisk(id) = RecordsOf(disk[id])
  BY DEF OnDisk
<1>3. CASE disk' = disk
  BY <1>2, <1>3
<1>4. ASSUME NEW write \in {NoWrite, pending} \cup TornWrites, Apply(write)
      PROVE  \/ OnDisk(id)' = OnDisk(id)
             \/ OnDisk(id)' = <<>>
             \/ pending.to = "block" /\ id = pending.id /\ OnDisk(id)' = Buffered
  <2>1. disk' = DiskAfter(write)
    BY <1>4 DEF Apply
  <2>2. CASE write.to = "block"
    <3>1. /\ pending.to = "block" /\ write.id = pending.id
          /\ write.block = pending.block \/ write.block = Garbage
      BY <1>4, <2>2 DEF TornWrites, EarlyPart, NoWrite, BlockWrite, MetaWrite
    <3>2. disk' = [disk EXCEPT ![write.id] = write.block]
      BY <2>1, <2>2 DEF DiskAfter
    <3>3. CASE id # write.id
      BY <1>2, <3>2, <3>3
    <3>4. CASE id = write.id
      <4>1. disk'[id] = write.block
        BY <1>1, <3>2, <3>4
      <4> QED BY <1>2, <3>1, <3>4, <4>1, NothingOnce DEF Buffered
    <3> QED BY <3>3, <3>4
  <2>3. CASE write.to = "meta"
    <3>1. disk'[id] = disk[id] \/ disk'[id] = Garbage
      BY <2>1, <2>3 DEF DiskAfter
    <3> QED BY <1>2, <3>1, NothingOnce
  <2>4. CASE write.to \notin {"block", "meta"}
    BY <1>2, <2>1, <2>4 DEF DiskAfter
  <2> QED BY <2>2, <2>3, <2>4
<1> QED BY <1>3, <1>4, StoreStepWrites

\* A step that puts no records into the buffer.
Quiet == Buffered' = <<>> \/ UNCHANGED <<disk, pending>>

LEMMA FileKept ==
  ASSUME FileInv, Moves, Quiet
  PROVE  FileInv' /\ Written' \subseteq Written
<1>1. CASE UNCHANGED <<disk, pending>>
  BY <1>1 DEF FileInv, Written, OnDisk, Buffered
<1>2. CASE Buffered' = <<>>
  <2>1. \A id \in BlockIds : OneKey(OnDisk(id)')
    BY NothingOnce DEF FileInv, Moves
  <2>2. ASSUME NEW id \in BlockIds, NEW id2 \in BlockIds, id # id2
        PROVE  Apart(OnDisk(id)', OnDisk(id2)')
    BY <2>2, NothingOnce DEF FileInv, Moves, Apart
  <2>3. ASSUME NEW id \in BlockIds PROVE ToSet(OnDisk(id)') \subseteq Written
    BY NothingOnce DEF Moves, Written
  <2>4. Written' \subseteq Written
    BY <1>2, <2>3, NothingOnce DEF Written
  <2>5. OneKey(Buffered') /\ \A id \in BlockIds : Apart(OnDisk(id)', Buffered')
    BY <1>2, NothingOnce DEF Apart
  <2> QED BY <2>1, <2>2, <2>4, <2>5 DEF FileInv
<1> QED BY <1>1, <1>2 DEF Quiet

\* A step that puts records into the buffer that were nowhere before.
LEMMA FileGrows ==
  ASSUME FileInv, Moves, OneKey(Buffered'), Unwritten(Buffered')
  PROVE  FileInv' /\ Written' \subseteq Written \cup ToSet(Buffered')
<1>1. \A id \in BlockIds : OneKey(OnDisk(id)')
  BY NothingOnce DEF FileInv, Moves
<1>2. ASSUME NEW id \in BlockIds, NEW id2 \in BlockIds, id # id2
      PROVE  Apart(OnDisk(id)', OnDisk(id2)')
  BY <1>2, NothingOnce DEF FileInv, Moves, Apart
<1>3. ASSUME NEW id \in BlockIds PROVE ToSet(OnDisk(id)') \subseteq Written
  BY NothingOnce DEF Moves, Written
<1>4. Written' \subseteq Written \cup ToSet(Buffered')
  BY <1>3 DEF Written
<1>5. \A id \in BlockIds : Apart(OnDisk(id)', Buffered')
  BY <1>3 DEF Apart, Unwritten
<1> QED BY <1>1, <1>2, <1>4, <1>5 DEF FileInv

\* Only the insertion of a data block puts records into the buffer.
LEMMA NodesHoldNoRecords ==
  ASSUME NEW n, IsNode(n) PROVE RecordsOf(n) = <<>>
  BY DEF IsNode, RecordsOf, IsData

LEMMA LoadStepQuiet == ASSUME BuildInv, LoadStep PROVE Quiet
<1>1. CASE NewLeaf \/ NewInternal
  <2>1. PICK leaf \in BOOLEAN : Insert(EmptyNode(leaf))
    BY <1>1 DEF NewLeaf, NewInternal
  <2>2. pending'.to = "block" /\ pending'.block = EmptyNode(leaf)
    BY <2>1 DEF Insert, BlockWrite
  <2>3. RecordsOf(EmptyNode(leaf)) = <<>>
    BY NodeFacts, NodesHoldNoRecords
  <2> QED BY <2>2, <2>3 DEF Quiet, Buffered
<1>2. CASE LinkLeaf
  <2>1. IsNode(LinkTo(node, nextLeaf))
    BY <1>2, NodeStaysNode DEF LinkLeaf, BuildInv
  <2> QED BY <1>2, <2>1, NodesHoldNoRecords DEF LinkLeaf, Update, BlockWrite, Quiet, Buffered
<1>3. CASE FillLeaf \/ FillInternal
  <2>1. node # NoNode /\ Fill
    BY <1>3 DEF FillLeaf, FillInternal, NeedsNode
  <2>2. IsNode(node')
    BY <2>1, NodeStaysNode DEF BuildInv, Fill
  <2> QED BY <2>1, <2>2, NodesHoldNoRecords DEF Fill, Update, BlockWrite, Quiet, Buffered
<1>4. CASE NextLevel \/ RootDone
  BY <1>4 DEF NextLevel, RootDone, SetRoot, storeVars, Quiet
<1> QED BY <1>1, <1>2, <1>3, <1>4 DEF LoadStep

LEMMA NextQuiet ==
  ASSUME BuildInv, [Next]_vars, ~InsertData
  PROVE  Quiet
<1>1. CASE OpenToLoad \/ OpenToQuery
  BY <1>1 DEF OpenToLoad, OpenToQuery, Open, Quiet
<1>2. CASE InMemory
  BY <1>2 DEF InMemory, StartLoad, ReadRow, TableRead, AskScan, LookupReturns, SkipSeen, Answer,
     storeVars, Quiet
<1>3. CASE AtEnd
  BY <1>3 DEF AtEnd, ReadRowThrows, PrintRootThrows, LookupFails, ReadDataFails,
     Exit, Dies, Ends, Close, Crash, Forget, NoWrite, Quiet, Buffered
<1>4. CASE Reading
  <2>1. Fetch
    BY <1>4 DEF Reading, PrintRoot, LookupStep, CallStep, Descend, ReachLeaf,
       NextLeafOfRange, ReadNode, SkipBlock, TakeBlock, ReadData
  <2> QED BY <2>1 DEF Fetch, NoWrite, Quiet, Buffered
<1>5. CASE StartIndex \/ AskIndex \/ UNCHANGED vars
  BY <1>5 DEF StartIndex, BulkLoad, AskIndex, StartCall, vars, storeVars, Quiet
<1>6. CASE IndexStep
  BY <1>6, LoadStepQuiet DEF IndexStep
<1>7. CASE Persist \/ Flush
  BY <1>7 DEF Persist, Flush, PersistWrite, PersistFlush, MetaWrite, NoWrite, Quiet, Buffered
<1> QED BY <1>1, <1>2, <1>3, <1>4, <1>5, <1>6, <1>7, NextCases

-----------------------------------------------------------------------------
(* A table on its way into the file.                                       *)

LEMMA TableKept ==
  ASSUME TableInv, Written' \subseteq Written, UNCHANGED <<loads, rows, blocks>>,
         pc' # "rows" => rows = <<>>, pc' \notin {"rows", "data"} => DOMAIN blocks = {}
  PROVE  TableInv'
<1>1. ASSUME NEW key \in DOMAIN blocks PROVE Unplaced(key, blocks[key], rows)'
  <2>1. Unplaced(key, blocks[key], rows)
    BY DEF TableInv
  <2>2. Chunk(key)' = Chunk(key)
    BY DEF Chunk
  <2> QED BY <2>1, <2>2 DEF Unplaced, Unwritten
<1>2. Unwritten(rows)'
  BY DEF TableInv, Unwritten
<1> QED BY <1>1, <1>2 DEF TableInv

LEMMA TableGone ==
  ASSUME TableInv, Written' \subseteq Written, Gone
  PROVE  TableInv'
<1>1. rows' = <<>> /\ DOMAIN blocks' = {} /\ loads' = loads
  BY DEF Gone, EmptyMap
<1>2. <<>> \in Seq(Rows) /\ Once(<<>>) /\ ToSet(<<>>) = {}
  BY NothingOnce DEF OneKey
<1> QED BY <1>1, <1>2 DEF TableInv, Unwritten

\* A table's rows differ by their place, and from all rows of earlier loads.
LEMMA StartLoadKeeps == ASSUME TableInv, StartLoad PROVE TableInv'
<1> DEFINE n == loads + 1
<1>1. /\ n \in Nat \ {0} /\ loads' = n /\ Written' = Written /\ blocks' = blocks /\ pc' = "rows"
      /\ DOMAIN blocks = {} /\ \A r \in Written : r.load \in 0..loads
  <2>1. UNCHANGED <<disk, pending>>
    BY DEF StartLoad, storeVars
  <2>2. n \in Nat \ {0}
    BY SMT DEF TableInv
  <2> QED BY <2>1, <2>2 DEF StartLoad, TableInv, Written, OnDisk, Buffered
<1>2. PICK input \in Inputs : rows' = RowsOf(input, n)
  BY <1>1 DEF StartLoad
<1> DEFINE K == 0..MaxKey \cup {BadRow}
<1>3. input \in Seq(K) /\ K \subseteq Int
  BY <1>2, DatabaseAssumption, BlocksAssumption, SMT DEF BadRow
<1>4. Len(input) \in Nat /\ DOMAIN input = 1..Len(input) /\ \A i \in 1..Len(input) : input[i] \in K
  BY <1>3, LenProperties, ElementOfSeq
<1>5. \A k \in K : k \in Int /\ k \in Nat \cup {BadRow}
  BY BlocksAssumption, SMT DEF BadRow
<1> HIDE DEF K, n
<1> DEFINE t == [i \in 1..Len(input) |-> [key |-> input[i], load |-> n, row |-> i]]
<1>6. rows' = t
  BY <1>2, <1>4 DEF RowsOf
<1>7. ASSUME NEW i \in 1..Len(input)
      PROVE  t[i] \in Rows /\ t[i].load = n /\ t[i].row = i /\ t[i].key \in Nat \cup {BadRow}
  BY <1>1, <1>4, <1>5, SMT DEF Rows
<1>8. t \in Seq(Rows) /\ DOMAIN t = 1..Len(input)
  <2>1. t \in [1..Len(input) -> Rows]
    BY <1>7
  <2> HIDE DEF t
  <2> QED BY <1>4, <2>1, SeqDef
<1> HIDE DEF t
<1>9. Once(t)
  BY <1>7, <1>8 DEF Once
<1>10. \A r \in ToSet(t) : r.load = n /\ r.key \in Nat \cup {BadRow}
  BY <1>7, <1>8 DEF ToSet
<1>11. \A r \in Written : r.load \in 0..n /\ r.load # n
  <2>1. loads \in Nat
    BY DEF TableInv
  <2> QED BY <1>1, <2>1, SMT DEF n
<1> QED BY <1>1, <1>6, <1>8, <1>9, <1>10, <1>11 DEF TableInv, Unwritten

\* A record put into a data block of its key, which may be empty.
LEMMA DataInsertFacts ==
  ASSUME NEW r \in Rows, r.load = loads,
         NEW block, block = EmptyData \/ block \in Chunk(r.key), r \notin ToSet(block.records)
  PROVE  /\ DataInsert(block, r) \in Chunk(r.key)
         /\ ToSet(DataInsert(block, r).records) = ToSet(block.records) \cup {r}
<1> DEFINE old == block.records
           keys == [i \in DOMAIN old |-> old[i].key]
           at == UpperBound(keys, r.key)
           new == InsertAt(old, at, r)
<1>1. /\ old \in Seq(Rows) /\ Once(old)
      /\ \A x \in ToSet(old) : x.key = r.key /\ x.load = loads
      /\ block \in [kind : {"data"}, records : Seq(Rows), next : {BlockNull}]
  <2>1. CASE block = EmptyData
    <3>1. block = [kind |-> "data", records |-> <<>>, next |-> BlockNull] /\ old = <<>>
      BY <2>1 DEF EmptyData
    <3>2. <<>> \in Seq(Rows) /\ Once(<<>>) /\ ToSet(<<>>) = {}
      BY NothingOnce DEF OneKey
    <3> QED BY <3>1, <3>2
  <2>2. CASE block \in Chunk(r.key)
    BY <2>2 DEF Chunk
  <2> QED BY <2>1, <2>2
<1>2. /\ DOMAIN old = 1..Len(old) /\ Len(old) \in Nat
      /\ \A i \in 1..Len(old) : old[i].key \in Int
  <2>1. \A i \in 1..Len(old) : old[i] \in Rows
    BY <1>1, ElementOfSeq
  <2> QED BY <1>1, <2>1, LenProperties DEF Rows
<1>3. keys \in Seq(Int) /\ Len(keys) = Len(old)
  <2>1. keys \in [1..Len(old) -> Int] /\ DOMAIN keys = 1..Len(old)
    BY <1>2
  <2> HIDE DEF keys
  <2>2. keys \in Seq(Int)
    BY <1>2, <2>1, SeqDef
  <2> QED BY <1>2, <2>1, <2>2, SMT
<1>4. r.key + 1 \in Int
  BY SMT DEF Rows
<1>5. at \in 1..Len(old) + 1
  BY <1>3, <1>4, LowerBoundIsRight DEF UpperBound
<1>6. DataInsert(block, r) = [block EXCEPT !.records = new]
  BY DEF DataInsert
<1>7. r \notin ToSet(old)
  OBVIOUS
<1> HIDE DEF old, at, keys
<1>8. /\ new \in Seq(Rows) /\ Len(new) = Len(old) + 1 /\ ToSet(new) = ToSet(old) \cup {r}
      /\ Once(new)
  BY <1>1, <1>5, <1>7, InsertAtFacts, InsertAtSet, InsertAtOnce
<1> HIDE DEF new
<1>9. new # <<>>
  BY <1>2, <1>8, SMT
<1>10. /\ DataInsert(block, r) \in [kind : {"data"}, records : Seq(Rows), next : {BlockNull}]
       /\ DataInsert(block, r).records = new
  BY <1>1, <1>6, <1>8
<1> QED BY <1>1, <1>8, <1>9, <1>10 DEF Chunk, old

\* A chain that gets one more block.
LEMMA UnplacedGrows ==
  ASSUME NEW key, NEW chain, NEW block \in Chunk(key), NEW rest,
         Unplaced(key, chain, rest), Apart(block.records, rest), Unwritten(block.records),
         \A i \in DOMAIN chain : Apart(chain[i].records, block.records)
  PROVE  /\ Unplaced(key, Append(chain, block), rest) /\ Append(chain, block) # <<>>
         /\ InChain(Append(chain, block)) = InChain(chain) \cup ToSet(block.records)
<1> DEFINE C == Chunk(key)
           new == Append(chain, block)
           n == Len(chain)
<1>1. chain \in Seq(C) /\ block \in C
  BY DEF Unplaced
<1> HIDE DEF C
<1>2. /\ new \in Seq(C) /\ new # <<>> /\ DOMAIN new = 1..n + 1 /\ n \in Nat /\ DOMAIN chain = 1..n
      /\ \A i \in 1..n : new[i] = chain[i]
      /\ new[n + 1] = block
  BY <1>1, AppendProperties, LenProperties
<1>3. \A i \in 1..n + 1 : i \in 1..n \/ i = n + 1
  BY <1>2, SMT
<1>4. \A i \in 1..n + 1 : Apart(new[i].records, rest) /\ Unwritten(new[i].records)
  BY <1>2, <1>3 DEF Unplaced
<1>5. ASSUME NEW i \in 1..n + 1, NEW j \in 1..n + 1, i # j
      PROVE  Apart(new[i].records, new[j].records)
  BY <1>2, <1>3, <1>5 DEF Unplaced, Apart
<1> HIDE DEF new
<1>6. Unplaced(key, new, rest)
  BY <1>2, <1>4, <1>5 DEF Unplaced, C
<1>7. InChain(new) = InChain(chain) \cup ToSet(block.records)
  <2>1. \A i \in 1..n : i \in 1..n + 1
    BY <1>2, SMT
  <2>2. n + 1 \in 1..n + 1
    BY <1>2, SMT
  <2>3. InChain(new) \subseteq InChain(chain) \cup ToSet(block.records)
    BY <1>2, <1>3, Zenon DEF InChain
  <2>4. InChain(chain) \subseteq InChain(new) /\ ToSet(block.records) \subseteq InChain(new)
    BY <1>2, <2>1, <2>2, Zenon DEF InChain
  <2> QED BY <2>3, <2>4
<1> QED BY <1>2, <1>6, <1>7 DEF new

\* A chain without its last block.
LEMMA UnplacedShrinks ==
  ASSUME NEW key, NEW chain, chain # <<>>, NEW rest, Unplaced(key, chain, rest)
  PROVE  /\ Unplaced(key, Front(chain), rest)
         /\ Last(chain) \in Chunk(key)
         /\ Apart(Last(chain).records, rest) /\ Unwritten(Last(chain).records)
         /\ \A i \in DOMAIN Front(chain) : Apart(Front(chain)[i].records, Last(chain).records)
         /\ Len(chain) # 1 => Front(chain) # <<>>
         /\ Len(chain) = 1 => InChain(Front(chain)) = {}
         /\ InChain(chain) = InChain(Front(chain)) \cup ToSet(Last(chain).records)
<1> DEFINE C == Chunk(key)
<1>1. chain \in Seq(C)
  BY DEF Unplaced
<1> HIDE DEF C
<1>2. /\ Len(chain) \in DOMAIN chain /\ Last(chain) = chain[Len(chain)] /\ Last(chain) \in C
      /\ Front(chain) \in Seq(C) /\ DOMAIN Front(chain) = DOMAIN chain \ {Len(chain)}
      /\ \A i \in DOMAIN Front(chain) : Front(chain)[i] = chain[i]
      /\ Len(chain) # 1 => Front(chain) # <<>>
  BY <1>1, FrontFacts
<1>3. InChain(chain) = InChain(Front(chain)) \cup ToSet(Last(chain).records)
  BY <1>2 DEF InChain
<1>4. Len(chain) = 1 => InChain(Front(chain)) = {}
  <2>1. DOMAIN chain = 1..Len(chain)
    BY <1>1, LenProperties
  <2>2. Len(chain) = 1 => DOMAIN Front(chain) = {}
    BY <1>2, <2>1, SMT
  <2> QED BY <2>2 DEF InChain
<1> QED BY <1>2, <1>3, <1>4 DEF Unplaced, C

LEMMA UnplacedWeakens ==
  ASSUME NEW key, NEW chain, NEW rest, NEW fewer, Unplaced(key, chain, rest),
         ToSet(fewer) \subseteq ToSet(rest)
  PROVE  Unplaced(key, chain, fewer)
  BY DEF Unplaced, Apart

LEMMA NothingUnplaced ==
  ASSUME NEW key, NEW rest PROVE Unplaced(key, <<>>, rest) /\ InChain(<<>>) = {}
<1> DEFINE C == Chunk(key)
<1>1. <<>> \in Seq(C) /\ DOMAIN <<>> = {}
  BY EmptySeq
<1> QED BY <1>1 DEF Unplaced, InChain

\* The chain of a key, when there is one.
ChainOf(key) == IF key \in DOMAIN blocks THEN blocks[key] ELSE <<>>

\* A row that is put into the last block of its key, or into a new one.
LEMMA GroupedKeeps ==
  ASSUME TableInv, NEW r \in ToSet(rows), r.key \in Nat, NEW rest,
         ToSet(rest) \subseteq ToSet(rows), r \notin ToSet(rest)
  PROVE  /\ Grouped(r) # <<>> /\ Unplaced(r.key, Grouped(r), rest)
         /\ InChain(Grouped(r)) = InChain(ChainOf(r.key)) \cup {r}
<1> DEFINE own == ChainOf(r.key)
<1>1. r \in Rows /\ r.load = loads /\ r \notin Written
  <2>1. rows \in Seq(Rows)
    BY DEF TableInv
  <2>2. r \in Rows
    BY <2>1, ElementOfSeq, LenProperties DEF ToSet
  <2> QED BY <2>2 DEF TableInv, Unwritten
<1>2. Unplaced(r.key, own, rows)
  BY NothingUnplaced DEF TableInv, ChainOf
<1>3. Grouped(r) = IF own = <<>> \/ DataFull(Last(own))
                     THEN Append(own, DataInsert(EmptyData, r))
                     ELSE Append(Front(own), DataInsert(Last(own), r))
  BY DEF Grouped, ChainOf
<1> HIDE DEF own
<1>4. Unplaced(r.key, own, rest) /\ \A i \in DOMAIN own : r \notin ToSet(own[i].records)
  BY <1>2, UnplacedWeakens DEF Unplaced, Apart
<1>5. CASE own = <<>> \/ DataFull(Last(own))
  <2> DEFINE block == DataInsert(EmptyData, r)
  <2>1. r \notin ToSet(EmptyData.records) /\ ToSet(EmptyData.records) = {}
    BY NothingOnce DEF EmptyData
  <2>2. block \in Chunk(r.key) /\ ToSet(block.records) = {r}
    BY <1>1, <2>1, DataInsertFacts
  <2> HIDE DEF block
  <2>3. /\ Apart(block.records, rest) /\ Unwritten(block.records)
        /\ \A i \in DOMAIN own : Apart(own[i].records, block.records)
    BY <1>1, <1>4, <2>2 DEF Apart, Unwritten
  <2>4. /\ Unplaced(r.key, Append(own, block), rest) /\ Append(own, block) # <<>>
        /\ InChain(Append(own, block)) = InChain(own) \cup {r}
    BY <1>4, <2>2, <2>3, UnplacedGrows
  <2> QED BY <1>3, <1>5, <2>4 DEF block, own
<1>6. CASE ~(own = <<>> \/ DataFull(Last(own)))
  <2> DEFINE last == Last(own)
             init == Front(own)
             block == DataInsert(last, r)
  <2>1. /\ Unplaced(r.key, init, rest) /\ last \in Chunk(r.key)
        /\ Apart(last.records, rest) /\ Unwritten(last.records)
        /\ \A i \in DOMAIN init : Apart(init[i].records, last.records)
        /\ InChain(own) = InChain(init) \cup ToSet(last.records)
    BY <1>4, <1>6, UnplacedShrinks
  <2>2. r \notin ToSet(last.records) /\ \A i \in DOMAIN init : r \notin ToSet(init[i].records)
    <3>1. Unplaced(r.key, init, rows) /\ Apart(last.records, rows)
      BY <1>2, <1>6, UnplacedShrinks
    <3> HIDE DEF init, last
    <3> QED BY <3>1 DEF Unplaced, Apart
  <2> HIDE DEF last, init
  <2>3. block \in Chunk(r.key) /\ ToSet(block.records) = ToSet(last.records) \cup {r}
    BY <1>1, <2>1, <2>2, DataInsertFacts
  <2> HIDE DEF block
  <2>4. /\ Apart(block.records, rest) /\ Unwritten(block.records)
        /\ \A i \in DOMAIN init : Apart(init[i].records, block.records)
    BY <1>1, <2>1, <2>2, <2>3 DEF Apart, Unwritten
  <2>5. /\ Unplaced(r.key, Append(init, block), rest) /\ Append(init, block) # <<>>
        /\ InChain(Append(init, block)) = InChain(own) \cup {r}
    BY <2>1, <2>3, <2>4, UnplacedGrows
  <2> QED BY <1>3, <1>6, <2>5 DEF block, init, last, own
<1> QED BY <1>5, <1>6

LEMMA ReadRowKeeps == ASSUME TableInv, ReadRow PROVE TableInv'
<1> DEFINE r == Head(rows)
           rest == Tail(rows)
<1>1. /\ r \in ToSet(rows) /\ rest \in Seq(Rows) /\ ToSet(rest) \subseteq ToSet(rows)
      /\ r \notin ToSet(rest) /\ Once(rest) /\ r \in Rows
  BY TailOnce DEF TableInv, ReadRow
<1>2. r.key \in Nat
  BY <1>1 DEF TableInv, ReadRow, Throws
<1>3. UNCHANGED <<loads, pc, disk, pending>> /\ pc = "rows" /\ rows' = rest
  BY DEF ReadRow, storeVars
<1>4. Written' = Written
  BY <1>3 DEF Written, OnDisk, Buffered
<1>5. blocks' = [key \in DOMAIN blocks \cup {r.key} |->
                   IF key = r.key THEN Grouped(r) ELSE blocks[key]]
  BY DEF ReadRow
<1> HIDE DEF r, rest
<1>6. Grouped(r) # <<>> /\ Unplaced(r.key, Grouped(r), rest)
  BY <1>1, <1>2, GroupedKeeps
<1>7. ASSUME NEW key \in DOMAIN blocks'
      PROVE  blocks'[key] # <<>> /\ Unplaced(key, blocks'[key], rest)
  <2>1. CASE key = r.key
    BY <1>5, <1>6, <2>1
  <2>2. CASE key # r.key
    <3>1. key \in DOMAIN blocks /\ blocks'[key] = blocks[key]
      BY <1>5, <2>2
    <3> QED BY <1>1, <3>1, UnplacedWeakens DEF TableInv
  <2> QED BY <2>1, <2>2
<1>8. ASSUME NEW key \in DOMAIN blocks' PROVE Unplaced(key, blocks[key], rows)'
  <2>1. Chunk(key)' = Chunk(key)
    BY <1>3 DEF Chunk
  <2> QED BY <1>3, <1>4, <1>7, <2>1 DEF Unplaced, Unwritten
<1>9. DOMAIN blocks' \subseteq Nat
  BY <1>2, <1>5 DEF TableInv
<1>10. Unwritten(rest) /\ \A x \in ToSet(rest) : x.load = loads /\ x.key \in Nat \cup {BadRow}
  BY <1>1 DEF TableInv, Unwritten
<1> QED BY <1>1, <1>3, <1>4, <1>7, <1>8, <1>9, <1>10 DEF TableInv, Unwritten

\* InsertData takes a chain that is there.
LEMMA FirstKey == ASSUME TableInv, InsertData PROVE Min(DOMAIN blocks) \in DOMAIN blocks
<1>1. DOMAIN blocks # {} /\ DOMAIN blocks \subseteq Nat
  BY DEF InsertData, TableInv
<1>2. \E n \in DOMAIN blocks : \A m \in DOMAIN blocks : n <= m
  BY <1>1, LeastNat
<1> QED BY <1>2, Zenon DEF Min

\* The records of a data block leave its chain with their block, and no other
\* block that is still in memory has them.
LEMMA InsertDataKeeps ==
  ASSUME FileInv, TableInv, Moves, InsertData
  PROVE  FileInv' /\ TableInv'
<1> DEFINE key == Min(DOMAIN blocks)
           chain == blocks[key]
           last == Last(chain)
           block == [last EXCEPT !.next = NextOf(key)]
<1>1. key \in DOMAIN blocks
  BY FirstKey
<1>2. /\ pending' = BlockWrite(NewId(meta), block)
      /\ blocks' = IF Len(chain) = 1 THEN Restrict(blocks, DOMAIN blocks \ {key})
                                     ELSE [blocks EXCEPT ![key] = Front(chain)]
      /\ pc = "data" /\ UNCHANGED <<pc, loads, rows>>
  BY DEF InsertData, Insert
<1>3. chain # <<>> /\ Unplaced(key, chain, rows)
  BY <1>1 DEF TableInv
<1> HIDE DEF chain
<1>4. /\ Unplaced(key, Front(chain), rows) /\ last \in Chunk(key)
      /\ Unwritten(last.records)
      /\ \A i \in DOMAIN Front(chain) : Apart(Front(chain)[i].records, last.records)
      /\ Len(chain) # 1 => Front(chain) # <<>>
  BY <1>3, UnplacedShrinks
<1> HIDE DEF last
<1>5. block.records = last.records
  BY <1>4 DEF Chunk
<1>6. Buffered' = last.records \/ Buffered' = <<>>
  <2>1. pending'.to = "block" /\ pending'.block = block
    BY <1>2 DEF BlockWrite
  <2> QED BY <1>5, <2>1 DEF Buffered, RecordsOf
<1>7. OneKey(last.records) /\ \A r \in ToSet(last.records) : r.key = key
  <2>1. /\ last.records \in Seq(Rows) /\ Once(last.records) /\ last.records # <<>>
        /\ \A r \in ToSet(last.records) : r.key = key
    BY <1>4 DEF Chunk
  <2>2. 1 \in DOMAIN last.records
    BY <2>1, SMT
  <2> QED BY <2>1, <2>2 DEF OneKey, ToSet
<1>8. OneKey(Buffered') /\ Unwritten(Buffered') /\ ToSet(Buffered') \subseteq ToSet(last.records)
  BY <1>4, <1>6, <1>7, NothingOnce DEF Unwritten
<1>9. FileInv' /\ Written' \subseteq Written \cup ToSet(last.records)
  BY <1>8, FileGrows
<1>10. DOMAIN blocks' \subseteq DOMAIN blocks
  BY <1>2 DEF Restrict
<1>11. ASSUME NEW k \in DOMAIN blocks'
       PROVE  /\ blocks'[k] # <<>> /\ Unplaced(k, blocks'[k], rows)
              /\ \A i \in DOMAIN blocks'[k] : Apart(blocks'[k][i].records, last.records)
  <2>1. CASE k = key
    <3>1. Len(chain) # 1 /\ blocks'[k] = Front(chain)
      BY <1>1, <1>2, <2>1 DEF Restrict
    <3> QED BY <1>4, <2>1, <3>1
  <2>2. CASE k # key
    <3>1. k \in DOMAIN blocks /\ blocks'[k] = blocks[k]
      BY <1>2, <1>10, <2>2 DEF Restrict
    <3>2. blocks[k] # <<>> /\ Unplaced(k, blocks[k], rows)
      BY <3>1 DEF TableInv
    <3>3. ASSUME NEW i \in DOMAIN blocks[k] PROVE Apart(blocks[k][i].records, last.records)
      <4> DEFINE C == Chunk(k)
                 own == blocks[k]
      <4>1. own \in Seq(C)
        BY <3>2 DEF Unplaced
      <4> HIDE DEF C
      <4>2. own[i] \in C
        BY <4>1, ElementOfSeq, LenProperties
      <4>3. \A r \in ToSet(own[i].records) : r.key = k
        BY <4>2 DEF C, Chunk
      <4> QED BY <1>7, <2>2, <4>3 DEF Apart
    <3> QED BY <3>1, <3>2, <3>3
  <2> QED BY <2>1, <2>2
<1>12. ASSUME NEW k \in DOMAIN blocks' PROVE Unplaced(k, blocks[k], rows)'
  <2>1. Chunk(k)' = Chunk(k) /\ rows' = rows
    BY <1>2 DEF Chunk
  <2>2. \A i \in DOMAIN blocks'[k] : \A r \in ToSet(blocks'[k][i].records) : r \notin Written'
    BY <1>9, <1>11 DEF Unplaced, Unwritten, Apart
  <2> QED BY <1>11, <2>1, <2>2 DEF Unplaced, Unwritten
<1>13. rows' = <<>> /\ ToSet(<<>>) = {}
  BY <1>2, NothingOnce DEF TableInv
<1>14. \A r \in Written' : r.load \in 0..loads
  <2>1. \A r \in ToSet(last.records) : r.load = loads
    BY <1>4 DEF Chunk
  <2>2. loads \in Nat /\ loads \in 0..loads
    <3>1. loads \in Nat
      BY DEF TableInv
    <3> QED BY <3>1, SMT
  <2> QED BY <1>9, <2>1, <2>2 DEF TableInv
<1>15. Unwritten(rows)'
  BY <1>13 DEF Unwritten
<1> QED BY <1>2, <1>9, <1>10, <1>11, <1>12, <1>13, <1>14, <1>15 DEF TableInv

\* A step of any other kind puts no record anywhere.
LEMMA NextTable ==
  ASSUME IInv, BuildInv, FileInv, TableInv, [Next]_vars
  PROVE  FileInv' /\ TableInv'
<1>1. Moves
  BY NextBuilds, StoreStepMoves
<1>2. CASE InsertData
  BY <1>1, <1>2, InsertDataKeeps
<1>3. CASE ~InsertData
  <2>1. FileInv' /\ Written' \subseteq Written
    BY <1>1, <1>3, NextQuiet, FileKept
  <2>2. CASE StartLoad
    BY <2>1, <2>2, StartLoadKeeps
  <2>3. CASE ReadRow
    BY <2>1, <2>3, ReadRowKeeps
  <2>4. CASE AtEnd
    BY <2>1, <2>4, TableGone DEF AtEnd, ReadRowThrows, PrintRootThrows, LookupFails,
       ReadDataFails, Exit, Ends, Dies
  <2>5. CASE \/ OpenToLoad \/ OpenToQuery \/ TableRead \/ AskScan \/ LookupReturns \/ SkipSeen
             \/ Answer \/ Reading \/ StartIndex \/ IndexStep \/ Persist \/ Flush \/ AskIndex
             \/ UNCHANGED vars
    <3>1. UNCHANGED <<loads, rows, blocks>>
      BY <2>5 DEF OpenToLoad, OpenToQuery, TableRead, AskScan, LookupReturns, SkipSeen, Answer,
         Reading, PrintRoot, LookupStep, SkipBlock, TakeBlock, ReadData, StartIndex, IndexStep,
         Persist, Flush, AskIndex, inputVars, vars
    <3>2. (pc # "rows" => rows = <<>>) /\ (pc \notin {"rows", "data"} => DOMAIN blocks = {})
      BY DEF TableInv
    <3>3. (pc' # "rows" => rows = <<>>) /\ (pc' \notin {"rows", "data"} => DOMAIN blocks = {})
      BY <2>5, <3>2 DEF OpenToLoad, OpenToQuery, TableRead, AskScan, LookupReturns, SkipSeen,
         Answer, Reading, PrintRoot, LookupStep, SkipBlock, TakeBlock, ReadData, StartIndex,
         IndexStep, Persist, Flush, AskIndex, vars
    <3> QED BY <2>1, <3>1, <3>3, TableKept
  <2> QED BY <1>3, <2>1, <2>2, <2>3, <2>4, <2>5, NextCases DEF InMemory
<1> QED BY <1>2, <1>3

-----------------------------------------------------------------------------
(* Answers.                                                                *)

\* A query has an empty buffer, whatever was in it when the store was closed.
LEMMA QueryWritesNothing ==
  ASSUME IInv, QueryInv, [Next]_vars
  PROVE  pc' \in {"query", "lookup", "scan", "done"} => pending' = NoWrite
<1>1. ~open => pending = NoWrite
  BY DEF IInv, StoreTypeOK, StoreInv, PendingIsRecent
<1>2. CASE OpenToLoad \/ OpenToQuery
  BY <1>1, <1>2 DEF OpenToLoad, OpenToQuery, Open
<1>3. CASE InMemory
  BY <1>3 DEF InMemory, StartLoad, ReadRow, TableRead, AskScan, LookupReturns, SkipSeen, Answer,
     storeVars, QueryInv
<1>4. CASE AtEnd
  BY <1>4 DEF AtEnd, ReadRowThrows, PrintRootThrows, LookupFails, ReadDataFails,
     Exit, Dies, Ends, Gone
<1>5. CASE Reading
  BY <1>5 DEF Reading, PrintRoot, LookupStep, CallStep, Descend, ReachLeaf, NextLeafOfRange,
     ReadNode, SkipBlock, TakeBlock, ReadData, Fetch
<1>6. CASE InsertData \/ StartIndex \/ IndexStep \/ Persist \/ Flush
  BY <1>6 DEF InsertData, StartIndex, IndexStep, Persist, Flush
<1>7. CASE AskIndex \/ UNCHANGED vars
  BY <1>7 DEF AskIndex, StartCall, storeVars, vars, QueryInv
<1> QED BY <1>2, <1>3, <1>4, <1>5, <1>6, <1>7, NextCases

\* A block that is read as data holds the records that the file has there, and
\* if its key is in the range, so are all of them.
LEMMA DataIsRead ==
  ASSUME IInv, FileInv, pending = NoWrite, NEW id, Readable(id, "data")
  PROVE  /\ id \in ToSet(meta.data) /\ id \in BlockIds /\ DataAt(id).records = OnDisk(id)
         /\ \A r \in ToSet(OnDisk(id)) : Matches(DataKey(DataAt(id))) <=> InRange(r.key)
<1>1. id \in ToSet(meta.data) /\ id \in BlockIds
  <2>1. meta.data \in Seq(BlockIds)
    BY DEF IInv, StoreTypeOK
  <2>2. meta.data \in Seq(Int)
    <3> DEFINE s == meta.data
    <3>1. s \in Seq(BlockIds) /\ Len(s) \in Nat /\ DOMAIN s = 1..Len(s)
      BY <2>1, LenProperties
    <3>2. \A b \in BlockIds : b \in Int
      BY BlocksAssumption, SMT DEF BlockIds
    <3> HIDE DEF s
    <3>3. s \in [1..Len(s) -> BlockIds]
      BY <3>1, LenProperties
    <3>4. s \in [1..Len(s) -> Int]
      BY <3>2, <3>3
    <3> QED BY <3>1, <3>4, SeqDef DEF s
  <2>3. BinarySearch(meta.data, id)
    BY DEF Readable, KindOf
  <2>4. id \in ToSet(meta.data)
    BY <2>2, <2>3, BinarySearchIsRight
  <2> QED BY <2>1, <2>4, LenProperties, ElementOfSeq DEF ToSet
<1>2. Content(id) = disk[id]
  BY DEF Content, DiskAfter, NoWrite
<1>3. DataAt(id).records = OnDisk(id)
  BY <1>2 DEF Readable, DataAt, EmptyData, OnDisk, RecordsOf, IsData
<1>4. ASSUME NEW r \in ToSet(OnDisk(id)) PROVE Matches(DataKey(DataAt(id))) <=> InRange(r.key)
  <2> DEFINE s == OnDisk(id)
  <2>1. OneKey(s)
    BY <1>1 DEF FileInv
  <2>2. r \in ToSet(s)
    BY <1>4
  <2> HIDE DEF s
  <2>3. s \in Seq(Rows) /\ r.key = s[1].key /\ s # <<>>
    BY <2>1, <2>2, NothingOnce DEF OneKey, ToSet
  <2>4. DataKey(DataAt(id)) = s[1].key
    <3>1. Head(s) = s[1]
      BY <2>3, SMT
    <3> QED BY <1>3, <2>3, <3>1 DEF DataKey, s
  <2> QED BY <1>4, <2>3, <2>4 DEF Matches, InRange
<1> QED BY <1>1, <1>3, <1>4

LEMMA TakeBlockKeeps ==
  ASSUME IInv, FileInv, QueryInv, TakeBlock
  PROVE  QueryInv'
<1> DEFINE id == Head(scanIds)
           more == OnDisk(id)
<1>1. /\ pending = NoWrite /\ id \notin seen /\ Readable(id, "data") /\ Fetch
      /\ UNCHANGED <<call, pc>> /\ pc = "scan"
  BY DEF QueryInv, TakeBlock, ReadData, Seen
<1>2. pending' = NoWrite /\ disk' = disk
  BY <1>1 DEF Fetch, Apply, DiskAfter, NoWrite
<1>3. /\ id \in BlockIds /\ DataAt(id).records = more
      /\ \A r \in ToSet(more) : InRange(r.key)
  BY <1>1, DataIsRead DEF TakeBlock
<1>4. records' = records \o more /\ seen' = seen \cup {id}
  BY <1>3 DEF TakeBlock
<1>5. more \in Seq(Rows) /\ Once(more)
  BY <1>3 DEF FileInv, OneKey
<1>6. Apart(records, more)
  <2>1. ASSUME NEW r \in ToSet(records) PROVE r \notin ToSet(more)
    <3>1. PICK other \in seen : r \in ToSet(OnDisk(other))
      BY DEF QueryInv
    <3>2. other \in BlockIds /\ other # id
      BY <1>1, <3>1 DEF QueryInv
    <3>3. Apart(OnDisk(other), more)
      BY <1>3, <3>2 DEF FileInv
    <3> QED BY <3>1, <3>3 DEF Apart
  <2> QED BY <2>1 DEF Apart
<1>7. ToSet(more) = ToSet(OnDisk(id))
  OBVIOUS
<1>8. \A other \in BlockIds : OnDisk(other)' = OnDisk(other)
  BY <1>2 DEF OnDisk
<1> HIDE DEF more, id
<1>9. /\ records \o more \in Seq(Rows) /\ Once(records \o more)
      /\ ToSet(records \o more) = ToSet(records) \cup ToSet(more)
  BY <1>5, <1>6, ConcatOnce DEF QueryInv
<1>10. seen' \subseteq BlockIds /\ seen \subseteq BlockIds
  BY <1>3, <1>4 DEF QueryInv
<1>11. ASSUME NEW r \in ToSet(records')
       PROVE  InRange(r.key)' /\ \E other \in seen' : r \in ToSet(OnDisk(other)')
  <2>1. InRange(r.key) /\ \E other \in seen' : r \in ToSet(OnDisk(other))
    BY <1>3, <1>4, <1>7, <1>9 DEF QueryInv
  <2>2. InRange(r.key)'
    BY <1>1, <2>1 DEF InRange
  <2> QED BY <1>8, <1>10, <2>1, <2>2
<1> QED BY <1>1, <1>2, <1>4, <1>9, <1>10, <1>11 DEF QueryInv

\* Steps that leave an answer as it is, or have none.
LEMMA NextQuery ==
  ASSUME IInv, FileInv, QueryInv, [Next]_vars
  PROVE  QueryInv'
<1>1. pc' \in {"query", "lookup", "scan", "done"} => pending' = NoWrite
  BY QueryWritesNothing
<1>2. CASE TakeBlock
  BY <1>2, TakeBlockKeeps
<1>3. CASE SkipSeen \/ SkipBlock \/ Answer \/ UNCHANGED vars
  <2>1. UNCHANGED <<call, disk, seen, records>> /\ (pc = pc' \/ (pc = "scan" /\ pc' = "done"))
    <3>1. CASE SkipBlock
      <4>1. pending = NoWrite /\ Fetch
        BY <3>1 DEF SkipBlock, ReadData, QueryInv
      <4>2. disk' = disk
        BY <4>1 DEF Fetch, Apply, DiskAfter, NoWrite
      <4> QED BY <3>1, <4>2 DEF SkipBlock, ReadData
    <3>2. CASE SkipSeen \/ Answer \/ UNCHANGED vars
      BY <3>2 DEF SkipSeen, Answer, vars, storeVars, treeVars, queryVars
    <3> QED BY <1>3, <3>1, <3>2
  <2>2. ToSet(records)' = ToSet(records) /\ \A r : InRange(r.key)' = InRange(r.key)
    BY <2>1 DEF InRange
  <2>3. \A id : OnDisk(id)' = OnDisk(id)
    BY <2>1 DEF OnDisk
  <2> QED BY <1>1, <2>1, <2>2, <2>3 DEF QueryInv
<1>4. CASE records' = <<>> /\ seen' = {}
  <2>1. <<>> \in Seq(Rows) /\ Once(<<>>) /\ ToSet(<<>>) = {}
    BY NothingOnce DEF OneKey
  <2> QED BY <1>1, <1>4, <2>1 DEF QueryInv
<1>5. CASE AtEnd
  BY <1>4, <1>5 DEF AtEnd, ReadRowThrows, PrintRootThrows, LookupFails, ReadDataFails,
     Exit, Dies, Ends, Gone
<1>6. CASE OpenToLoad \/ OpenToQuery \/ StartLoad \/ ReadRow \/ TableRead \/ AskScan
           \/ LookupReturns \/ PrintRoot \/ LookupStep
  BY <1>4, <1>6 DEF OpenToLoad, OpenToQuery, StartLoad, ReadRow, TableRead, AskScan,
     LookupReturns, PrintRoot, LookupStep, queryVars, QueryInv
<1>7. CASE InsertData \/ StartIndex \/ IndexStep \/ Persist \/ Flush \/ AskIndex
  BY <1>4, <1>7 DEF InsertData, StartIndex, IndexStep, Persist, Flush, AskIndex,
     queryVars, QueryInv
<1> QED BY <1>2, <1>3, <1>5, <1>6, <1>7, NextCases DEF InMemory, Reading

\* All of it holds at every moment.
DataInv == IInv /\ BuildInv /\ FileInv /\ TableInv /\ QueryInv

LEMMA DataKept == Spec => []DataInv
<1>1. Init => DataInv
  <2> SUFFICES ASSUME Init PROVE DataInv
    OBVIOUS
  <2>1. IInv /\ BuildInv
    BY InitInv, NoPairs DEF Init, TreeInit, BuildInv
  <2>2. \A id \in BlockIds : OnDisk(id) = <<>>
    BY DEF Init, StoreInit, Hole, OnDisk, RecordsOf, IsData
  <2>3. Buffered = <<>> /\ pending = NoWrite /\ pending.to # "block"
    BY DEF Init, StoreInit, NoWrite, Buffered
  <2>4. OneKey(<<>>) /\ ToSet(<<>>) = {} /\ <<>> \in Seq(Rows) /\ Once(<<>>)
    BY NothingOnce DEF OneKey
  <2>5. FileInv /\ Written = {}
    BY <2>2, <2>3, <2>4 DEF FileInv, Written, Apart
  <2>6. TableInv
    BY <2>4, <2>5 DEF Init, TableInv, Unwritten, EmptyMap
  <2>7. QueryInv
    BY <2>3, <2>4 DEF Init, QueryInv
  <2> QED BY <2>1, <2>5, <2>6, <2>7 DEF DataInv
<1>2. DataInv /\ [Next]_vars => DataInv'
  BY NextBuilds, StoreStepInv, NextTable, NextQuery DEF DataInv
<1> QED BY <1>1, <1>2, PTL DEF Spec

\* Whatever a torn or overgrown metadata block, a crash or a damaged block did
\* to the file, and whatever was loaded into it how often, a query that comes to
\* an end answers with records of its range, and with none of them twice.
THEOREM AnswersStaySound == Spec => []AnswersAreSound
<1>1. DataInv => AnswersAreSound
  <2> SUFFICES ASSUME QueryInv, NEW i \in DOMAIN records
               PROVE  /\ InRange(records[i].key)
                      /\ \A j \in 1..i - 1 : records[j] # records[i]
    BY DEF AnswersAreSound, DataInv
  <2>1. records[i] \in ToSet(records)
    BY DEF ToSet
  <2>2. \A j \in 1..i - 1 : j \in DOMAIN records /\ j # i
    <3>1. records \in Seq(Rows)
      BY DEF QueryInv
    <3> QED BY <3>1, SMT
  <2> QED BY <2>1, <2>2 DEF QueryInv, Once
<1> QED BY DataKept, <1>1, PTL

-----------------------------------------------------------------------------
(* Scans.                                                                  *)

\* Records of the blocks that metadata lists.
Listing(m) == UNION {ToSet(OnDisk(id)) : id \in ToSet(m.data)}

\* A scan has what the file had when the store was opened.  What it has not
\* taken from a listed block is out of the range, or the block is in its queue,
\* whatever links it followed.
Answered(id) == \A r \in ToSet(OnDisk(id)) : InRange(r.key) => r \in ToSet(records)
ScanInv ==
  /\ status # "written" => header = <<>> /\ \A id \in BlockIds : OnDisk(id) = <<>>
  /\ call.op = "scan" => pc \in {"scan", "done"}
  /\ pc = "query" \/ call.op = "scan" => Listing(meta) = Listing(FileMeta)
  /\ seen \subseteq ToSet(meta.data)
  /\ \A id \in seen : ToSet(OnDisk(id)) \subseteq ToSet(records)
  /\ call.op = "scan" =>
       /\ \E S : scanIds \in Seq(S)
       /\ pc = "done" => scanIds = <<>>
       /\ \A id \in ToSet(meta.data) : id \in ToSet(scanIds) \/ Answered(id)

\* The first of a queue, and the others.
LEMMA HeadOrTail ==
  ASSUME NEW S, NEW s \in Seq(S), s # <<>>
  PROVE  ToSet(s) = {Head(s)} \cup ToSet(Tail(s))
<1>1. /\ Tail(s) \in Seq(S) /\ Head(s) = s[1]
      /\ DOMAIN s = 1..Len(s) /\ Len(s) \in Nat /\ Len(s) > 0
      /\ DOMAIN Tail(s) = 1..Len(s) - 1
      /\ \A i \in 1..Len(s) - 1 : Tail(s)[i] = s[i + 1]
  BY SMT
<1>2. ASSUME NEW i \in DOMAIN s PROVE s[i] \in {Head(s)} \cup ToSet(Tail(s))
  <2>1. CASE i = 1
    BY <1>1, <2>1
  <2>2. CASE i # 1
    <3>1. i - 1 \in 1..Len(s) - 1 /\ (i - 1) + 1 = i
      BY <1>1, <2>2, SMT
    <3>2. Tail(s)[i - 1] = s[i]
      BY <1>1, <3>1
    <3> QED BY <1>1, <3>1, <3>2 DEF ToSet
  <2> QED BY <2>1, <2>2
<1>3. {Head(s)} \cup ToSet(Tail(s)) \subseteq ToSet(s)
  BY TailOnce
<1> QED BY <1>2, <1>3 DEF ToSet

\* A file that has no byte holds no block.
LEMMA NothingWritten ==
  ASSUME IInv, StoreStep, status' # "written"
  PROVE  status # "written" /\ UNCHANGED <<header, disk>>
<1>1. CASE Open \/ UNCHANGED storeVars \/ \E id \in BlockIds : SetRoot(id)
  BY <1>1 DEF Open, storeVars, SetRoot
<1>2. ASSUME NEW write, Apply(write)
      PROVE  status # "written" /\ UNCHANGED <<header, disk>>
  BY <1>2 DEF Apply, HeaderAfter, DiskAfter
<1>3. CASE \/ \E block : Insert(block)
           \/ \E id \in Own : \E block : Update(id, block)
           \/ Fetch \/ PersistWrite \/ PersistFlush \/ Close \/ Crash
  BY <1>2, <1>3 DEF Insert, Update, Fetch, PersistWrite, PersistFlush, Close, Crash
<1> QED BY <1>1, <1>3 DEF StoreStep

\* What a process finds in the file when it opens it.
LEMMA OpenFinds ==
  ASSUME IInv, ScanInv, Open
  PROVE  (Listing(meta) = Listing(FileMeta))'
<1>1. UNCHANGED <<header, disk>> /\ meta' \in MetaOnOpen
  BY DEF Open
<1>2. Listing(FileMeta)' = Listing(FileMeta)
  BY <1>1 DEF Listing, FileMeta, OnDisk
<1>3. Listing(meta)' = UNION {ToSet(OnDisk(id)) : id \in ToSet(meta'.data)}
  BY <1>1 DEF Listing, OnDisk
<1>4. CASE status = "written"
  BY <1>1, <1>2, <1>3, <1>4 DEF MetaOnOpen, FileMeta, Listing
<1>5. CASE status # "written"
  <2>1. \A id \in BlockIds : ToSet(OnDisk(id)) = {}
    BY <1>5, NothingOnce DEF ScanInv
  <2>2. ToSet(meta'.data) \subseteq BlockIds
    BY OpenInv, IdsAreBlockIds, InvFacts DEF IdsOf, IInv, StoreTypeOK, MetaType
  <2>3. ToSet(FileMeta.data) \subseteq BlockIds
    BY InvFacts, DecodeLemma, IdsAreBlockIds DEF IdsOf, FileMeta
  <2> QED BY <1>2, <1>3, <2>1, <2>2, <2>3 DEF Listing
<1> QED BY <1>4, <1>5

\* A step of the loop over the queue: the file stands still.
LEMMA ScanStep ==
  ASSUME DataInv, SkipSeen \/ SkipBlock \/ TakeBlock \/ Answer
  PROVE  /\ UNCHANGED <<status, header, disk, meta, call>> /\ pc = "scan"
         /\ Listing(meta)' = Listing(meta) /\ Listing(FileMeta)' = Listing(FileMeta)
         /\ \A id : OnDisk(id)' = OnDisk(id)
         /\ \A key : InRange(key)' = InRange(key)
<1>1. CASE SkipSeen \/ Answer
  <2>1. UNCHANGED <<status, header, disk, meta, call>> /\ pc = "scan"
    BY <1>1 DEF SkipSeen, Answer, storeVars, treeVars
  <2> QED BY <2>1 DEF Listing, FileMeta, OnDisk, InRange
<1>2. CASE SkipBlock \/ TakeBlock
  <2>1. pc = "scan" /\ Fetch /\ pending = NoWrite /\ call' = call
    BY <1>2 DEF SkipBlock, TakeBlock, ReadData, DataInv, QueryInv
  <2>2. UNCHANGED <<status, header, disk, meta>>
    BY <2>1 DEF Fetch, Apply, HeaderAfter, DiskAfter, NoWrite
  <2> QED BY <2>1, <2>2 DEF Listing, FileMeta, OnDisk, InRange
<1> QED BY <1>1, <1>2

\* The block at the head of the queue leaves it when it is seen, when it holds
\* nothing in the range, or when all of it is taken.
LEMMA ScanGoesOn ==
  ASSUME DataInv, ScanInv, SkipSeen \/ SkipBlock \/ TakeBlock
  PROVE  ScanInv'
<1> DEFINE h == Head(scanIds)
           rest == Tail(scanIds)
<1>1. /\ UNCHANGED <<status, header, disk, meta, call, pc>> /\ pc = "scan"
      /\ Listing(meta)' = Listing(meta) /\ Listing(FileMeta)' = Listing(FileMeta)
      /\ \A id : OnDisk(id)' = OnDisk(id)
      /\ \A key : InRange(key)' = InRange(key)
  <2>1. pc' = pc
    BY DEF SkipSeen, SkipBlock, TakeBlock, ReadData
  <2> QED BY <2>1, ScanStep
<1>2. scanIds # <<>>
  BY DEF SkipSeen, SkipBlock, TakeBlock, ReadData
<1>3. /\ ToSet(records) \subseteq ToSet(records')
      /\ seen' = seen \/ (seen' = seen \cup {h} /\ h \in ToSet(meta.data)
                          /\ ToSet(OnDisk(h)) \subseteq ToSet(records'))
      /\ \A r \in ToSet(OnDisk(h)) : InRange(r.key) => r \in ToSet(records')
      /\ scanIds' = rest \/ \E L : \E links \in Seq(L) : scanIds' = rest \o links
  <2> DEFINE Goal ==
        /\ ToSet(records) \subseteq ToSet(records')
        /\ seen' = seen \/ (seen' = seen \cup {h} /\ h \in ToSet(meta.data)
                            /\ ToSet(OnDisk(h)) \subseteq ToSet(records'))
        /\ \A r \in ToSet(OnDisk(h)) : InRange(r.key) => r \in ToSet(records')
        /\ scanIds' = rest \/ \E L : \E links \in Seq(L) : scanIds' = rest \o links
  <2>1. CASE SkipSeen
    BY <2>1 DEF SkipSeen, Seen, ScanInv
  <2>2. CASE SkipBlock \/ TakeBlock
    <3>1. Readable(h, "data") /\ pending = NoWrite /\ IInv /\ FileInv
      BY <2>2 DEF SkipBlock, TakeBlock, ReadData, DataInv, QueryInv
    <3>2. /\ h \in ToSet(meta.data) /\ h \in BlockIds /\ DataAt(h).records = OnDisk(h)
          /\ \A r \in ToSet(OnDisk(h)) : Matches(DataKey(DataAt(h))) <=> InRange(r.key)
      BY <3>1, DataIsRead
    <3>3. CASE SkipBlock
      BY <3>2, <3>3 DEF SkipBlock
    <3>4. CASE TakeBlock
      <4>1. records' = records \o OnDisk(h) /\ seen' = seen \cup {h}
        BY <3>2, <3>4 DEF TakeBlock
      <4>2. ToSet(records') = ToSet(records) \cup ToSet(OnDisk(h))
        <5>1. records \in Seq(Rows) /\ OnDisk(h) \in Seq(Rows)
          BY <3>2 DEF DataInv, QueryInv, FileInv, OneKey
        <5> QED BY <4>1, <5>1, ConcatOnce
      <4>3. \E L : \E links \in Seq(L) : scanIds' = rest \o links
        <5> DEFINE next == DataAt(h).next
                   links == IF next = BlockNull THEN <<>> ELSE <<next>>
        <5>1. scanIds' = rest \o links
          BY <3>4 DEF TakeBlock
        <5>2. links \in Seq({next})
          <6>1. <<>> \in Seq({next})
            BY EmptySeq
          <6>2. <<next>> \in Seq({next})
            <7> DEFINE n == next
            <7>1. \A x : <<x>> \in Seq({x})
              BY SMT
            <7> QED BY <7>1, Zenon
          <6> QED BY <6>1, <6>2, Zenon
        <5> QED BY <5>1, <5>2
      <4> QED BY <3>2, <4>1, <4>2, <4>3
    <3> QED BY <2>2, <3>3, <3>4
  <2> QED BY <2>1, <2>2
<1>4. seen' \subseteq ToSet(meta.data) /\ \A id \in seen' : ToSet(OnDisk(id)) \subseteq ToSet(records')
  BY <1>3 DEF ScanInv
<1>5. ASSUME call.op = "scan"
      PROVE  /\ \E S : scanIds' \in Seq(S)
             /\ \A id \in ToSet(meta.data) :
                  \/ id \in ToSet(scanIds')
                  \/ \A r \in ToSet(OnDisk(id)) : InRange(r.key) => r \in ToSet(records')
  <2>1. PICK S : scanIds \in Seq(S)
    BY <1>5 DEF ScanInv
  <2>2. rest \in Seq(S) /\ ToSet(scanIds) = {h} \cup ToSet(rest)
    BY <1>2, <2>1, TailOnce, HeadOrTail
  <2> HIDE DEF rest, h
  <2>3. (\E T : scanIds' \in Seq(T)) /\ ToSet(rest) \subseteq ToSet(scanIds')
    <3>1. CASE scanIds' = rest
      BY <2>2, <3>1
    <3>2. ASSUME NEW L, NEW links \in Seq(L), scanIds' = rest \o links
          PROVE  (\E T : scanIds' \in Seq(T)) /\ ToSet(rest) \subseteq ToSet(scanIds')
      <4> DEFINE T == S \cup L
      <4>1. rest \in Seq(T) /\ links \in Seq(T)
        <5>1. S \subseteq T /\ L \subseteq T
          OBVIOUS
        <5> HIDE DEF T
        <5> QED BY <2>2, <5>1, SeqMonotonic, Zenon
      <4> HIDE DEF T
      <4>2. rest \o links \in Seq(T) /\ ToSet(rest \o links) = ToSet(rest) \cup ToSet(links)
        BY <4>1, ConcatOnce
      <4> QED BY <3>2, <4>2
    <3> QED BY <1>3, <3>1, <3>2
  <2>4. ASSUME NEW id \in ToSet(meta.data), id \notin ToSet(scanIds')
        PROVE  \A r \in ToSet(OnDisk(id)) : InRange(r.key) => r \in ToSet(records')
    <3>1. CASE id = h
      BY <1>3, <3>1
    <3>2. CASE id # h
      <4>1. Answered(id)
        BY <1>5, <2>2, <2>3, <2>4, <3>2 DEF ScanInv
      <4> QED BY <1>3, <4>1 DEF Answered
    <3> QED BY <3>1, <3>2
  <2> QED BY <2>3, <2>4
<1> HIDE DEF h, rest
<1>6. ASSUME NEW id PROVE Answered(id)' <=>
        \A r \in ToSet(OnDisk(id)) : InRange(r.key) => r \in ToSet(records')
  BY <1>1 DEF Answered
<1> QED BY <1>1, <1>4, <1>5, <1>6 DEF ScanInv

\* Opening a file, asking for a scan, and the steps of the loop apart, nothing
\* that a scan goes by changes, or the process is no scan.
LEMMA NextScan ==
  ASSUME DataInv, ScanInv, [Next]_vars
  PROVE  ScanInv'
<1>1. StoreStep /\ IInv
  BY NextBuilds DEF DataInv
<1>2. status' # "written" => header' = <<>> /\ \A id \in BlockIds : OnDisk(id)' = <<>>
  BY <1>1, NothingWritten DEF ScanInv, OnDisk
<1>3. CASE SkipSeen \/ SkipBlock \/ TakeBlock
  BY <1>3, ScanGoesOn
<1>4. CASE UNCHANGED vars
  <2>1. UNCHANGED <<status, header, disk, meta, call, pc, seen, records, scanIds>>
    BY <1>4 DEF vars, storeVars, treeVars, queryVars
  <2>2. \A id : Answered(id)' = Answered(id)
    BY <2>1 DEF Answered, OnDisk, InRange
  <2>3. (\A id : OnDisk(id)' = OnDisk(id)) /\ Listing(meta)' = Listing(meta)
        /\ Listing(FileMeta)' = Listing(FileMeta)
    BY <2>1 DEF Listing, FileMeta, OnDisk
  <2> QED BY <2>1, <2>2, <2>3 DEF ScanInv
<1>5. CASE Answer
  <2>1. /\ UNCHANGED <<status, header, disk, meta, call>>
        /\ Listing(meta)' = Listing(meta) /\ Listing(FileMeta)' = Listing(FileMeta)
        /\ (\A id : OnDisk(id)' = OnDisk(id)) /\ (\A key : InRange(key)' = InRange(key))
    BY <1>5, ScanStep
  <2>2. scanIds = <<>> /\ pc' = "done" /\ UNCHANGED <<seen, records, scanIds>>
    BY <1>5 DEF Answer, queryVars
  <2>3. \A id : Answered(id)' = Answered(id)
    BY <2>1, <2>2 DEF Answered
  <2> QED BY <2>1, <2>2, <2>3 DEF ScanInv
<1>6. CASE AskScan
  <2>1. /\ UNCHANGED <<status, header, disk, meta, seen, records>>
        /\ call'.op = "scan" /\ scanIds' = meta.data /\ pc = "query" /\ pc' = "scan"
    BY <1>6 DEF AskScan, storeVars
  <2>2. seen' = {}
    BY <2>1 DEF DataInv, QueryInv
  <2>3. (Listing(meta) = Listing(FileMeta))'
    BY <2>1 DEF ScanInv, Listing, FileMeta, OnDisk
  <2>4. scanIds' \in Seq(BlockIds)
    BY <2>1 DEF DataInv, IInv, StoreTypeOK
  <2> QED BY <1>2, <2>1, <2>2, <2>3, <2>4 DEF ScanInv
\* No query has begun.
<1>7. ASSUME seen' = {}, call'.op # "scan", pc' = "query" => (Listing(meta) = Listing(FileMeta))'
      PROVE  ScanInv'
  BY <1>2, <1>7 DEF ScanInv
<1>8. CASE OpenToLoad \/ OpenToQuery
  <2>1. pc = "closed" /\ Open /\ UNCHANGED <<call, seen>>
    BY <1>8 DEF OpenToLoad, OpenToQuery, treeVars, queryVars
  <2>2. seen = {} /\ call.op # "scan"
    BY <2>1 DEF DataInv, QueryInv, ScanInv
  <2> QED BY <1>1, <1>7, <2>1, <2>2, OpenFinds
<1>9. CASE AtEnd
  <2>1. pc' = "closed" /\ seen' = {} /\ call' = NoCall
    BY <1>9 DEF AtEnd, ReadRowThrows, PrintRootThrows, LookupFails, ReadDataFails, Exit, Ends,
       Dies, Gone, TreeReset
  <2> QED BY <1>7, <2>1 DEF NoCall
<1>10. CASE AskIndex
  <2>1. pc = "query" /\ pc' = "lookup" /\ seen' = seen /\ call'.op = "range"
    BY <1>10 DEF AskIndex, StartCall, queryVars
  <2> QED BY <1>7, <2>1 DEF DataInv, QueryInv
<1>11. CASE \/ StartLoad \/ ReadRow \/ TableRead \/ LookupReturns \/ PrintRoot \/ LookupStep
            \/ InsertData \/ StartIndex \/ IndexStep \/ Persist \/ Flush
  <2>1. /\ UNCHANGED <<call, seen>> /\ pc' # "query"
        /\ pc \notin {"scan", "done"}
    <3>1. CASE \/ StartLoad \/ ReadRow \/ TableRead \/ LookupReturns \/ PrintRoot
               \/ InsertData \/ StartIndex \/ Persist \/ Flush
      BY <3>1 DEF StartLoad, ReadRow, TableRead, LookupReturns, PrintRoot, InsertData, StartIndex,
         BulkLoad, Persist, Flush, treeVars, callVars, queryVars
    <3>2. CASE LookupStep
      BY <3>2 DEF LookupStep, CallStep, Descend, ReachLeaf, NextLeafOfRange, ReadNode, queryVars
    <3>3. CASE IndexStep
      BY <3>3 DEF IndexStep, LoadStep, NewLeaf, LinkLeaf, FillLeaf, NewInternal, FillInternal, Fill,
         NextLevel, RootDone, callVars, queryVars
    <3> QED BY <1>11, <3>1, <3>2, <3>3
  <2>2. seen = {} /\ call.op # "scan"
    BY <2>1 DEF DataInv, QueryInv, ScanInv
  <2> QED BY <1>7, <2>1, <2>2
<1> QED BY <1>3, <1>4, <1>5, <1>6, <1>8, <1>9, <1>10, <1>11, NextCases DEF InMemory, Reading

\* A sequence without repetition is as long as its set is large.
LEMMA OnceCounts ==
  ASSUME NEW S, NEW s \in Seq(S), Once(s)
  PROVE  Cardinality(ToSet(s)) = Len(s)
<1>1. Len(s) \in Nat /\ DOMAIN s = 1..Len(s)
  BY LenProperties
<1>2. s \in [1..Len(s) -> ToSet(s)]
  <2>1. s = [i \in 1..Len(s) |-> s[i]]
    BY <1>1, LenProperties
  <2>2. \A i \in 1..Len(s) : s[i] \in ToSet(s)
    BY <1>1 DEF ToSet
  <2> QED BY <2>1, <2>2
<1>3. s \in Bijection(1..Len(s), ToSet(s))
  BY <1>1, <1>2 DEF Bijection, Injection, Surjection, IsInjective, Once, ToSet
<1>4. ExistsBijection(1..Len(s), ToSet(s))
  BY <1>3 DEF ExistsBijection
<1> QED BY <1>1, <1>4, FS_CountingElements

LEMMA ScanKept == Spec => [](DataInv /\ ScanInv)
<1>1. Init => ScanInv
  <2> SUFFICES ASSUME Init PROVE ScanInv
    OBVIOUS
  <2>1. \A id \in BlockIds : OnDisk(id) = <<>>
    BY DEF Init, StoreInit, Hole, OnDisk, RecordsOf, IsData
  <2> QED BY <2>1 DEF Init, StoreInit, TreeInit, NoCall, ScanInv
<1>2. DataInv /\ ScanInv /\ [Next]_vars => ScanInv'
  BY NextScan
<1> QED BY DataKept, <1>1, <1>2, PTL DEF Spec

LEMMA StoredIsListed == Stored = Listing(FileMeta)
<1>1. \A id : RecordsIn(id) = ToSet(OnDisk(id))
  BY NothingOnce DEF RecordsIn, OnDisk, RecordsOf, IsData
<1> QED BY <1>1 DEF Stored, Listing

\* database.h:40-43: a scan that comes to an end answers with every record of
\* the range that is in a listed block, once, and with no other, for every table
\* and range, whatever happened to the file before.
THEOREM ScansAreExact == Spec => []ScanIsExact
<1>1. DataInv /\ ScanInv => ScanIsExact
  <2> SUFFICES ASSUME DataInv, ScanInv, pc = "done", call.op = "scan"
               PROVE  /\ ToSet(records) = Matching(Stored)
                      /\ Len(records) = Cardinality(Matching(Stored))
    BY DEF ScanIsExact
  <2>1. Stored = Listing(meta)
    BY StoredIsListed DEF ScanInv
  <2>2. ToSet(scanIds) = {}
    BY NothingOnce DEF ScanInv
  <2>3. \A id \in ToSet(meta.data) : Answered(id)
    BY <2>2 DEF ScanInv
  <2>4. Matching(Stored) \subseteq ToSet(records)
    BY <2>1, <2>3 DEF Listing, Answered, Matching
  <2>5. ToSet(records) \subseteq Matching(Stored)
    BY <2>1 DEF DataInv, QueryInv, ScanInv, Listing, Matching
  <2>6. ToSet(records) = Matching(Stored)
    BY <2>4, <2>5
  <2>7. records \in Seq(Rows) /\ Once(records)
    BY DEF DataInv, QueryInv
  <2> QED BY <2>6, <2>7, OnceCounts
<1> QED BY ScanKept, <1>1, PTL
-----------------------------------------------------------------------------
(* What a block of the file leads to.                                      *)

UnderOf(u, id) == RecordsIn(id) \cup UNION {u[p] : p \in LeadsTo(id)}
IsUnder(u, most) == u = [id \in 0..most |-> UnderOf(u, id)]

LEMMA UnderLocal ==
  ASSUME NEW u, NEW v, NEW id, id \in Nat, \A p \in 0..id - 1 : u[p] = v[p]
  PROVE  UnderOf(u, id) = UnderOf(v, id)
<1> PICK L : L = LeadsTo(id)
  OBVIOUS
<1>1. L \subseteq 0..id - 1
  BY DEF LeadsTo
<1>2. {u[p] : p \in L} = {v[p] : p \in L}
  BY <1>1
<1>3. UnderOf(u, id) = RecordsIn(id) \cup UNION {u[p] : p \in L}
  BY DEF UnderOf
<1>4. UnderOf(v, id) = RecordsIn(id) \cup UNION {v[p] : p \in L}
  BY DEF UnderOf
<1> PICK U, V : U = {u[p] : p \in L} /\ V = {v[p] : p \in L}
  OBVIOUS
<1>5. UnderOf(u, id) = RecordsIn(id) \cup UNION U /\ UnderOf(v, id) = RecordsIn(id) \cup UNION V
  BY <1>3, <1>4, Zenon
<1> QED BY <1>2, <1>5

LEMMA UnderExists ==
  ASSUME NEW most, most \in Nat
  PROVE  \E u : IsUnder(u, most)
<1> DEFINE Bad == {n \in Nat : ~\E u : IsUnder(u, n)}
<1> SUFFICES ASSUME Bad # {} PROVE FALSE
  BY Zenon
<1>1. PICK n \in Bad : \A m \in Bad : n <= m
  BY LeastNat, Zenon
<1>2. n \in Nat /\ ~\E u : IsUnder(u, n)
  BY Zenon
<1>3. CASE n = 0
  <2> DEFINE none == [id \in 0..0 |-> 0]
             g == [id \in 0..0 |-> UnderOf(none, id)]
  <2>1. \A id \in 0..0 : UnderOf(none, id) = UnderOf(g, id)
    <3> SUFFICES ASSUME NEW id \in 0..0 PROVE UnderOf(none, id) = UnderOf(g, id)
      BY Zenon
    <3>1. id \in Nat /\ \A k \in 0..id - 1 : none[k] = g[k]
      BY SMT
    <3> HIDE DEF none, g
    <3> QED BY <3>1, UnderLocal
  <2>2. IsUnder(g, 0)
    BY <2>1, Zenon DEF IsUnder
  <2> QED BY <1>2, <1>3, <2>2, Zenon
<1>4. CASE n # 0
  <2>1. n - 1 \in Nat /\ ~(n <= n - 1)
    BY <1>2, <1>4, SMT
  <2>2. PICK g : IsUnder(g, n - 1)
    BY <1>1, <2>1, Zenon
  <2> DEFINE h == [id \in 0..n |-> IF id = n THEN UnderOf(g, n) ELSE g[id]]
  <2>3. \A k \in 0..n - 1 : h[k] = g[k] /\ g[k] = UnderOf(g, k)
    BY <1>2, <2>2, SMT DEF IsUnder
  <2>4. ASSUME NEW id \in 0..n PROVE h[id] = UnderOf(h, id)
    <3>1. id \in Nat /\ \A k \in 0..id - 1 : k \in 0..n - 1
      BY <1>2, SMT
    <3>2. UnderOf(h, id) = UnderOf(g, id)
      <4> HIDE DEF h
      <4>1. \A k \in 0..id - 1 : h[k] = g[k]
        BY <2>3, <3>1, Zenon
      <4> QED BY <3>1, <4>1, UnderLocal
    <3>3. CASE id = n
      BY <3>2, <3>3, Zenon
    <3>4. CASE id # n
      <4>1. id \in 0..n - 1
        BY <1>2, <3>4, SMT
      <4> QED BY <2>3, <3>2, <4>1, Zenon
    <3> QED BY <3>3, <3>4
  <2>5. IsUnder(h, n)
    BY <2>4, Zenon DEF IsUnder
  <2> QED BY <1>2, <2>5, Zenon
<1> QED BY <1>3, <1>4

LEMMA UnderUnfolds ==
  \A id \in BlockIds :
    RecordsUnder[id] = RecordsIn(id) \cup UNION {RecordsUnder[p] : p \in LeadsTo(id)}
<1> DEFINE t == CHOOSE u : IsUnder(u, BlockNull)
<1>1. IsUnder(t, BlockNull)
  <2>1. BlockNull \in Nat
    BY BlocksAssumption
  <2> QED BY <2>1, UnderExists, Zenon
<1>2. RecordsUnder = t
  BY Zenon DEF RecordsUnder, IsUnder, UnderOf, BlockIds
<1> HIDE DEF t
<1>3. \A id \in 0..BlockNull : t[id] = UnderOf(t, id)
  BY <1>1, Zenon DEF IsUnder
<1> QED BY <1>2, <1>3, Zenon DEF BlockIds, UnderOf

-----------------------------------------------------------------------------
(* The index of a table.                                                   *)

KeyAt(n, id) == n[id].records[1].key

\* The data blocks D of a table and the map f of its keys to their first blocks:
\* a block holds records, links to an older block of its key or to none, and is
\* the first of its key or linked from another.
Linked(D, f, n, id) ==
  /\ IsData(n[id]) /\ n[id].records # <<>> /\ KeyAt(n, id) \in DOMAIN f
  /\ n[id].next # BlockNull =>
       n[id].next \in D /\ n[id].next < id /\ KeyAt(n, n[id].next) = KeyAt(n, id)
  /\ id = f[KeyAt(n, id)] \/ \E j \in D : n[j].next = id
ChainFits(D, f, n) ==
  /\ D \subseteq BlockIds \ {BlockNull} /\ DOMAIN f \subseteq 0..MaxKey
  /\ \A k \in DOMAIN f : f[k] \in D /\ KeyAt(n, f[k]) = k
  /\ \A id \in D : Linked(D, f, n, id)

\* The metadata m leads to the tree g of height h over the data blocks D, all of
\* them at their place in n.
Serves(m, g, h, D, n) ==
  /\ TreeStands(g, Capacity, m.root, h)
  /\ g.ids \subseteq ToSet(m.btree) /\ D \subseteq ToSet(m.data)
  /\ \A id \in g.ids : n[id] = g.nodes[id]
  /\ ChainFits(D, g.map, n)
  /\ \A i \in D, j \in g.ids : i < j

InBlocks(D) == UNION {ToSet(OnDisk(id)) : id \in D}

LEMMA ServesFacts ==
  ASSUME NEW m, NEW g, NEW h, NEW D, NEW n, Serves(m, g, h, D, n)
  PROVE  /\ TreeShape(g) /\ NodesFit(g, Capacity) /\ AllStarted(g, {})
         /\ RootFits(g, m.root, h) /\ ChainFits(D, g.map, n)
         /\ \A id \in g.ids : id \in BlockIds /\ id \in Nat /\ n[id] = g.nodes[id]
         /\ \A id \in D : id \in BlockIds /\ id \in Nat /\ id # BlockNull
         /\ \A i \in D, j \in g.ids : i < j
<1>1. /\ TreeShape(g) /\ NodesFit(g, Capacity) /\ AllStarted(g, {}) /\ RootFits(g, m.root, h)
      /\ ChainFits(D, g.map, n)
  BY DEF Serves, TreeStands, AboveLeaves
<1>2. \A id \in BlockIds : id \in Nat
  BY BlocksAssumption, SMT DEF BlockIds
<1>3. g.ids \subseteq BlockIds /\ D \subseteq BlockIds \ {BlockNull}
  BY <1>1 DEF TreeShape, ChainFits
<1> QED BY <1>1, <1>2, <1>3 DEF Serves

\* A node of the tree.
LEMMA ServedNode ==
  ASSUME NEW m, NEW g, NEW h, NEW D, NEW n, Serves(m, g, h, D, n), NEW id, id \in g.ids
  PROVE  /\ Whole(n[id]) /\ n[id] # Garbage /\ n[id].kind = "btree"
         /\ n[id].leaf => LeafFits(g, id, n[id].keys, n[id].pointers)
         /\ ~n[id].leaf => InnerFits(g, id, n[id].keys, n[id].pointers)
<1>1. NodesFit(g, Capacity) /\ AllStarted(g, {}) /\ n[id] = g.nodes[id]
  BY ServesFacts
<1> PICK b : b = g.nodes[id]
  OBVIOUS
<1>2. NodeFits(g, id, Capacity) /\ Started(b)
  BY <1>1 DEF NodesFit, AllStarted
<1>3. Whole(b)
  BY <1>2 DEF NodeFits, Growing, Started
<1>4. b # Garbage /\ b.kind = "btree"
  BY <1>3, DatabaseAssumption DEF Whole, NodeType
<1> QED BY <1>1, <1>2, <1>3, <1>4 DEF NodeFits

LEMMA FrontOfPointers ==
  ASSUME NEW s, s \in Seq(BlockIds), s # <<>>, NEW c, c = Len(s) - 1
  PROVE  DOMAIN Front(s) = 1..c /\ \A i \in 1..c : Front(s)[i] = s[i]
<1>1. DOMAIN Front(s) = DOMAIN s \ {Len(s)} /\ \A i \in DOMAIN Front(s) : Front(s)[i] = s[i]
  BY FrontFacts
<1>2. DOMAIN s = 1..Len(s) /\ Len(s) \in Nat
  BY LenProperties
<1>3. (1..Len(s)) \ {Len(s)} = 1..c
  BY <1>2, SMT
<1> QED BY <1>1, <1>2, <1>3

\* What the blocks of the tree lead to.
LEMMA LeafLeads ==
  ASSUME NEW m, NEW g, NEW h, NEW D, Serves(m, g, h, D, disk), NEW id, id \in g.ids, disk[id].leaf
  PROVE  /\ LeadsTo(id) \subseteq D
         /\ \A i \in 1..Len(disk[id].keys) : disk[id].pointers[i] \in LeadsTo(id)
<1> PICK b, ks, ps, c : b = disk[id] /\ ks = b.keys /\ ps = b.pointers /\ c = Len(ks)
  OBVIOUS
<1>1. Whole(b) /\ b # Garbage /\ b.kind = "btree" /\ LeafFits(g, id, ks, ps)
  BY ServedNode
<1>2. c \in Nat /\ Len(ps) = c + 1 /\ ps \in Seq(BlockIds) /\ ks \in Seq(Int)
  BY <1>1, WholeIsStarted
<1>3. LeadsTo(id) = (0..id - 1) \cap ToSet(Front(ps))
  BY <1>1 DEF LeadsTo
<1>4. ps # <<>>
  BY <1>2, SMT
<1>5. DOMAIN Front(ps) = 1..c /\ \A i \in 1..c : Front(ps)[i] = ps[i]
  <2>1. ps \in Seq(BlockIds) /\ ps # <<>> /\ Len(ps) - 1 = c
    BY <1>2, <1>4, SMT
  <2> QED BY <2>1, FrontOfPointers
<1>6. ASSUME NEW i \in 1..c PROVE ps[i] \in D
  <2>1. ks[i] \in ToSet(ks)
    <3>1. DOMAIN ks = 1..c
      BY <1>2, LenProperties
    <3> QED BY <3>1 DEF ToSet
  <2>2. ks[i] \in DOMAIN g.map /\ ps[i] = g.map[ks[i]]
    BY <1>1, <2>1 DEF LeafFits, Within
  <2>3. ChainFits(D, g.map, disk)
    BY ServesFacts
  <2> QED BY <2>2, <2>3 DEF ChainFits
<1>7. ToSet(Front(ps)) \subseteq D
  BY <1>5, <1>6 DEF ToSet
<1>8. ASSUME NEW i \in 1..c PROVE ps[i] \in LeadsTo(id)
  <2>1. ps[i] \in ToSet(Front(ps))
    BY <1>5 DEF ToSet
  <2>2. ps[i] \in Nat /\ ps[i] < id /\ id \in Nat
    BY <1>6, ServesFacts
  <2>3. ps[i] \in 0..id - 1
    BY <2>2, SMT
  <2> QED BY <1>3, <2>1, <2>3
<1> QED BY <1>3, <1>7, <1>8

LEMMA InnerLeads ==
  ASSUME NEW m, NEW g, NEW h, NEW D, Serves(m, g, h, D, disk), NEW id, id \in g.ids, ~disk[id].leaf
  PROVE  /\ LeadsTo(id) \subseteq g.ids
         /\ \A i \in 1..Len(disk[id].pointers) : disk[id].pointers[i] \in LeadsTo(id)
<1> PICK b, ks, ps, c : b = disk[id] /\ ks = b.keys /\ ps = b.pointers /\ c = Len(ps)
  OBVIOUS
<1>1. Whole(b) /\ b # Garbage /\ b.kind = "btree" /\ InnerFits(g, id, ks, ps)
  BY ServedNode
<1>2. DOMAIN ps = 1..c
  BY <1>1, WholeIsStarted, LenProperties
<1>3. LeadsTo(id) = (0..id - 1) \cap ToSet(ps)
  BY <1>1 DEF LeadsTo
<1>4. ASSUME NEW i \in 1..c PROVE ps[i] \in g.ids /\ ps[i] \in 0..id - 1 /\ ps[i] \in ToSet(ps)
  <2>1. ps[i] \in g.ids /\ ps[i] < id
    BY <1>1 DEF InnerFits, ChildFits
  <2>2. ps[i] \in Nat /\ id \in Nat
    BY <2>1, ServesFacts
  <2>3. ps[i] \in 0..id - 1
    BY <2>1, <2>2, SMT
  <2> QED BY <1>2, <2>1, <2>3 DEF ToSet
<1> QED BY <1>2, <1>3, <1>4 DEF ToSet

LEMMA DataLeads ==
  ASSUME NEW m, NEW g, NEW h, NEW D, Serves(m, g, h, D, disk), NEW id, id \in D
  PROVE  /\ LeadsTo(id) \subseteq D
         /\ disk[id].next # BlockNull => disk[id].next \in LeadsTo(id)
<1>1. Linked(D, g.map, disk, id) /\ id \in BlockIds /\ id # BlockNull
  BY ServesFacts DEF ChainFits
<1> PICK p : p = disk[id].next
  OBVIOUS
<1>2. LeadsTo(id) = (0..id - 1) \cap {p}
  BY <1>1 DEF LeadsTo, Linked, IsData
<1>3. BlockNull \notin 0..id - 1
  BY <1>1, BlocksAssumption, SMT DEF BlockIds
<1>4. CASE p = BlockNull
  BY <1>2, <1>3, <1>4
<1>5. CASE p # BlockNull
  <2>1. p \in D /\ p < id
    BY <1>1, <1>5 DEF Linked
  <2>2. p \in Nat /\ id \in Nat
    BY <2>1, ServesFacts
  <2>3. p \in 0..id - 1
    BY <2>1, <2>2, SMT
  <2> QED BY <1>2, <2>1, <2>3
<1> QED BY <1>4, <1>5

\* A block of the tree leads to records of its table and to no other.
LEMMA UnderWithin ==
  ASSUME NEW m, NEW g, NEW h, NEW D, Serves(m, g, h, D, disk)
  PROVE  \A id \in g.ids \cup D : RecordsUnder[id] \subseteq InBlocks(D)
<1> DEFINE Bad == {id \in g.ids \cup D : ~(RecordsUnder[id] \subseteq InBlocks(D))}
<1> SUFFICES ASSUME Bad # {} PROVE FALSE
  BY Zenon
<1>1. Bad \subseteq Nat
  BY ServesFacts
<1>2. PICK id \in Bad : \A i \in Bad : id <= i
  BY <1>1, LeastNat, Zenon
<1>3. id \in g.ids \cup D /\ ~(RecordsUnder[id] \subseteq InBlocks(D)) /\ id \in BlockIds /\ id \in Nat
  BY ServesFacts
<1>4. LeadsTo(id) \subseteq g.ids \cup D
  BY <1>3, LeafLeads, InnerLeads, DataLeads
<1>5. RecordsIn(id) \subseteq InBlocks(D)
  <2>1. CASE id \in D
    <3>1. RecordsIn(id) = ToSet(OnDisk(id))
      BY NothingOnce DEF RecordsIn, OnDisk, RecordsOf, IsData
    <3> QED BY <2>1, <3>1 DEF InBlocks
  <2>2. CASE id \in g.ids
    BY <2>2, ServedNode DEF RecordsIn
  <2> QED BY <1>3, <2>1, <2>2
<1>6. ASSUME NEW p \in LeadsTo(id) PROVE RecordsUnder[p] \subseteq InBlocks(D)
  <2>1. p \in 0..id - 1
    BY DEF LeadsTo
  <2>2. ~(id <= p)
    BY <1>3, <2>1, SMT
  <2>3. p \in g.ids \cup D /\ p \notin Bad
    BY <1>2, <1>4, <2>2
  <2> QED BY <2>3
<1> PICK u : u = RecordsUnder
  OBVIOUS
<1>7. u[id] = RecordsIn(id) \cup UNION {u[p] : p \in LeadsTo(id)}
  BY <1>3, UnderUnfolds, Zenon
<1>8. \A p \in LeadsTo(id) : u[p] \subseteq InBlocks(D)
  BY <1>6
<1>9. u[id] \subseteq InBlocks(D)
  BY <1>5, <1>7, <1>8
<1> QED BY <1>3, <1>9

\* What a block leads to, it leads to.
LEMMA UnderStep ==
  ASSUME NEW id, id \in BlockIds, NEW p, p \in LeadsTo(id)
  PROVE  RecordsUnder[p] \subseteq RecordsUnder[id]
<1> PICK u : u = RecordsUnder
  OBVIOUS
<1>1. u[id] = RecordsIn(id) \cup UNION {u[q] : q \in LeadsTo(id)}
  BY UnderUnfolds, Zenon
<1>2. u[p] \subseteq u[id]
  BY <1>1
<1> QED BY <1>2

\* The first block of a key is under every node that the key is looked for at.
LEMMA FirstIsUnder ==
  ASSUME NEW m, NEW g, NEW h, NEW D, Serves(m, g, h, D, disk), NEW x, x \in DOMAIN g.map
  PROVE  \A id : Reaches(g, id, x) => RecordsUnder[g.map[x]] \subseteq RecordsUnder[id]
<1> PICK first : first = g.map[x]
  OBVIOUS
<1> DEFINE Bad == {id \in g.ids : Reaches(g, id, x) /\ ~(RecordsUnder[first] \subseteq RecordsUnder[id])}
<1> SUFFICES ASSUME Bad # {} PROVE FALSE
  BY Zenon DEF Reaches
<1>1. Bad \subseteq Nat
  BY ServesFacts
<1>2. PICK id \in Bad : \A i \in Bad : id <= i
  BY <1>1, LeastNat, Zenon
<1>3. id \in g.ids /\ Reaches(g, id, x) /\ ~(RecordsUnder[first] \subseteq RecordsUnder[id])
  OBVIOUS
<1>4. id \in BlockIds /\ id \in Nat /\ x \in Int /\ disk[id] = g.nodes[id]
  BY <1>3, ServesFacts, ShapeFacts
<1>5. TreeShape(g) /\ NodesFit(g, Capacity) /\ AllStarted(g, {})
  BY ServesFacts
<1> PICK n : n = disk[id]
  OBVIOUS
<1> HIDE DEF Bad
<1>6. CASE n.leaf
  <2> PICK at : at = LowerBound(n.keys, x)
    OBVIOUS
  <2>1. GetFinds(g, n, at, x)
    BY <1>3, <1>4, <1>5, <1>6, GetIsRight
  <2>2. at <= Len(n.keys) /\ n.pointers[at] = first
    BY <2>1 DEF GetFinds
  <2>3. Whole(n)
    BY <1>3, ServedNode
  <2>4. at \in 1..Len(n.keys) + 1
    BY <2>3, PlaceInNode
  <2>5. at \in 1..Len(n.keys)
    BY <2>2, <2>3, <2>4, WholeIsStarted, SMT
  <2>6. first \in LeadsTo(id)
    BY <1>3, <1>6, <2>2, <2>5, LeafLeads
  <2> QED BY <1>3, <1>4, <2>6, UnderStep
<1>7. CASE ~n.leaf
  <2> PICK c : c = Child(n, x)
    OBVIOUS
  <2>1. Reaches(g, c, x) /\ c < id
    BY <1>3, <1>4, <1>5, <1>7, ChildReaches
  <2>2. Whole(n) /\ Rises(n.keys)
    BY <1>3, <1>4, <1>5, ServedNode DEF NodesFit, NodeFits
  <2>3. PICK j : j \in 1..Len(n.pointers) /\ c = n.pointers[j]
    BY <1>4, <2>2, ChildIsRight DEF ChildAt
  <2>4. c \in LeadsTo(id)
    BY <1>3, <1>7, <2>3, InnerLeads
  <2>5. RecordsUnder[c] \subseteq RecordsUnder[id]
    BY <1>4, <2>4, UnderStep
  <2>6. c \in g.ids /\ c \in Nat
    BY <2>1, ServesFacts DEF Reaches
  <2>7. ~(id <= c)
    BY <1>4, <2>1, <2>6, SMT
  <2>8. RecordsUnder[first] \subseteq RecordsUnder[c]
    BY <1>2, <2>1, <2>6, <2>7 DEF Bad
  <2> QED BY <1>3, <2>5, <2>8
<1> QED BY <1>6, <1>7

\* Every block of a key has those that it is linked from above it.
LEMMA GreatestBelow ==
  ASSUME NEW T, NEW b, b \in Nat, T \subseteq 0..b, T # {}
  PROVE  \E n \in T : \A i \in T : i <= n
<1> DEFINE U == {b - n : n \in T}
<1>1. \A n \in T : b - n \in Nat /\ n \in Nat
  BY SMT
<1>2. U \subseteq Nat /\ U # {}
  BY <1>1
<1>3. PICK n \in T : \A i \in T : b - n <= b - i
  <2> HIDE DEF U
  <2>1. PICK q \in U : \A r \in U : q <= r
    BY <1>2, LeastNat, Zenon
  <2> QED BY <2>1 DEF U
<1>4. \A i \in T : i <= n
  BY <1>1, <1>3, SMT
<1> QED BY <1>4

LEMMA ChainIsUnder ==
  ASSUME NEW m, NEW g, NEW h, NEW D, Serves(m, g, h, D, disk)
  PROVE  \A id \in D : RecordsUnder[id] \subseteq RecordsUnder[g.map[KeyAt(disk, id)]]
<1> DEFINE Bad == {id \in D : ~(RecordsUnder[id] \subseteq RecordsUnder[g.map[KeyAt(disk, id)]])}
<1> SUFFICES ASSUME Bad # {} PROVE FALSE
  BY Zenon
<1>1. Bad \subseteq 0..BlockNull /\ BlockNull \in Nat
  BY ServesFacts, BlocksAssumption DEF BlockIds
<1>2. PICK id \in Bad : \A i \in Bad : i <= id
  BY <1>1, GreatestBelow, Zenon
<1> PICK f, k : f = g.map /\ k = KeyAt(disk, id)
  OBVIOUS
<1>3. id \in D /\ ~(RecordsUnder[id] \subseteq RecordsUnder[f[k]])
  OBVIOUS
<1> HIDE DEF Bad
<1>4. Linked(D, f, disk, id) /\ \A j \in D : Linked(D, f, disk, j)
  BY <1>3, ServesFacts DEF ChainFits
<1>5. id # f[k]
  BY <1>3
<1>6. PICK j \in D : disk[j].next = id
  BY <1>4, <1>5 DEF Linked
<1>7. id # BlockNull /\ id \in Nat /\ j \in Nat /\ j \in BlockIds
  BY <1>3, ServesFacts
<1>8. id < j /\ KeyAt(disk, j) = k
  BY <1>4, <1>6, <1>7 DEF Linked
<1>9. ~(j <= id)
  BY <1>7, <1>8, SMT
<1>10. RecordsUnder[j] \subseteq RecordsUnder[f[k]]
  BY <1>2, <1>8, <1>9 DEF Bad
<1>11. RecordsUnder[id] \subseteq RecordsUnder[j]
  BY <1>6, <1>7, DataLeads, UnderStep
<1> QED BY <1>3, <1>10, <1>11

\* The records that the tree leads to are those of its data blocks.
LEMMA IndexedIs ==
  ASSUME NEW m, NEW g, NEW h, NEW D, Serves(m, g, h, D, disk)
  PROVE  m.root \in ToSet(m.btree) /\ RecordsUnder[m.root] = InBlocks(D)
<1>1. RootFits(g, m.root, h) /\ TreeShape(g) /\ ChainFits(D, g.map, disk)
  BY ServesFacts
<1>2. m.root \in g.ids /\ m.root \in ToSet(m.btree)
  BY <1>1 DEF RootFits, Serves
<1>3. RecordsUnder[m.root] \subseteq InBlocks(D)
  BY <1>2, UnderWithin
<1>4. ASSUME NEW id \in D PROVE ToSet(OnDisk(id)) \subseteq RecordsUnder[m.root]
  <2> PICK u, k : u = RecordsUnder /\ k = KeyAt(disk, id)
    OBVIOUS
  <2>0. id \in BlockIds
    BY ServesFacts
  <2>1. u[id] = RecordsIn(id) \cup UNION {u[p] : p \in LeadsTo(id)}
    BY <2>0, UnderUnfolds, Zenon
  <2>2. RecordsIn(id) = ToSet(OnDisk(id))
    BY NothingOnce DEF RecordsIn, OnDisk, RecordsOf, IsData
  <2>3. k \in DOMAIN g.map
    BY <1>1 DEF ChainFits, Linked
  <2>4. Reaches(g, m.root, k)
    <3>1. k \in Int /\ k <= MaxKey /\ MaxKey \in Nat
      BY <1>1, <2>3, ShapeFacts
    <3>2. k < MaxKey + 1
      BY <3>1, SMT
    <3> QED BY <1>1, <2>3, <3>2 DEF RootFits, Reaches
  <2>5. RecordsUnder[g.map[k]] \subseteq RecordsUnder[m.root]
    BY <2>3, <2>4, FirstIsUnder
  <2>6. RecordsUnder[id] \subseteq RecordsUnder[g.map[k]]
    BY ChainIsUnder
  <2> QED BY <2>1, <2>2, <2>5, <2>6
<1> QED BY <1>2, <1>3, <1>4 DEF InBlocks
=============================================================================
