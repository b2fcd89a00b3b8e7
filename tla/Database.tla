----------------------------- MODULE Database ------------------------------
(***************************************************************************)
(* project1's program (main.cpp, database.cpp): a process opens the        *)
(* database file, loads a table into it or queries it, and ends.  One      *)
(* process after another uses the file; any of them may die between two    *)
(* steps.  The data blocks and the index go to the file through DiskStore, *)
(* the index is built and read by BTree.                                   *)
(***************************************************************************)
EXTENDS BTree

CONSTANTS
  Capacity,     \* BTreeNode::fs_capacity()
  Inputs,       \* tables that may be loaded: sequences of keys and BadRow
  Ranges,       \* key ranges that may be queried: pairs of keys
  MaxLoads      \* bound: loads that read their table

\* A row that Record::from_tsv rejects.
BadRow == -1

ASSUME DatabaseAssumption ==
  /\ Capacity \in Nat \ {0}
  /\ Inputs \subseteq Seq(0..MaxKey \cup {BadRow})
  /\ Ranges \subseteq (0..MaxKey) \X (0..MaxKey - 1)
  /\ MaxLoads \in Nat
  /\ Garbage \notin [kind : {"data"}, next : BlockIds,
                     records : Seq([key : Int, load : Nat \ {0}, row : Nat])]
  /\ Garbage \notin [kind : {"btree"}, leaf : BOOLEAN, keys : Seq(Int), pointers : Seq(BlockIds)]

VARIABLES
  pc,            \* what the process does next, "closed" when there is none
  loads,         \* number of tables read so far
  rows,          \* rows of the table that are not read yet
  blocks,        \* data blocks of the table that are not in the file, a chain for each key
  keyPointers,   \* first data block of each key
  scanIds,       \* queue of data blocks the query reads
  seen,          \* data blocks it has taken records from
  records        \* records it found

inputVars == <<loads, rows, blocks, keyPointers>>
queryVars == <<scanIds, seen, records>>
vars      == <<storeVars, treeVars, pc, inputVars, queryVars>>

EmptyMap == [key \in {} |-> BlockNull]

Init ==
  /\ StoreInit
  /\ TreeInit({Capacity})
  /\ pc = "closed" /\ loads = 0
  /\ rows = <<>> /\ blocks = EmptyMap /\ keyPointers = EmptyMap
  /\ scanIds = <<>> /\ seen = {} /\ records = <<>>

\* The memory of a process is gone when it ends, or dies of an exception or a
\* signal.
Gone ==
  /\ TreeReset
  /\ pc' = "closed"
  /\ rows' = <<>> /\ blocks' = EmptyMap /\ keyPointers' = EmptyMap
  /\ scanIds' = <<>> /\ seen' = {} /\ records' = <<>>
  /\ UNCHANGED loads

Ends == Close /\ Gone
Dies == Crash /\ Gone

OpenToLoad ==
  /\ pc = "closed" /\ loads < MaxLoads /\ Open /\ pc' = "load"
  /\ UNCHANGED <<treeVars, inputVars, queryVars>>

OpenToQuery ==
  /\ pc = "closed" /\ Open /\ pc' = "query"
  /\ UNCHANGED <<treeVars, inputVars, queryVars>>

-----------------------------------------------------------------------------
(* Database::load                                                          *)

\* The records of a table; the load they came with tells them apart.
RowsOf(input, load) ==
  [i \in DOMAIN input |-> [key |-> input[i], load |-> load, row |-> i]]

StartLoad ==
  /\ pc = "load"
  /\ loads' = loads + 1
  /\ \E input \in Inputs : rows' = RowsOf(input, loads')
  /\ pc' = "rows"
  /\ UNCHANGED <<storeVars, treeVars, blocks, keyPointers, queryVars>>

\* Parsing a row throws, or the data block has no room for any record.
Throws(row) == row.key = BadRow \/ DataCapacity = 0

\* A record goes into the last block of its key, into a new one if that is full.
Grouped(record) ==
  LET own == IF record.key \in DOMAIN blocks THEN blocks[record.key] ELSE <<>>
  IN  IF own = <<>> \/ DataFull(Last(own))
      THEN Append(own, DataInsert(EmptyData, record))
      ELSE Append(Front(own), DataInsert(Last(own), record))

ReadRow ==
  /\ pc = "rows" /\ rows # <<>> /\ ~Throws(Head(rows))
  /\ blocks' = [key \in DOMAIN blocks \cup {Head(rows).key} |->
                  IF key = Head(rows).key THEN Grouped(Head(rows)) ELSE blocks[key]]
  /\ rows' = Tail(rows)
  /\ UNCHANGED <<storeVars, treeVars, pc, loads, keyPointers, queryVars>>

ReadRowThrows == pc = "rows" /\ rows # <<>> /\ Throws(Head(rows)) /\ Dies

TableRead ==
  /\ pc = "rows" /\ rows = <<>>
  /\ pc' = "data"
  /\ UNCHANGED <<storeVars, treeVars, inputVars, queryVars>>

\* Mutant: the blocks of a key are not linked.
NextOfNone(key) == BlockNull

\* The block inserted before it for the same key is the next one of the chain.
NextOf(key) == IF key \in DOMAIN keyPointers THEN keyPointers[key] ELSE BlockNull

\* Blocks are inserted by key, the chain of a key from its end, so that the id
\* of the next block is known.
InsertData ==
  /\ pc = "data" /\ DOMAIN blocks # {}
  /\ LET key   == Min(DOMAIN blocks)
         chain == blocks[key]
     IN  /\ Insert([Last(chain) EXCEPT !.next = NextOf(key)])
         /\ keyPointers' = [k \in DOMAIN keyPointers \cup {key} |->
                              IF k = key THEN NewId(meta) ELSE keyPointers[k]]
         /\ blocks' = IF Len(chain) = 1 THEN Restrict(blocks, DOMAIN blocks \ {key})
                                       ELSE [blocks EXCEPT ![key] = Front(chain)]
  /\ UNCHANGED <<treeVars, pc, loads, rows, queryVars>>

StartIndex ==
  /\ pc = "data" /\ DOMAIN blocks = {}
  /\ BulkLoad(keyPointers)
  /\ pc' = "index"
  /\ UNCHANGED <<inputVars, queryVars>>

IndexStep == pc = "index" /\ LoadStep /\ UNCHANGED <<pc, inputVars, queryVars>>

\* persist.  No other process has the file open, so that what Metadata::write
\* hands on before the flush matters only when the process dies: see Crash.
Persist ==
  /\ pc = "index" /\ phase = "loaded"
  /\ PersistWrite
  /\ pc' = "flush"
  /\ UNCHANGED <<treeVars, inputVars, queryVars>>

Flush ==
  /\ pc = "flush"
  /\ PersistFlush
  /\ pc' = "stats"
  /\ UNCHANGED <<treeVars, inputVars, queryVars>>

\* main prints the keys of the root node, which an empty tree does not have.
PrintRoot ==
  /\ pc = "stats" /\ Readable(meta.root, "btree")
  /\ Fetch
  /\ reads' = [reads EXCEPT !.btree = @ + 1]
  /\ pc' = "done"
  /\ UNCHANGED <<capacity, phase, loadVars, call, cursor, found,
                 inputVars, queryVars>>

PrintRootThrows == pc = "stats" /\ ~Readable(meta.root, "btree") /\ Dies

-----------------------------------------------------------------------------
(* Database::query                                                         *)

AskScan ==
  /\ pc = "query"
  /\ \E range \in Ranges : call' = [op |-> "scan", begin |-> range[1], end |-> range[2]]
  /\ scanIds' = meta.data
  /\ pc' = "scan"
  /\ UNCHANGED <<storeVars, capacity, phase, loadVars, cursor, found, reads,
                 inputVars, seen, records>>

AskIndex ==
  /\ pc = "query"
  /\ \E range \in Ranges : StartCall("range", range[1], range[2])
  /\ pc' = "lookup"
  /\ UNCHANGED <<inputVars, queryVars>>

LookupStep == pc = "lookup" /\ CallStep /\ UNCHANGED <<pc, inputVars, queryVars>>

\* A node that get throws at, or that is no node.
LookupFails ==
  /\ pc = "lookup" /\ phase \in {"lookup", "range"} /\ ~Readable(cursor, "btree")
  /\ Dies

LookupReturns ==
  /\ pc = "lookup" /\ phase = "returned"
  /\ scanIds' = found
  /\ pc' = "scan"
  /\ UNCHANGED <<storeVars, treeVars, inputVars, seen, records>>

\* Zeros, or nothing, read as a data block without records.  No range has its
\* key, the largest one, so that its link is not followed.
DataAt(id) == IF Content(id).kind = "hole" THEN EmptyData ELSE Content(id)

\* Mutant: the begin of the range is left out.
MatchesAboveBegin(key) == call.begin < key /\ key <= call.end

Matches(key) == call.begin <= key /\ key <= call.end

\* Mutant: nothing is ever seen.
SeenNothing(id) == FALSE

Seen(id) == id \in seen

\* Mutant: a seen block stays in the queue.
SkipSeenKept ==
  /\ pc = "scan" /\ scanIds # <<>> /\ Seen(Head(scanIds))
  /\ UNCHANGED vars

SkipSeen ==
  /\ pc = "scan" /\ scanIds # <<>> /\ Seen(Head(scanIds))
  /\ scanIds' = Tail(scanIds)
  /\ UNCHANGED <<storeVars, treeVars, pc, inputVars, seen, records>>

ReadData ==
  /\ pc = "scan" /\ scanIds # <<>> /\ ~Seen(Head(scanIds))
  /\ Readable(Head(scanIds), "data")
  /\ Fetch
  /\ reads' = [reads EXCEPT !.data = @ + 1]
  /\ UNCHANGED <<capacity, phase, loadVars, call, cursor, found,
                 pc, inputVars>>

\* A block of another key is skipped, and so are the blocks linked from it.
SkipBlock ==
  /\ ReadData
  /\ ~Matches(DataKey(DataAt(Head(scanIds))))
  /\ scanIds' = Tail(scanIds)
  /\ UNCHANGED <<seen, records>>

TakeBlock ==
  /\ ReadData
  /\ LET data == DataAt(Head(scanIds))
         next == IF data.next = BlockNull THEN <<>> ELSE <<data.next>>
     IN  /\ Matches(DataKey(data))
         /\ records' = records \o data.records
         /\ scanIds' = Tail(scanIds) \o next
  /\ seen' = seen \cup {Head(scanIds)}

ReadDataFails ==
  /\ pc = "scan" /\ scanIds # <<>> /\ ~Seen(Head(scanIds))
  /\ ~Readable(Head(scanIds), "data")
  /\ Dies

Answer ==
  /\ pc = "scan" /\ scanIds = <<>>
  /\ pc' = "done"
  /\ UNCHANGED <<storeVars, treeVars, inputVars, queryVars>>

Exit == pc = "done" /\ Ends

-----------------------------------------------------------------------------

\* The process runs on.
Step ==
  \/ StartLoad \/ ReadRow \/ ReadRowThrows \/ TableRead \/ InsertData \/ StartIndex \/ IndexStep
  \/ Persist \/ Flush \/ PrintRoot \/ PrintRootThrows
  \/ AskScan \/ AskIndex \/ LookupStep \/ LookupFails \/ LookupReturns
  \/ SkipSeen \/ SkipBlock \/ TakeBlock \/ ReadDataFails \/ Answer \/ Exit

Next == OpenToLoad \/ OpenToQuery \/ Step \/ Dies

Spec == Init /\ [][Next]_vars

\* A process that is not killed goes on: no step of it waits for anything.
FairSpec == Spec /\ WF_vars(Step)

-----------------------------------------------------------------------------
(* What the file holds                                                     *)

FileMeta == Decode(header)

RecordsIn(id) ==
  IF disk[id] = Garbage THEN {}
  ELSE IF disk[id].kind = "data" THEN ToSet(disk[id].records) ELSE {}

\* Records in the data blocks that the metadata in the file lists.
Stored == UNION {RecordsIn(id) : id \in ToSet(FileMeta.data)}

\* Blocks that a block leads to.  A data block is inserted after the one it links
\* to, a leaf after the data blocks, a node after its children: ids go down.
LeadsTo(id) ==
  LET block == disk[id]
  IN  (0..id - 1) \cap
      (IF block = Garbage           THEN {}
       ELSE IF block.kind = "data"  THEN {block.next}
       ELSE IF block.kind # "btree" THEN {}
       ELSE ToSet(IF block.leaf THEN Front(block.pointers) ELSE block.pointers))

\* Records of the data blocks that a block leads to, its own among them.
RecordsUnder ==
  LET under[id \in BlockIds] == RecordsIn(id) \cup UNION {under[p] : p \in LeadsTo(id)}
  IN  under

\* Records that the tree under the root in the file leads to.
Indexed ==
  IF FileMeta.root \in ToSet(FileMeta.btree) THEN RecordsUnder[FileMeta.root] ELSE {}

-----------------------------------------------------------------------------
(* Properties                                                              *)

DatabaseTypeOK ==
  /\ pc \in {"closed", "load", "rows", "data", "index", "flush", "stats",
             "query", "lookup", "scan", "done"}
  /\ open <=> pc # "closed"
  /\ loads \in 0..MaxLoads
  /\ \A key \in DOMAIN blocks : \A i \in DOMAIN blocks[key] :
       Len(blocks[key][i].records) \in 1..DataCapacity
  /\ \A key \in DOMAIN keyPointers : KindOf(meta, keyPointers[key]) = "data"
  /\ scanIds \in Seq(BlockIds) /\ seen \subseteq BlockIds
  /\ \A i \in DOMAIN records : records[i].load \in 1..loads

\* Loading is all or nothing, whenever a process dies, and never loses what an
\* earlier load persisted.
Tables == {ToSet(RowsOf(input, load)) :
             input \in {i \in Inputs : BadRow \notin ToSet(i)}, load \in 1..MaxLoads}
Atomic == INSTANCE AtomicDatabase WITH stored <- Stored, indexed <- Indexed
LoadsAreAtomic == Atomic!Spec

\* store.h:25-26 "Changing of block kind using update is not permitted": every
\* block is written as the kind its id is registered for.
WritesKeepTheKind ==
  pending.to = "block" => KindOf(meta, pending.id) = pending.block.kind

\* The records of a range.
InRange(key) == call.begin <= key /\ key <= call.end
Matching(among) == {r \in among : InRange(r.key)}

\* database.h:40-43 for a scan: every stored record of the range, once.
ScanIsExact ==
  pc = "done" /\ call.op = "scan" =>
    ToSet(records) = Matching(Stored) /\ Len(records) = Cardinality(Matching(Stored))

\* Whatever a torn or overgrown metadata block did to the file, a query that
\* comes to an end answers with records of the range, none of them twice.
AnswersAreSound ==
  pc = "done" =>
    \A i \in DOMAIN records :
      /\ InRange(records[i].key)
      /\ \A j \in 1..i - 1 : records[j] # records[i]

\* BTreeNode::read has its header in a local that stays as it was when the file
\* has no such block (btree_node.cpp:34): whatever damage and deaths, lookup and
\* range come to no node that was never written.
NodesAreWritten ==
  pc = "lookup" /\ phase \in {"lookup", "range"} /\ Readable(cursor, "btree") =>
    Content(cursor) # Hole

\* The answer of an index query is exactly the indexed records of the range,
\* once each, or empty; it is exact when the range begins at an indexed key or
\* below all of them.
IndexIsExactOrEmpty ==
  pc = "done" /\ call.op = "range" =>
    /\ records # <<>> =>
         ToSet(records) = Matching(Indexed) /\ Len(records) = Cardinality(Matching(Indexed))
    /\ (\E r \in Indexed : r.key = call.begin) \/ (\A r \in Indexed : r.key > call.begin)
         => ToSet(records) = Matching(Indexed)

\* Blocks in which the file keeps records of the range.
MatchingBlocks(among) ==
  {id \in ToSet(FileMeta.data) : RecordsIn(id) \cap Matching(among) # {}}

\* database.h:19 "Utilise index to reduce blocks scanned": an index query
\* reads the data blocks it takes records from and no other, each once; a scan
\* reads every data block once.
QueriesReadEachBlockOnce ==
  pc = "done" =>
    /\ call.op = "range" =>
         reads.data = IF records = <<>> THEN 0 ELSE Cardinality(MatchingBlocks(Indexed))
    /\ call.op = "scan"  => reads.data = Cardinality(ToSet(FileMeta.data))

\* database.h:40-43: a query returns the records with keys in the range, in
\* either mode.
QueryReturnsEveryMatch ==
  pc = "done" /\ call.op \in {"scan", "range"} => ToSet(records) = Matching(Stored)

\* A load and a query that are not killed come to an end.
LoadEnds  == pc = "rows" ~> pc \in {"done", "closed"}
QueryEnds == pc \in {"lookup", "scan"} ~> pc \in {"done", "closed"}
=============================================================================
