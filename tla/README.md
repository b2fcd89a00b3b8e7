# A verification project for ntu-sc3020

This directory holds TLA+ models of the programs in `src/`, the TLC
configurations that check them on small instances, and proofs about them for
TLAPS. The repository contains three course projects that share no code:
`project1`, a database file with a B+tree index, and `proj1`, a second B+tree
over a file of pages, both written in C++, and `project2`, a translator of query
plans written in Python. Models of all three are here; `project1` is the most
detailed.

## 1. The system

### project1 (`src/project1/src`, C++)

A program that loads a table of NBA games into one file and answers range
queries over it (`main.cpp`). One process opens the file, loads *or* queries,
and ends.

| Component | State | Operations | Uses |
|---|---|---|---|
| `Data`, `BTreeNode`, `Metadata` (`data.*`, `btree_node.*`, `metadata.*`) | records and a link to the next block; keys and pointers; root and two lists of block ids | `insert`, `key`, `is_full`, `new_id`, `lookup`, `read`, `write` | - |
| `DiskStore` (`disk_store.*`, `store.*`) | the file, the stream's buffer, a `Metadata` object in memory | constructor, `get`, `insert`, `update`, `get_meta`, `set_meta`, `persist` | `Metadata` |
| `MemStore` (`mem_store.*`) | a vector of block pointers | the same, for tests | `Metadata` |
| `SpyStore` (`spy_store.*`) | counters of reads and writes | forwards to a store | a `Store` |
| `BTree` (`btree.*`) | a store, the capacity, the root (in the metadata) | `bulk_load`, `lookup`, `get`, `range` | a `Store` |
| `Database` (`database.*`) | a store and a `BTree` over it | `load`, `query` (index or scan), `mean_fg_pct_home` | `BTree`, `Store`, `Record` |
| `Record` (`record.*`) | one game | `from_tsv`, key conversion | - |

What is hard. Block writes go to the file as they are made, the metadata that
makes them visible goes last, and a process can die anywhere in between: the
correctness of the file rests on writing new blocks *beside* the live ones,
which rests on how block ids are allocated. The metadata image has no checksum
and no length limit. `bulk_load` builds linked leaves and internal levels with
a peculiar cut-off, `range` walks leaf links, and `query` empties a queue that
it also appends to. Correct means: ids are fresh; the file holds a table as a
whole or not at all; the tree finds every key; index and scan return exactly
the records of the range; loads and queries end.

### proj1 (`src/proj1/bptree`, C++)

A second B+tree of its own: insertion with top-down splits, search, range
search and bulk load over pages of a file (`BPlusTree.cpp`), a page manager
(`DiskManager.cpp`) and a context file that the constructor of the tree writes
when it starts with an empty file.

| Component | State | Operations |
|---|---|---|
| `DiskManager` | the context file, the file of pages, a page counter in memory | constructor, `allocatePage`, `readPage`, `writePage`, `readAllPage`, `getTotalPages` |
| `BPlusTree` | internal nodes in memory, leaves in pages, a root that may be a leaf object | constructor (`bulkLoad` from an existing file), `insert`, `search`, `rangeSearch`, `getDepth` |
| `main.cpp`, `TeamsRecord.h` | the rows of a table | inserts the rows under consecutive numbers, asks three ranges |

Hard: splits that move keys and children of two levels while leaf pages are
copied out of the file, changed and written back; a death between the page
writes of a split; rebuilding all internal nodes from the pages when the file is
reopened; the page counter after that. Correct means: the file is a set of keys
that grows by the inserted ones, every inserted key is found, levels keep their
shape, no page with data is handed out again.

### project2 (`src/project2`, Python)

Translates PostgreSQL execution plans to pipe syntax: a chain of tree
transformers (`preprocessing.py`), a generator with a table of subplans
(`pipesyntax.py`; `pipesyntax_setops.py` is an unused variant), and a Tk window
with one database connection (`interface.py`). Hard: the order in which
transformers meet nodes and the keys of a node, subplans that are listed among
the inputs of a node, subplans that refer to subplans registered later, aliases
that move up past joins. Correct means: every plan node ends up in exactly one
statement, after the statements it reads, with its conditions, and joins take
the right operands under the right names.

`PROJECT.json` lists every component with its files and status, and under
"hazards" each place in this code that is hard to test, with the properties
that cover it or the reason why none does yet.

## 2. The modules

| Module | Models |
|---|---|
| `Blocks` | block contents and their pure operations; the image of the metadata block in 16-bit words |
| `DiskStore` (extends `Blocks`) | the file, its one buffered write, the store's operations, normal end and death of a process |
| `StoreClient` (extends `DiskStore`) | a client that updates only the blocks it has inserted, and is free otherwise |
| `BTree` (extends `DiskStore`) | the index, one store call per step |
| `BTreeClient` (extends `BTree`) | a tree loaded once with any keys and asked anything |
| `Database` (extends `BTree`) | whole program runs, one process after another on one file |
| `AtomicDatabase` | what `Database` promises: tables appear at once |
| `StoreReader` (extends `StoreClient`) | a second store that has the same file open and reads it |
| `TeamsRecord` | proj1's keys and their comparisons |
| `DiskManager` (extends `TeamsRecord`) | proj1's two files and page operations |
| `BPlusTree` (extends `DiskManager`) | proj1's tree: `insert`, `bulkLoad`, searches, one page access per step |
| `BPlusTreeClient` (extends `BPlusTree`) | processes that fill, reopen and search one file, one after another |
| `KeySet` | what `BPlusTreeClient` promises of its file: a set that takes one key at a time |
| `PipeSyntax` | project2 from the plan that EXPLAIN returns to the SQL |
| `MCStoreClient`, `MCBTree`, `MCDatabase`, `MCBPlusTree`, `MCPipeSyntax` | constants for TLC |
| `Basics` | least elements of sets of numbers (the induction of the proofs) and insertion into sequences |
| `StoreProofs` (extends `StoreClient`), `StoreReaderProofs` (extends `StoreReader`) | theorems about project1's searches and store |
| `IndexProofs` (extends `BTree`, `StoreProofs`), `TreeProofs` (extends `BTreeClient`, `IndexProofs`) | lemmas and theorems about project1's index |
| `DatabaseProofs` (extends `Database`, `IndexProofs`), `LoadProofs` (extends `DatabaseProofs`) | theorems about project1's loads and queries |
| `KeySetProofs` (extends `BPlusTreeClient`) | theorems about proj1 |

### State and code

*Blocks.* A data block is `[kind, records, next]`, a tree node `[kind, leaf,
keys, pointers]`, as in the code, with the fixed arrays as sequences. A record
is its key and where it came from. `LowerBound` halves as `std::lower_bound`
does, so that it also has the code's answer on lists that are not sorted.
`Encode` and `Decode` are `Metadata::write` and `read`.

*DiskStore.* `disk[id]` is the content of block position `id`; a position that
was never written is a `Hole` and reads as zeros, one whose bytes come from two
writes is `Garbage`. `header` is the metadata area in words, `status` tells
whether the file exists and has any byte. `meta` is the `Metadata` object.
`pending` is the last write, which a file stream keeps in its buffer until the
next seek, flush or close: each operation first applies it (`Apply`) and then
leaves its own. `base` is a history variable, the count of ids at the last
`persist`. `Open` is the constructor, `Insert`, `Update`, `Fetch`, `SetRoot` the
calls of the same names (`get_block` is `Fetch`), `PersistWrite` and
`PersistFlush` the two halves of `persist`, `Close` the destructors. Between the
halves the metadata may reach the file in part, when `TornMeta`:
`Metadata::write` makes five writes, and the stream passes on a list of data ids
of 1024 bytes or more by itself, with the sizes that are in its buffer, while
the tree ids wait for the flush (`EarlyPart`, `PersistPart`). `Crash` is a
process that dies: what was applied stays, the pending write is lost, done, or -
a block - leaves garbage, or - metadata, when `TornMeta` - only its `EarlyPart`
is done. A file without bytes leaves `Metadata::read`'s sizes uninitialised,
hence the choice in `MetaOnOpen`. Death and power loss are not told apart:
writes reach the file in order.

*StoreClient.* What it does with blocks is what `bulk_load` does: it updates
those it inserted since the last `persist` (`UpdateOwn`), as blocks of their
kind. `DiskStore::update` itself takes any id, and `disk_store_test.cpp` updates
a block that the file lists, through a second store; a death in the middle of
that would take the block, and it is left out.

*BTree.* `phase`, `work`, `propagate`, `node`, `nodeId`, `nextLeaf` are the
locals of `load_leaf` and `load_internal`; each store call is a step
(`NewLeaf`, `LinkLeaf`, `FillLeaf`, `NewInternal`, `FillInternal`), `NextLevel`
and `RootDone` the loop of `bulk_load`. `StartCall`, `Descend`, `ReachLeaf` and
`NextLeafOfRange` are `lookup`, `get` and `range`, one node read per step.
`reads` are `SpyStore`'s counters.

*Database.* `pc` says which loop of `load`, `query` or `main` the process is in.
`ReadRow` is the loop over the table, `InsertData` the insertion of the chains
from their ends, `IndexStep` a step of `bulk_load`, `Persist`/`Flush` the call
of `persist`, `PrintRoot` the root node that `main` prints. (Nobody else reads
the file here, so that the part of the metadata that is written before the flush
matters to a death alone.) `SkipSeen`, `SkipBlock`, `TakeBlock` are the cases of
the loop over the queue. A call that throws is caught nowhere and ends the
process; whether the stack is unwound, and so the stream flushed, is up to the
implementation, which makes it a death (`ReadRowThrows`, `LookupFails`,
`ReadDataFails`, `PrintRootThrows`). `Dies` may also happen at any other moment.

*AtomicDatabase* has two sets, the stored and the indexed records, and one
action. `Database` maps `stored` to the records in the blocks that the metadata
*in the file* lists and `indexed` to those under the root in the file, so that
everything a process does before the flush of `persist` must be a stutter. What
lies under a block (`RecordsUnder`) is defined by recursion over ids: a data
block leads to its link, a leaf to its data blocks, a node to its children, and
`LeadsTo` keeps of these the lower ids, which in a file that no torn write
damaged are all of them, since each is inserted before what points to it.

*StoreReader.* `reader` is the `Metadata` object of a second `DiskStore` on the
file, read by its constructor (`ReaderOpens`) and never again. The first store
goes on meanwhile, ends or dies, and others follow it. The reader may open the
file in the middle of a `persist` and keep what it found. Two history variables
let the properties of undamaged metadata be stated in the same run as those of
damaged ones: `whole` says whether the metadata in the file are those of one
`persist`, and `clean` turns false when metadata are read that are not, or an
empty file gives sizes other than zero (`Taints`).

*DiskManager.* `pages` is the file, numbered without gaps; `ctx` and `file`
tell which of the two files exists, since the constructor creates one before
the other (`OpenContext`, `OpenFile`); `kept` is `has_init_ctx_`, `pageCount` is
`page_count_`. A page is its keys, its own number and its next page. A page of
4096 bytes is longer than what the file stream buffers (libstdc++ hands on
writes of 1024 bytes and more at once), so each write is in the file when it
returns. `allocatePage` writes a page of zeros.

*BPlusTree.* Internal nodes have addresses in `nodes`, as they are never freed.
`root` is nothing, a leaf object, or a node. `Insert`, `AllocateRoot`,
`WriteRoot` are `insert`; `InsertLeaf` and `InsertInternal` the functions of
these names up to the descent; `Descend` one call of `insertNonFullInternal`
above the last level, split of the child included, `ReachLeaf` the one on the
last level; `AllocateRight`, `WriteRight`, `WriteLeft` the three page accesses
of `splitLeafNode`; `FillLeaf` is `insertNonFullLeaf`. A root leaf is one object
with the copy being changed (`RootAfter`). `Cut` and `LevelOver` are the loops
of `bulkLoad`; `LoadDies` is the read of `currentLevel[0]` of an empty vector.
The searches change nothing and are operators; a child beyond the end of its
vector makes them undefined rather than a crash. `LastKey` of a page of zeros
reads bytes before the keys, a key of field 0, the least there is, and with a
number from the padding: `StrayIds` is what that may be.

*BPlusTreeClient.* `Open` starts a process with or without truncation,
`InsertRow` hands the next row to `insert`, `Ends` ends or kills the process at
any page access. `inserted` is a history variable, the keys whose insertion
returned. `KeySet` is implemented with `stored` mapped to the keys in the pages:
whatever a split does in three writes must be a stutter, and so must deaths and
reloads.

*PipeSyntax.* Nodes are numbered from the top; `kids` keeps the order of
"Plans", in which EXPLAIN lists InitPlans first and SubPlans last. `Dialect`,
`CTE`, `JoinKey`, `Filter` are the transformers with an effect on the result,
`Transform` their application, `PushUpAliases` the second pass. A node's output
is a sequence of columns, each with its references, which are resolved column by
column, as the generator does. `Register` is one node of `register_subplan`;
`Generate` and `Statements` are `generate` and the `gen_` functions;
`GenerateAll` adds the InitPlans. SQL is the sequence of its statements,
conditions, references and aliases.

## 3. The runs

| Run | Question and answer |
|---|---|
| `store_crash` | A client that updates only its own blocks, dying anywhere, metadata torn or read from an empty file: can the store hand out an id twice, overwrite a block that the file lists, or one that a second open store knows? No. Is there a whole block behind every id that the file lists, in the middle of a `persist` too? Yes. Is every id found as its own kind, by both stores, as long as no torn or uninitialised metadata were read? Yes. |
| `btree` | For each of the 128 sets of keys among seven and capacities 1 to 3: is the loaded tree a search tree with linked leaves and the returned height, do `get` and `range` answer from it, does all of it end? Yes, except for `range` as below. |
| `database_crash` | Three loads and any number of queries, dying anywhere: are tables all or nothing (`LoadsAreAtomic`), is each write of the registered kind, do queries answer from the file? Yes. |
| `database_query` | All tables of up to three rows over two keys and a few longer ones, all ranges: are the answers exact, is every block read once and no other, do loads and queries end? Yes. |
| `database_damaged` | After torn or overlong metadata: does a query that ends without an exception return a record twice or outside the range? No. Does `lookup` or `range` read a node that was never written, whose header would be uninitialised? No. |
| `btree_range` | Does `range` return nothing only if nothing matches (`btree.h:62`)? No: it returns nothing when `begin` lies above the last key of its leaf, although later leaves match. |
| `database_reload` | Does a query return all records of the range in both modes (`database.h:41`)? No: after a second load the index has the second table alone. |
| `bptree` | Tables of five rows in any order and longer ones, field 0 among them, dying at any page access and reopening: is the file a set of keys that grows one by one (`KeySet`), do the leaves' links meet all of it in order, even in the middle of a split, are leaf copies current, is the tree a search tree of equal depth, do `search` and `rangeSearch` answer exactly, does allocation lose no key, do calls end? Yes, except that a reopened file with the page of zeros of a split that died may miss keys of field 0 (`Astray`). |
| `bptree_reload` | Can a reopened file be searched for what was inserted (`LoadCheck.cpp:40`)? No: `bulkLoad` moves half as many keys as children when it cuts a node. |
| `bptree_append` | With rows inserted into reopened files too: is an allocated page a new one (`DiskManager.h:15`)? No: the first one after reopening is page 0. |
| `pipesyntax` | Every plan of up to four nodes and larger ones: is each node stated once, after what it reads, with its conditions, and are the operands of joins named after their tables? Yes, within the limits that the comments of the properties name. |
| `pipesyntax_join` | Are the operands that a join ignores subplans (`pipesyntax.py:258`)? No: with an InitPlan of its own it ignores an input. |

The runs that end in "No" to a quoted line (`btree_range`, `database_reload`,
`bptree_reload`, `bptree_append`, `pipesyntax_join`) show disagreements between
the code and its own comments or tests; they are the "findings" of
`PROJECT.json`.

### Bounds, and why they are enough

- *Store*: up to three ids (`MaxBlocks`), 16-bit words cut down to 0..4
  (`BlockNull`), a metadata block of six words, which holds three ids exactly.
  Three ids are enough for one persisted block of each kind with one not
  persisted behind them, and for an id reused after a death.
- *Uninitialised sizes*: at most `StaleMax`, 1. The proofs leave it free, up to
  half of `MaxBlocks`.
- *Tree*: seven keys with one key per node give three levels of internal nodes,
  one of them with a single pointer; with three keys per node, a root over full
  leaves and one that is not.
- *Database*: capacity 1 or 2 in blocks and nodes, so that three rows already
  make chains, several leaves and a level above them; three loads, so that a
  load can follow one that died and one that did not. `MaxLoads` bounds tables
  that are read, queries are unbounded. `BlockNull` is large enough that ids do
  not wrap, and only `database_damaged` has more ids than the metadata block
  holds.
- *proj1*: `MinDegree` 2, at most three keys per node, so that five rows split a
  leaf and nine split internal nodes and make a third level. Five rows over
  three values, 0 among them, are all orders and all repetitions of keys; the
  long tables fill the tree from the right, from the left and from both ends,
  and all of equal keys, nine to twelve rows of field 0. `StrayIds` has one
  number below and one above the rows'. Deaths and reopenings are unbounded.
  `bptree_reload` needs `MinDegree` 3, since with 2 there is a single key to
  move, and 18 rows in order. The code has `MinDegree` 4 (`DEGREE` 7), where the
  answers of a reopened tree are exact only as long as no node of it was cut
  (`CutTree`); what the inserting process does is proved for every degree.
- *project2*: all trees of up to four nodes with every distribution of inputs,
  InitPlans and SubPlans (`MaxNodes`), then five nodes of scans, sorts and joins
  and six of scans and joins. Four nodes hold a SubPlan in a SubPlan and an
  InitPlan in a SubPlan; six hold a join of three tables with a subplan.

Symmetry is not used: keys and ids are ordered. Deadlock is checked in every
run of project1 and proj1: there is always a process to open. The translation
of project2 is a function that returns, and its two runs say so
(`CHECK_DEADLOCK FALSE`).

### Fairness

`BTreeClient` assumes weak fairness of the steps of `bulk_load` and of the
calls, `FairSpec` of `Database` of the steps of a running process. The program
is single-threaded and waits for nothing but the file, so a process that is not
killed takes its next step. Opening a process and dying are not fair: nobody has
to start one, and a process may always be killed, which ends the load or query
too (`LoadEnds` and `QueryEnds` allow it). `FairSpec` of `BPlusTreeClient` is
the same for proj1: weak fairness of the steps of `insert` and of the
constructor, none of opening, of beginning an insertion, and of ending.

## 4. The proofs

`StoreProofs` is about `StoreSpec` for every value of the constants that the
named assumptions of `Blocks`, `DiskStore` and `StoreClient` allow.

- `TypesAreKept`, `IdsAreCounted`: `StoreTypeOK` and `StoreInv` always hold.
- `IdsAreFresh`: the id that the next insertion takes is listed neither in
  memory nor in the file. The code counts ids rather than taking the largest
  plus one, so this needs an invariant over the whole history of the file.
- `LiveBlocksKept`: no step, and no crash, changes a block that the file's
  metadata lists before and after it.

The last assumes `MetaFits`, that a metadata block has room for `MaxBlocks`
ids. Nothing in the code checks that. Without it the theorem is false: an image
of more words than `BlockWords` is not clear of block 0 (`ClearOf`), whatever
block 0 holds.

`StoreReaderProofs` is about `SharedSpec`, the store with a second reader.

- `ReadersAreSafe`: as long as the second store is open, no block that it knows
  changes (`MetaFits` again).
- `ListedBlocksStayWhole`: behind every id that the metadata in the file lists
  there is a whole block, behind the data ids data, whoever reads them and when,
  in the middle of a `persist`, after deaths and torn writes
  (`ListedBlocksAreWhole`; `MetaFits`). Only 0 may be listed without a block,
  by a list of zeros of an uninitialised size.

The first strengthens `IInv` by what the reader knows (`ReaderInv`): its ids are
below its own count, and that is at most the count in the file. It is inductive
because the count in the file never falls (`FileCountGrows`), which is why a new
block cannot take an id of an old reader, however many processes come and go.
The second has an invariant of its own, `TiedInv`, because what is read may be
new sizes and data ids with old words behind them. It says of a list of ids, of
the metadata in memory and of those read from the file, that its data ids ascend
and are of data blocks (`Tied`); of the words in the file behind the sizes, that
each is 0 or of a block that is there, so that it does not matter which of them
are taken for ids, and of those read as data ids the same as of a list in memory
(`FileTied`); and that no block below the count is half written (`NoneIsHalf`).
Only a block that is not persisted can be half written, and its position is not
below the count in the file; a persist moves that count past it, but only with a
write that first settles the block (`PersistWrite`). `RoundTrip` (in
`StoreProofs`), that the image of some metadata reads back as that metadata
whatever longer image it was written over, gives the rest.

The inductive invariant of `StoreProofs` is `IInv == StoreTypeOK /\ StoreInv`.
Freshness alone is not inductive, since a process reads its metadata from a file
that an earlier, perhaps dying, process wrote. `StoreInv` therefore says four
things together: ids in memory are below the count in memory; the words of the
*file's* metadata area behind the sizes, the stale ones after a shorter image
included, are zero or below the count in the file; the file's count is at most
`base`, which is at most the count in memory; and a pending write is the image
of the metadata in memory or a block with an id from `base` on. The second part
is stated on words rather than on decoded lists because a torn image mixes words
of two images: `PrefixOverlay` shows that a prefix of a new image over an old
one still has the property, `DecodeLemma` that what is read back from such words
has its ids below its count, `ApplyLemma` puts them together for a pending write
and `TornOK` for a torn one. There is one lemma per action, and the theorems
follow from the invariant by `PTL`.

`StoreProofs` begins with `LowerBound`, the halving of `std::lower_bound`.

- `LowerBoundIsRight`: in a list whose elements from the one looked for up
  ascend, with only smaller ones before (`AscendsFrom`), it ends at the first
  element that is not less. A list that does not decrease is one for any
  element.
- `BinarySearchIsRight`: so that `BinarySearch` says whether the list has it. In
  any other list it finds nothing that is not there.

The halving is a recursive function, and what it computes is proved by
induction over the length of the interval. The induction is a least
counterexample (`Basics`), that is, an instance of the well-foundedness of `<`
for a set. With it `StoreReaderProofs` has a third theorem about the store:

- `LookupIsComplete`: as long as no torn or uninitialised metadata were read,
  `Metadata::lookup` finds every id of both stores as its own kind
  (`LookupFindsEveryId`). Its invariant says that the lists in memory, in the
  file and in a pending image increase and share no id. That rests on fresh ids
  being the count, and so larger than all before.

`TreeProofs` is about `Spec` of `BTreeClient`: a tree over any keys, of any node
capacity, loaded once and asked anything. All five of the run's invariants hold.

- `TreeStaysSearchTree` (`TreeIsSearchTree`): keys separate subtrees, all leaves
  are at one depth, no node is over its capacity, the root stands for exactly
  the keys given, and the tree is as high as `bulk_load` returns.
- `LeavesStayLinked` (`LeavesAreLinked`): the leaves share out the keys and each
  links to the one with the next key, the last to none.
- `GetIsExact` (`GetFindsTheKey`): `get` finds a key if and only if it was
  loaded, and reads one node per level.
- `RangeIsExact` (`RangeIsExactOrEmpty`): `range` answers with all of the range,
  in order, or with nothing, and with all of it when `begin` is a key or below
  all keys.
- `TreeTypesAreKept`: `TreeTypeOK`.

The invariant `IndexInv` does not look at the tree from the root, since for most
of `bulk_load` there is none. It says that *there is* a map `g` of the nodes
inserted so far which gives each of them the interval of keys it stands for
(`lo`, `hi`) and its height (`Grows(g)`), such that (`IndexProofs`): the
intervals of a node's children share out the node's, cut at its keys, and their
heights are one less (`InnerFits`); a leaf holds exactly the keys of its
interval, with their pointers (`LeafFits`); leaves come in key order, cover the
keys up to those that wait, and each links to the leaf where its interval ends
(`LinksFit`), except for the last; and the pairs in `work` and `propagate` are
what is missing: in `work` each of the nodes of the level below that have no
parent yet (`NodesWait`), in `propagate` the nodes of this level, which share
out all keys up to the first pair that waits (`LevelFits`). At most one node is
unfinished, or two while a leaf waits for its left sibling to be linked
(`OneInHand`, `TwoInHand`). An unfinished node stands for an empty interval that
grows by that of each child it takes (`FillInnerFits`). Therefore the separating
key of a child is known before the child's right neighbour is: it is the bound
of the first pair that waits.

A new tree can only differ in an inserted node (`Extended`) or a replaced one
(`Grown`); that the rest still fits is proved once (`ExtendedKeeps`,
`FillLeafFits`, `FillInnerFits`) and used for leaves and internal levels. For a
call the same `g` gives the argument: the node it stands at has the key in its
interval, if any node has (`Reaches`), one level is left for each read
(`GetIsExact` counts them); `range` has gathered exactly what lies between
`begin` and the leaf it comes to (`Ahead`). Heights and keys of subtrees, which
the properties define by recursion from a node, are only compared with `g` at
the end, by induction over ids (`SubtreeUnfolds`).

`BTreeClient` uses keys as pointers; that they are ids, `Keys \subseteq
BlockIds`, is an assumption of the model's making and not of the code's.

`DatabaseProofs` is about `Spec` of `Database`: whole program runs, for every
set of tables and ranges, every capacity and any number of loads.

- `LoadsKeepLiveBlocks`: no load, query or death changes a block that the file
  lists before and after it (`LiveBlocksUntouched`, under `MetaFits`). What
  `DiskStore` assumes of its clients, that they update only blocks they
  inserted, is here a fact about `bulk_load`: `BuildInv` says that the ids in
  its hands (`nodeId`, `nextLeaf`) are of blocks inserted since the store was
  opened, and that what it writes is a tree node. Each step of the program is
  therefore a step of the store that keeps `IInv` (`NextBuilds`,
  `StoreStepInv`).
- `AnswersStaySound`: a query that comes to an end answers with records of its
  range, and with none of them twice (`AnswersAreSound`). No assumption: the
  metadata may have been torn, overgrown or uninitialised, and any block
  damaged.

The second needs to know where the records of a table are at each moment of its
way into the file. `FileInv`: each block of the file, listed or not, and the
write in the buffer hold records of one key, and no record is in two of them.
`TableInv`: the rows that are not read, the blocks of the chains in memory and
all that was ever written share no record; those of a table differ by their
place in it, and from earlier tables by the count of loads, which no written
record exceeds. A row moves from the first to the second (`ReadRowKeeps`), a
block from the second to the buffer (`InsertDataKeeps`), and from there to the
file, or it is lost (`StoreStepMoves`). `QueryInv`: a query has nothing in the
buffer, so that the file stands still, and the records it has are in the blocks
it has seen. A block is then either seen, or shares no record with the answer
(`TakeBlockKeeps`); that it lies in the file at all follows from the search that
found its id in the metadata (`BinarySearchIsRight`, whose first half holds for
lists that are not sorted as well).

- `ScansAreExact`: a scan that comes to an end answers with every record of the
  range in the blocks that the file lists, once, and no other (`ScanIsExact`,
  without an assumption too).

It adds to `AnswersStaySound` that nothing is missing. `ScanInv`: between
opening and the answer the blocks that the process lists hold the records of
those that the file lists, and of a listed block either all records of the range
are in the answer or its id is still in the queue. Taking a block may put
another one behind it (`ScanGoesOn`), which is listed too or ends the process. A
file without a metadata block has no block at all, which is why sizes that were
never initialised do no harm (`OpenFinds`). The number of records follows from
there being none twice (`OnceCounts`).

`LoadProofs` goes on with what a load leaves in the file.

- `WritesKeepKinds`: each write goes to an id that `Metadata::lookup` finds as
  the block's kind (`WritesKeepTheKind`), in a damaged database as well.

A sorted list of ids is more than there is: torn metadata puts the ids of one
list into another. `KindInv` says instead that the ids from `base` on ascend at
the end of their list, that is, `AscendsFrom` for any of them; that holds of
every list when a store is opened or persisted, since all ids are below the
count then, and a new id is larger than all before it (`InsertLists`). The block
in the buffer and the nodes in the hands of `bulk_load` have such ids.

- `TablesAppearAtOnce`: the records in the blocks that the file lists stay the
  same in a step, or those of one whole table join them (`StoredGrows`). No
  record is lost by whatever process dies where, and no row of a table with a
  rejected row is ever listed.

This is what `AtomicDatabase` says of `stored`. It assumes `MetaFits` and
`~TornMeta`: a metadata image that reaches the file in part lists part of a
table. `LoadInv` follows a table through a load: at each moment its records are
exactly those of the rows not yet read, the chains in memory and the blocks
inserted since the store was opened (`TableParts`), while the older blocks hold
what the file holds (`OldData`). There is one lemma for each way a record moves
(`ReadRowGathers`, `InsertDataTakes`, `InsertHolds`), one that `bulk_load` moves
none (`LoadStepHolds`, from `KindInv`), and at the flush of `persist` the first
two parts are empty and the file lists the third (`StoredStays`, from
`RoundTrip`). That the table is new follows from the count of loads. That
`Garbage` is no data block and no node is an assumption about that constant
(`DatabaseAssumption`), which TLC evaluates on each run.

- `LoadsStayAtomic`: the refinement of `AtomicDatabase` as a whole
  (`LoadsAreAtomic`). With the flush of `persist` the records of one table join
  those stored, and those under the root become the records of that table alone;
  before it neither changes, whatever process dies where.
- `IndexStaysExact`: a query of a range that comes to an end answers with all
  records of the range under the root in the file, each once, or with none at
  all, and with all of them when the range begins at a key or below all keys
  (`IndexIsExactOrEmpty`).

Both assume `MetaFits` and `~TornMeta` again. The file need not have been filled
by one process: a query follows the tree of the last load among the blocks of
all others and of processes that died, and a load builds its tree beside them.
`TreeInv` says of the file that a tree hangs under its root that serves a set of
data blocks (`Serves`): there is a map `g` of nodes as in `TreeProofs`, now for
a set of keys given with it, whose nodes are blocks that the metadata lists;
each key leads to a block with records of that key, and the links from there
stay among the blocks of the key and go down (`ChainFits`). No block is outside
of the chains (`Linked`), or the index would miss it. The rest of `TreeInv`
(`LocalTree`) follows a load. The blocks inserted so far are the chains of the
keys read so far (`NewChains`); while `bulk_load` runs, what `IndexInv` says of
a load (`LoadFits`) holds of the nodes that this process has inserted
(`Building`), none of them before (`TreeIds`), and at the flush the new root has
its tree (`Built`). That the tree in the file stands through all this is
`LiveBlocksUntouched` once more, for the blocks it is made of (`SameIndex`:
process and file have the same root and ids until then). The records under a
block are then computed from `g` and the chains (`IndexedIs`), by induction over
ids. `RangeInv` follows a query: as long as it is in the tree the invariant of
`TreeProofs`' calls holds (`CallFits`); the pointers it returns are the first
blocks of the chains of some keys, `K`, which are all keys of the range or, if
the range begins with no key, none; and then for each of these keys the first
block is read or waiting, and so is the block that each block read links to
(`Scanning`). When nothing waits the blocks read are the chains of `K`. That the
tree is not there is a case of its own (`NoTree`): before the first load the
root is 0 and lists nothing.

- `EachBlockIsReadOnce`: an index query reads the data blocks in which records
  of its answer are, each once, and no other; a scan reads each data block that
  the file lists once (`QueriesReadEachBlockOnce`).

Here sizes that are not initialised do matter, so that it also assumes
`StaleMax = 0`: an empty file read with a size of one lists id 0, no process has
written that block, and a scan reads it; with `StaleMax = 2` TLC finds such a
run. What is counted are reads, not blocks, so that the proof has to know that
no id is read twice. No block is listed twice, by the process or the file
(`Tidy`); listed blocks link to listed blocks of the same key (`FileIsChained`),
so that a scan may find a link to a block that is still in its queue, or that it
has read. `CountInv` counts them: ids occur twice in the queue only if a record
of the range is in the block (`Repeats`, `Hits`), the second time they are in
`seen`, and what a scan has read is what it has seen and the listed blocks that
are not in the queue any more (`Passed`).

- `DatabaseTypesKept`: `DatabaseTypeOK`, without an assumption on the metadata
  or on deaths. The chains in memory have no block that is empty or overfull,
  the map of keys leads to data blocks, and the queue and the answer of a query
  hold ids of blocks and records of loads that were made.

This is little to say and much to prove. A query follows what is in the file,
the pointers of nodes and the links of data blocks, and the file may have been
left by any process, its metadata listing blocks that were never finished. So
the invariant (`TypeInv`) has to say that every block below the count (of the
process, or of the file when there is none) can be followed (`FormInv`): it is
zeros, bytes of no block, a data block with a link, or a node with one pointer
more than keys, except for the two nodes that `bulk_load` has in its hands.
Those are what it remembers of them, and a node without a pointer gets one as
long as pairs are left (`HandInv`): a leaf is written before it has its first
record, and if the process dies then it is behind the count of the file
(`KeptAtEnd`), since the metadata is written after `bulk_load`. `KeyInv` and
`LookupInv` type the maps and the calls. `KeysInOrder` shows that the map of
keys is handed to `bulk_load` in ascending order, each key once.

`KeySetProofs` is about `Spec` of `BPlusTreeClient`, for every degree and every
set of tables.

- `AllocationsAreNew`: if no process inserts into a file that it reopened with
  pages (`~AppendAfterReload`), allocation never loses a key. With such
  insertions it is false (`bptree_append`).

Its invariant `PagesAreNumbered` says that pages are numbered without gaps and
that a process that has begun to insert has allocated all of them itself, so
that the counter names the page behind the last.

Two more theorems have the same assumption.

- `FileIsKeySet`: proj1's file implements `KeySet`. Each page write adds one key
  to the keys in the pages or leaves that set alone, whatever process dies
  between the three writes of a split.
- `CopiesStayCurrent`: the copy of a leaf that a node in memory holds is the
  page in the file, except for the leaf a running insertion has its hands on
  (`CopiesAreCurrent`).

The invariant says what a process that has allocated all pages itself (`Owner`)
keeps true at each point of an insertion: all keys in the pages are of rows
before the one at hand; every page knows its number, except for the one that is
allocated and still zeros (`PendingInv`); the root is nothing, a leaf object
that is its page, or a node that hangs nowhere (`RootInv`); the node the descent
stands at is in the heap and has a place for the key (`PlaceInv`); the leaf at
hand is its page, and before `WriteLeft` the page to its right holds exactly the
keys that this write takes away (`LeafInv`), which is why the order of the two
writes matters. Any other process only loads or searches, and writes nothing.

Which child a descent takes needs facts about nodes that hold at every moment
of a split (`SoundHeap`): a node has as many children as keys or
one more, no node hangs in two places, and a child that is not the last has a
key to its right that is not less than its last key. That is why `PlaceOf`
always names a child, and why appending, adopting and splitting
(`AppendsSound`, `AdoptsSound`, `SplitsSound`) keep all of it.

- `ChainStaysWhole`: the links from page 0 meet every key of the file once and
  in ascending order (`ChainIsWhole`), at every moment of a split and in
  whatever file a dead process leaves. The assumption is `~AppendAfterReload`
  again: an insertion into a reopened file breaks the chain.

That no key is met out of order depends on where the descent goes, so the
invariant of this theorem (`OInv`, beside the one above) is about the order of
the whole tree. Each node and each leaf has a span, the set of the keys that
belong under it. `Ordered` says of the heap that the keys of a node ascend and
lie in its span, that a child whose place is between two of them has the keys of
the span between them, and that no leaf is a child twice. `Chain` says of the
file that the links lead through pages `c` without repetition, that all keys of
the file are in them, in ascending order and in the span of their page, and that
of two pages the later has the greater span (`Apart`). The two meet in
`TreeFits`: the spans of pages are the same, the root has the span of all keys,
and the key to insert is in that of the node or leaf at hand (`HandFits`). One
lemma of the order of nodes stands beside each lemma of their shape: splitting a
node divides its span at the key that goes up (`SplitOrders`), adopting a leaf
divides the span of a leaf (`ShapeOrders`), a new parent has all keys
(`ParentOrders`). Between the allocation of a right half and the write of the
left one the tree already has the new leaf and the chain does not: `Halve`
relates the spans of the one to those of the other, and only `WriteLeft` adds
the page to the chain (`ChainSplits`); until then the right half holds copies of
keys whose page is still the left one's. `ChainMakesWhole` reads `ChainIsWhole`
off the chain: a chain without repetition is no longer than the file
(`ChainBound`), and `Met` follows it (`MetIs`).

Two theorems are about a process that has allocated all pages of its file
(`~Reloaded`), whatever the splits have made of its tree, so that the exceptions
`CutTree` and `Astray` have no part in them. `~AppendAfterReload` is assumed as
before.

- `SearchFindsInsertions`: between calls `search` finds a key if and only if an
  insertion of it has returned (`SearchIsExact`).
- `InsertionsKeepTree`: between calls the nodes are a search tree over the keys
  of the file, each node has a child per key or one more, and all leaves are
  equally deep (`TreeIsSound`).

`FindLeaf`, `Height`, `Depth` and `Under` are recursive functions over the
nodes, and a recursive function can be unfolded only where it is known to have a
value. `LevelInv` provides that: the nodes have levels, those over leaves level
1, any other one more than its children. A function that agrees with one
unfolding on each level exists by induction over the levels (`FindExists`,
`UnderExists`), which needs no induction theorem, only the least level where it
fails. `Ordered` and `Chain` then say what the value is: `FindLands`, that the
way down for a key of the span of a node ends at the leaf with the key in its
span; `SearchFinds`, that this leaf has each key of the file in its span, and
that the lower bound in it is the key; `SpanIsUnder`, that the keys under a node
are those of the file in its span. `FileHolds` says that the keys in the pages
are those whose insertion has returned. `FilledInv` says that a leaf under a
node has keys, but for the page just allocated: the shape asks for keys under
each child.

Only model-checked: liveness, which the prover does not do (`LoadEnds`,
`QueryEnds` and their like); `NodesAreWritten`; `SearchIsExact` and
`TreeIsSound` of the tree that `bulkLoad` builds when a file is reopened, and
`TypeOK`, which types that tree as well: its levels are folds over sequences,
about which nothing can be proved; the answers of proj1's `rangeSearch`
(`RangeIsExact`), whose statement sorts and selects with operators that are
recursive in the standard modules; everything about `PipeSyntax`, whose
operators are `RECURSIVE`.

## 5. Not modelled

- *project1*: `to_key`'s single-precision conversion and the parsing of rows: a
  row is a key or a row that is rejected. `mean_fg_pct_home` (it divides 0 by 0
  when no record matches). What `main` prints. Two stores that both write one
  file, and updates of blocks that the file lists, which no code but a test
  makes. Ids beyond 16 bits, and data blocks of more than 255 records.
  `MemStore`, whose blocks are shared by pointer, and the write counters of
  `SpyStore`: only tests use them.
- *proj1*: printing, parsing, the values of the records, `freePage`, which
  nothing calls. A file stream that buffers whole pages would lose more at a
  death.
- *project2*: sqlglot's translation of expressions, PostgreSQL and its index
  keys; costs, layout, kinds of joins, the ORDER BY of index scans, the group
  keys in aggregates. `pipesyntax_setops.py`, which nothing imports.
  `interface.py`: Tk runs one handler at a time, so that what can go wrong there
  (a failed reconnect leaves the closed connection in place) is in one step.
- The data files, containers and workflows.

Known limits of the code that the models show and no property forbids: a first
load that dies leaves a file that reads as root 0 with no ids; an empty file
gives lists of zeros; a process that dies between creating proj1's context file
and its file of pages leaves a context that no process but one that starts anew
can open; more than 2045 ids overwrite data block 0; a key of field 0 may be
missed beside a page of zeros; reopening a file of one page reads past the end
of an empty vector (`LoadDies`); searching a tree without a root dereferences
null; a range that begins with a row's number and ends without one may be empty;
an operand that reads three tables may get the name of one; two references to
subplans in one expression both become the first; a subplan in a subplan stays
unresolved; a node of an unknown type loses its filter; of two CTEs with one
name the first is lost.

## 6. Plan

1. More proofs about `BPlusTreeClient`: the answers of `rangeSearch`, from
   `Ordered` and `Chain`, and the tree of `bulkLoad`, which needs a function for
   the levels in place of the fold.
2. Two writers on one file of project1; the connection life cycle of project2's
   window.

## 7. Running

    tlc -workers 2 -config StoreCrash.cfg MCStoreClient
    tlc -workers 2 -config BPlusTree.cfg MCBPlusTree
    tlc -workers 2 -config PipeSyntax.cfg MCPipeSyntax
    tlapm StoreProofs.tla
    tlapm StoreReaderProofs.tla
    tlapm IndexProofs.tla
    tlapm TreeProofs.tla
    tlapm DatabaseProofs.tla
    tlapm LoadProofs.tla
    tlapm KeySetProofs.tla

`PROJECT.json` names the module and configuration of each run, the mutation of
a definition under which each property fails, and the source lines of every
definition.
