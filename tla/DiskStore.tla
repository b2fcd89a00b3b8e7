----------------------------- MODULE DiskStore -----------------------------
(***************************************************************************)
(* project1's DiskStore (disk_store.cpp): a file of fixed-size blocks, the *)
(* metadata block first.  Block writes go to the file as they are made;    *)
(* the metadata lives in memory until persist() writes it.                 *)
(*                                                                         *)
(* The file stream keeps its last write in a buffer until the next seek,   *)
(* flush or close, so that one write is pending and the ones before it     *)
(* have reached the file.  A process that dies loses the pending write, or *)
(* leaves it half done; the file keeps the rest.                           *)
(*                                                                         *)
(* The ids from base on are those of blocks inserted since the process     *)
(* opened the store or last wrote metadata to the file.  The loader        *)
(* updates no others; DiskStore itself would let a client update any.      *)
(***************************************************************************)
EXTENDS Blocks

CONSTANTS
  BlockWords,    \* 16-bit words in a block of the file
  MaxBlocks,     \* bound: ids a store registers
  StaleMax,      \* bound: what an uninitialised size of Metadata::read may hold
  TornMeta,      \* whether the data ids of an image reach the file before the rest
  Garbage        \* content of a block whose bytes are not those of one write

ASSUME DiskStoreAssumption ==
  /\ BlockWords \in Nat \ {0}
  /\ MaxBlocks \in Nat /\ MaxBlocks <= BlockNull
  /\ StaleMax \in Nat /\ 2 * StaleMax <= MaxBlocks
  /\ TornMeta \in BOOLEAN

VARIABLES
  status,     \* the file: "absent", "empty" (no byte in it) or "written"
  header,     \* words of the metadata area, <<>> while none was written
  disk,       \* content of each block position; Hole where none was written
  pending,    \* the buffered write
  open,       \* whether a process has the store open
  meta,       \* that process's Metadata object
  base        \* number of ids registered when it opened or last wrote metadata

storeVars == <<status, header, disk, pending, open, meta, base>>

\* A position that was never written: it reads as zeros.
Hole == [kind |-> "hole"]

NoWrite            == [to |-> "none"]
BlockWrite(id, b)  == [to |-> "block", id |-> id, block |-> b]
MetaWrite(words)   == [to |-> "meta", words |-> words]

StoreInit ==
  /\ status = "absent" /\ header = <<>> /\ disk = [id \in BlockIds |-> Hole]
  /\ pending = NoWrite
  /\ open = FALSE /\ meta = FreshMeta /\ base = 0

-----------------------------------------------------------------------------
(* The file.                                                               *)

\* The block positions that a metadata image of n words leaves alone: block 0
\* starts BlockWords words into the file.
ClearOf(id, n) == n <= BlockWords * (id + 1)

HeaderAfter(write) ==
  IF write.to = "meta" THEN Overlay(write.words, header) ELSE header

DiskAfter(write) ==
  CASE write.to = "block" -> [disk EXCEPT ![write.id] = write.block]
    [] write.to = "meta"  ->
         [id \in BlockIds |-> IF ClearOf(id, Len(write.words)) THEN disk[id] ELSE Garbage]
    [] OTHER              -> disk

\* The pending write reaches the file: a seek, a flush or a close.
Apply(write) ==
  /\ status' = IF write.to = "none" THEN status ELSE "written"
  /\ header' = HeaderAfter(write)
  /\ disk'   = DiskAfter(write)

-----------------------------------------------------------------------------
(* Operations of the store.                                                *)

\* Mutant: Metadata's constructor leaves the root 0.
ZeroMetaRooted(n, m) ==
  [root |-> 0, data |-> [i \in 1..n |-> 0], btree |-> [i \in 1..m |-> 0]]

\* Metadata whose lists are n and m zeros.
ZeroMeta(n, m) ==
  [root |-> BlockNull, data |-> [i \in 1..n |-> 0], btree |-> [i \in 1..m |-> 0]]

\* What the constructor's meta->read finds.  An empty file gives it no size:
\* the two locals stay uninitialised and the lists are that many zeros.
MetaOnOpen ==
  CASE status = "absent"  -> {FreshMeta}
    [] status = "empty"   -> {ZeroMeta(n, m) : n, m \in 0..StaleMax}
    [] status = "written" -> {Decode(header)}

Open ==
  /\ ~open
  /\ open' = TRUE
  /\ status' = IF status = "absent" THEN "empty" ELSE status
  /\ meta' \in MetaOnOpen
  /\ base' = Count(meta')
  /\ UNCHANGED <<header, disk, pending>>

\* Between the write and the flush of persist() nothing else happens.
Ready == open /\ pending.to # "meta"

Insert(block) ==
  /\ Ready
  /\ Count(meta) < MaxBlocks
  /\ meta' = Register(meta, block.kind)
  /\ Apply(pending)
  /\ pending' = BlockWrite(NewId(meta), block)
  /\ UNCHANGED <<open, base>>

Update(id, block) ==
  /\ Ready
  /\ Apply(pending)
  /\ pending' = BlockWrite(id, block)
  /\ UNCHANGED <<open, meta, base>>

\* get_block seeks before it reads, and so settles the pending write.
Fetch ==
  /\ Ready
  /\ Apply(pending)
  /\ pending' = NoWrite
  /\ UNCHANGED <<open, meta, base>>

\* BTree::set_root: metadata in memory only.
SetRoot(id) ==
  /\ Ready
  /\ meta' = [meta EXCEPT !.root = id]
  /\ UNCHANGED <<status, header, disk, pending, open, base>>

\* Mutant: the block in the buffer is dropped.
PersistUnsettled ==
  /\ Ready
  /\ pending' = MetaWrite(Encode(meta))
  /\ UNCHANGED <<status, header, disk, open, meta, base>>

\* persist(): write the metadata, then flush the stream.
PersistWrite ==
  /\ Ready
  /\ Apply(pending)
  /\ pending' = MetaWrite(Encode(meta))
  /\ UNCHANGED <<open, meta, base>>

\* Sizes and data ids of an image: data ids of 1024 bytes or more go to the
\* file at once, with what is in the buffer, and leave the tree ids in it.
EarlyPart == MetaWrite(SubSeq(pending.words, 1, 3 + pending.words[2]))

PersistPart ==
  /\ TornMeta /\ open /\ pending.to = "meta"
  /\ Apply(EarlyPart)
  /\ base' = Count(meta)
  /\ UNCHANGED <<pending, open, meta>>

PersistFlush ==
  /\ open /\ pending.to = "meta"
  /\ Apply(pending)
  /\ pending' = NoWrite
  /\ base' = Count(meta)
  /\ UNCHANGED <<open, meta>>

Forget == open' = FALSE /\ meta' = FreshMeta /\ base' = 0 /\ pending' = NoWrite

\* The process ends normally: the stream's destructor flushes it.
Close == Ready /\ Apply(pending) /\ Forget

\* The process dies.  Its pending write is lost, or done, or half done.
TornWrites ==
  CASE pending.to = "block" -> {BlockWrite(pending.id, Garbage)}
    [] pending.to = "meta" /\ TornMeta -> {EarlyPart}
    [] OTHER -> {}

Crash ==
  /\ open
  /\ \E write \in {NoWrite, pending} \cup TornWrites : Apply(write)
  /\ Forget

-----------------------------------------------------------------------------
(* What the store promises.                                                *)

IdsOf(m) == ToSet(m.data) \cup ToSet(m.btree)

\* Number of ids, and ids, that the metadata in the file lists.
FileCount == Word(header, 2) + Word(header, 3)
FileIds   == {Word(header, 3 + i) : i \in 1..FileCount}

\* The metadata block holds the metadata of every store within the bounds.
MetaFits == 3 + MaxBlocks <= BlockWords

\* Every variable has its type.
StoreTypeOK ==
  /\ status \in {"absent", "empty", "written"}
  /\ header \in Seq(BlockIds)
  /\ DOMAIN disk = BlockIds
  /\ open \in BOOLEAN
  /\ meta \in [root : BlockIds, data : Seq(BlockIds), btree : Seq(BlockIds)]
  /\ base \in 0..BlockNull
  /\ \/ pending = NoWrite
     \/ pending.to = "block" /\ pending.id \in BlockIds
     \/ pending.to = "meta" /\ pending.words \in Seq(BlockIds)

\* The inductive invariant: ids are counted, never reused.  Every id a process
\* has registered is below its count, every id in the file is below the file's
\* count, the file's count is at most base, and the pending write is either
\* the image of the metadata or a block from base on.
IdsBelowCount ==
  /\ Count(meta) <= MaxBlocks
  /\ \A id \in IdsOf(meta) : id < Count(meta)
FileIdsBelowCount ==
  /\ status # "written" => header = <<>>
  /\ FileCount <= MaxBlocks
  /\ \A i \in 4..Len(header) : header[i] = 0 \/ header[i] < FileCount
BaseBetweenCounts == open => FileCount <= base /\ base <= Count(meta)
PendingIsRecent ==
  /\ pending.to = "block" => open /\ base <= pending.id /\ pending.id < Count(meta)
  /\ pending.to = "meta"  => open /\ pending.words = Encode(meta)
StoreInv ==
  IdsBelowCount /\ FileIdsBelowCount /\ BaseBetweenCounts /\ PendingIsRecent

\* metadata.h:28 "Get a fresh unallocated block id": the id the next insert
\* takes is neither in the process's metadata nor listed in the file, whatever
\* was found when the store was opened.
NewIdIsFresh ==
  open /\ Count(meta) < MaxBlocks => NewId(meta) \notin IdsOf(meta) \cup FileIds

\* Blocks are written beside the live ones, never over them: no step, a crash
\* included, changes a block that the metadata in the file lists before and
\* after it.  This is what lets a load that dies leave the database as it was.
LiveBlocksUntouched ==
  [][\A id \in FileIds \cap FileIds' : disk'[id] = disk[id]]_storeVars
=============================================================================
