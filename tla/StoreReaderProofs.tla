------------------------- MODULE StoreReaderProofs --------------------------
(***************************************************************************)
(* Proofs about a store with a second reader, for every number of ids and  *)
(* block size: the file's count of ids never falls, so that what a reader  *)
(* has read stays below it; metadata of one persist keeps its ids where    *)
(* the search by halves finds them; and behind every id in the file there  *)
(* is a whole block, also when its metadata are half of an older image.    *)
(***************************************************************************)
EXTENDS StoreReader, StoreProofs

-----------------------------------------------------------------------------
(* The reader's snapshot.                                                  *)

\* A step of the pair is one of the store, or leaves it alone.
LEMMA SharedStep == SharedNext \/ UNCHANGED sharedVars => [StoreNext]_storeVars
  BY DEF SharedNext, WriterStep, sharedVars

\* No step lowers the number of ids that the file lists: metadata is replaced
\* by metadata that lists at least as many.
LEMMA FileCountGrows ==
  ASSUME IInv, [StoreNext]_storeVars
  PROVE  FileCount' \in Nat /\ FileCount <= FileCount'
<1>1. FileCount \in Nat /\ Count(meta) \in Nat
  BY InvFacts
<1>2. \/ header' = header
      \/ open /\ \E write \in {NoWrite, pending} \cup TornWrites : Apply(write)
  <2>1. PersistPart => open /\ EarlyPart \in TornWrites /\ Apply(EarlyPart)
    BY DEF PersistPart, TornWrites
  <2> QED BY <2>1 DEF StoreNext, Open, Insert, UpdateOwn, Update, SetRoot, Fetch,
                      PersistWrite, PersistFlush, Close, Crash, Ready, storeVars
<1>3. CASE header' = header
  <2>1. FileCount' = FileCount
    BY <1>3 DEF FileCount
  <2> HIDE DEF FileCount
  <2> QED BY <1>1, <2>1, SMT
<1>4. CASE open /\ \E write \in {NoWrite, pending} \cup TornWrites : Apply(write)
  <2>1. PICK write : WriteOK(write) /\ Apply(write)
    BY <1>4, TornOK
  <2>2. /\ FileCount' \in Nat
        /\ FileCount' = FileCount \/ FileCount' = Count(meta)
    BY <1>4, <2>1, ApplyLemma, Zenon
  <2>3. base \in Nat /\ FileCount <= base /\ base <= Count(meta)
    BY <1>4, InvFacts DEF IInv, StoreInv, BaseBetweenCounts
  <2> HIDE DEF FileCount, Count
  <2> QED BY <1>1, <2>2, <2>3, SMT
<1> QED BY <1>2, <1>3, <1>4

\* The inductive invariant of the pair.
ReaderInv == IInv /\ reader \in MetaType /\ ReaderCounts

LEMMA ReaderInit == SharedInit => ReaderInv
<1> SUFFICES ASSUME SharedInit PROVE ReaderInv
  OBVIOUS
<1>1. IInv /\ reader = FreshMeta
  BY InitInv DEF SharedInit, NoReader, FreshMeta
<1>2. FreshMeta \in MetaType /\ Count(FreshMeta) = 0 /\ IdsOf(FreshMeta) = {}
  BY FreshFacts
<1>3. FileCount \in Nat
  BY <1>1, InvFacts
<1> HIDE DEF FileCount
<1> QED BY <1>1, <1>2, <1>3, SMT DEF ReaderInv, ReaderCounts

LEMMA ReaderNext ==
  ASSUME ReaderInv, SharedNext \/ UNCHANGED sharedVars PROVE ReaderInv'
<1>0. IInv /\ [StoreNext]_storeVars
  BY SharedStep DEF ReaderInv
<1>1. IInv' /\ FileCount \in Nat /\ FileCount' \in Nat /\ FileCount <= FileCount'
  BY <1>0, NextInv, FileCountGrows, InvFacts
<1>2. CASE reader' = reader
  <2>1. Count(reader) \in Nat /\ Count(reader) <= FileCount
    BY MetaFacts DEF ReaderInv, ReaderCounts
  <2>2. Count(reader') = Count(reader) /\ IdsOf(reader') = IdsOf(reader)
    BY <1>2
  <2>3. Count(reader') <= FileCount'
    <3> HIDE DEF FileCount, Count
    <3> QED BY <1>1, <2>1, <2>2, SMT
  <2> QED BY <1>1, <1>2, <2>2, <2>3 DEF ReaderInv, ReaderCounts
<1>3. CASE ReaderOpens /\ UNCHANGED storeVars
  <2>1. FileCount' = FileCount /\ reader' = Decode(header)
    BY <1>3 DEF ReaderOpens, storeVars, FileCount
  <2>2. HeaderOK(header, FileCount)
    BY <1>0, InvFacts
  <2>3. /\ Decode(header) \in MetaType
        /\ Count(Decode(header)) = FileCount
        /\ \A id \in IdsOf(Decode(header)) : id < FileCount
    <3> HIDE DEF FileCount
    <3> QED BY <1>1, <2>2, DecodeLemma
  <2>4. Count(reader') <= FileCount'
    <3> HIDE DEF FileCount, Count
    <3> QED BY <1>1, <2>1, <2>3, SMT
  <2> QED BY <1>1, <2>1, <2>3, <2>4 DEF ReaderInv, ReaderCounts
<1>4. CASE ReaderCloses
  <2>1. reader' = FreshMeta
    BY <1>4 DEF ReaderCloses, NoReader, FreshMeta
  <2>2. FreshMeta \in MetaType /\ Count(FreshMeta) = 0 /\ IdsOf(FreshMeta) = {}
    BY FreshFacts
  <2>3. 0 <= FileCount'
    <3> HIDE DEF FileCount
    <3> QED BY <1>1, SMT
  <2> QED BY <1>1, <2>1, <2>2, <2>3 DEF ReaderInv, ReaderCounts
<1> QED BY <1>2, <1>3, <1>4 DEF SharedNext, WriterStep, sharedVars

LEMMA ReaderInvariant == SharedSpec => []ReaderInv
<1>1. ReaderInv /\ [SharedNext]_sharedVars => ReaderInv'
  BY ReaderNext
<1> QED BY ReaderInit, <1>1, PTL DEF SharedSpec

\* No step changes a block that the reader knows: writes go to ids that the file
\* did not list when the reader came.
LEMMA SnapshotStep ==
  ASSUME MetaFits, ReaderInv, [SharedNext]_sharedVars, NEW id \in IdsOf(reader)
  PROVE  disk'[id] = disk[id]
<1>1. IInv /\ [StoreNext]_storeVars
  BY SharedStep DEF ReaderInv
<1>2. CASE disk' = disk
  BY <1>2
<1>3. CASE open /\ \E write \in {NoWrite, pending} \cup TornWrites : Apply(write)
  <2>1. PICK write : WriteOK(write) /\ Apply(write)
    BY <1>1, <1>3, TornOK
  <2>2. id \in BlockIds /\ id < Count(reader) /\ Count(reader) <= FileCount
    BY IdsAreBlockIds DEF ReaderInv, ReaderCounts
  <2>3. /\ Count(reader) \in Nat /\ FileCount \in Nat /\ base \in Nat
        /\ FileCount <= base
    BY <1>1, <1>3, MetaFacts, InvFacts DEF ReaderInv, IInv, StoreInv, BaseBetweenCounts
  <2>4. ~(base <= id)
    <3> HIDE DEF FileCount, Count
    <3> QED BY <2>2, <2>3, BlocksAssumption, SMT DEF BlockIds
  <2> QED BY <1>1, <2>1, <2>2, <2>4, ApplyKeeps
<1> QED BY <1>1, <1>2, <1>3, StepWrites

\* disk_store_test.cpp:37: while the metadata fits in its block, a second store
\* on the file finds each block that it knows unchanged, whatever the first
\* one, its death and later processes do (DiskStore::get, insert, persist).
THEOREM ReadersAreSafe == ASSUME MetaFits PROVE SharedSpec => SnapshotStays
<1>1. ReaderInv /\ [SharedNext]_sharedVars
        => [\A id \in IdsOf(reader) : disk'[id] = disk[id]]_sharedVars
  BY SnapshotStep
<1> QED BY ReaderInvariant, <1>1, PTL DEF SharedSpec, SnapshotStays

-----------------------------------------------------------------------------
(* Registered ids are found.                                               *)

\* Metadata that std::binary_search works on: both lists ascend, and no id is
\* in both.
Listed(m) ==
  /\ Ascending(m.data) /\ Ascending(m.btree)
  /\ ToSet(m.data) \cap ToSet(m.btree) = {}

\* Metadata::lookup finds every id of such metadata as its kind.
LEMMA LookupLemma ==
  ASSUME NEW m \in MetaType, Listed(m)
  PROVE  /\ \A i \in DOMAIN m.data  : KindOf(m, m.data[i]) = "data"
         /\ \A i \in DOMAIN m.btree : KindOf(m, m.btree[i]) = "btree"
<1>1. m.data \in Seq(Int) /\ m.btree \in Seq(Int)
  <2>1. BlockIds \subseteq Int
    BY BlocksAssumption, SMT DEF BlockIds
  <2>2. m.data \in Seq(BlockIds) /\ m.btree \in Seq(BlockIds)
    BY MetaFacts
  <2> QED BY <2>1, <2>2, SeqMonotonic, Zenon
<1>2. /\ \A i \in DOMAIN m.data  : m.data[i] \in Int /\ m.data[i] \in ToSet(m.data)
      /\ \A i \in DOMAIN m.btree : m.btree[i] \in Int /\ m.btree[i] \in ToSet(m.btree)
  <2>1. /\ \A i \in DOMAIN m.data  : m.data[i] \in Int
        /\ \A i \in DOMAIN m.btree : m.btree[i] \in Int
    BY <1>1, SMT
  <2> QED BY <2>1, Zenon DEF ToSet
<1>3. \A id \in Int : /\ BinarySearch(m.data, id) <=> id \in ToSet(m.data)
                      /\ BinarySearch(m.btree, id) <=> id \in ToSet(m.btree)
  <2>1. \A id \in Int : AscendsFrom(m.data, id) /\ AscendsFrom(m.btree, id)
    BY DEF Listed, Ascending, AscendsFrom
  <2> QED BY <1>1, <2>1, BinarySearchIsRight, Zenon
<1> QED BY <1>2, <1>3, Zenon DEF KindOf, Listed

\* Metadata without ids.
LEMMA NothingListed ==
  ASSUME NEW m \in MetaType, Count(m) = 0 PROVE Listed(m)
<1> DEFINE d == Len(m.data)
           b == Len(m.btree)
           c == Count(m)
<1>1. d = 0 /\ b = 0
  <2>1. d \in Nat /\ b \in Nat /\ c = d + b /\ c = 0
    BY MetaFacts
  <2> HIDE DEF d, b, c
  <2> QED BY <2>1, SMT
<1>2. DOMAIN m.data = {} /\ 1..Len(m.data) = {} /\ 1..Len(m.btree) = {}
  BY <1>1, MetaFacts, SMT
<1> QED BY <1>2 DEF Listed, Ascending, ToSet

\* An ascending list, and a number that is not less than any of it.
LEMMA AppendAscends ==
  ASSUME NEW s \in Seq(BlockIds), Ascending(s), NEW x \in BlockIds,
         \A y \in ToSet(s) : y < x
  PROVE  Ascending(Append(s, x)) /\ ToSet(Append(s, x)) = ToSet(s) \cup {x}
<1>1. /\ Append(s, x) \in Seq(BlockIds) /\ Len(s) \in Nat
      /\ Len(Append(s, x)) = Len(s) + 1
      /\ \A i \in 1..Len(s) : Append(s, x)[i] = s[i] /\ s[i] \in BlockIds
      /\ Append(s, x)[Len(s) + 1] = x
      /\ DOMAIN s = 1..Len(s)
  BY SMT
<1>2. \A i \in 1..Len(s) : s[i] < x
  BY <1>1 DEF ToSet
<1> DEFINE a == Append(s, x)
           n == Len(s)
<1>3. /\ n \in Nat /\ Len(a) = n + 1 /\ a[n + 1] = x
      /\ \A i \in 1..n : a[i] = s[i] /\ s[i] \in BlockIds /\ s[i] < x
      /\ \A i, j \in 1..n : i <= j => s[i] <= s[j]
  BY <1>1, <1>2 DEF Ascending
<1>4. ToSet(a) = ToSet(s) \cup {x}
  BY AppendLemma
<1> HIDE DEF a, n
<1>5. Ascending(a)
  <2> SUFFICES ASSUME NEW i \in 1..n + 1, NEW j \in 1..n + 1, i <= j PROVE a[i] <= a[j]
    BY <1>3 DEF Ascending
  <2>1. CASE j = n + 1
    <3>1. x \in Int
      BY BlocksAssumption, SMT DEF BlockIds
    <3>2. i \in 1..n \/ i = n + 1
      BY <1>3, SMT
    <3> QED BY <1>3, <2>1, <3>1, <3>2, BlocksAssumption, SMT DEF BlockIds
  <2>2. CASE j # n + 1
    <3>1. i \in 1..n /\ j \in 1..n
      BY <1>3, <2>2, SMT
    <3> QED BY <1>3, <3>1
  <2> QED BY <2>1, <2>2
<1> QED BY <1>4, <1>5 DEF a

\* A new id is greater than the others (Metadata::new_id), so that registering
\* it keeps the lists fit for the search.
LEMMA RegisterListed ==
  ASSUME NEW m \in MetaType, Count(m) < BlockNull, NEW kind, Listed(m),
         \A id \in IdsOf(m) : id < Count(m)
  PROVE  Listed(Register(m, kind))
<1> DEFINE c == Count(m)
           r == Register(m, kind)
<1>1. /\ m.data \in Seq(BlockIds) /\ m.btree \in Seq(BlockIds)
      /\ c \in Nat /\ NewId(m) = c
  BY MetaFacts, RegisterLemma
<1>2. /\ \A y \in ToSet(m.data)  : y < c /\ y \in Nat
      /\ \A y \in ToSet(m.btree) : y < c /\ y \in Nat
  BY IdsAreBlockIds, BlocksAssumption, SMT DEF IdsOf, BlockIds
<1>3. c \in BlockIds
  <2>1. c \in Nat /\ c < BlockNull
    BY <1>1
  <2> HIDE DEF c
  <2> QED BY <2>1, BlocksAssumption, SMT DEF BlockIds
<1>4. c \notin ToSet(m.data) /\ c \notin ToSet(m.btree)
  <2> HIDE DEF c
  <2> QED BY <1>1, <1>2, SMT
<1>5. CASE kind = "data"
  <2>1. r.data = Append(m.data, c) /\ r.btree = m.btree
    BY <1>1, <1>5 DEF Register, MetaType
  <2> HIDE DEF r, c
  <2>2. Ascending(r.data) /\ ToSet(r.data) = ToSet(m.data) \cup {c}
    BY <1>1, <1>2, <1>3, <2>1, AppendAscends DEF Listed
  <2>3. Listed(r)
    BY <1>4, <2>1, <2>2 DEF Listed
  <2> QED BY <2>3 DEF r
<1>6. CASE kind # "data"
  <2>1. r.btree = Append(m.btree, c) /\ r.data = m.data
    BY <1>1, <1>6 DEF Register, MetaType
  <2> HIDE DEF r, c
  <2>2. Ascending(r.btree) /\ ToSet(r.btree) = ToSet(m.btree) \cup {c}
    BY <1>1, <1>2, <1>3, <2>1, AppendAscends DEF Listed
  <2>3. Listed(r)
    BY <1>4, <2>1, <2>2 DEF Listed
  <2> QED BY <2>3 DEF r
<1> QED BY <1>5, <1>6

\* Metadata of one persist is fit for the search, in the writer, the reader and
\* the file.
CleanInv ==
  clean => Listed(meta) /\ Listed(reader) /\ (whole => Listed(Decode(header)))

LEMMA CleanInit == SharedInit => CleanInv
<1> SUFFICES ASSUME SharedInit PROVE CleanInv
  OBVIOUS
<1>1. IInv /\ meta = FreshMeta /\ reader = FreshMeta
  BY InitInv DEF SharedInit, StoreInit, NoReader, FreshMeta
<1>2. FreshMeta \in MetaType /\ Count(FreshMeta) = 0
  BY FreshFacts
<1>3. FileCount = 0
  BY SMT DEF SharedInit, StoreInit, FileCount, Word
<1>4. HeaderOK(header, 0) /\ 0 \in Nat
  BY <1>1, <1>3, InvFacts
<1>5. Decode(header) \in MetaType /\ Count(Decode(header)) = 0
  BY <1>4, DecodeLemma
<1> QED BY <1>1, <1>2, <1>5, NothingListed DEF CleanInv

\* Metadata in the file that are those of one persist are the ones it had, or
\* the writer's.
LEMMA WholeStep ==
  ASSUME ReaderInv, [SharedNext]_sharedVars, whole'
  PROVE  (whole /\ header' = header) \/ Decode(header') = meta
<1>1. IInv /\ header \in Seq(BlockIds)
  BY DEF ReaderInv, IInv, StoreTypeOK
<1>2. meta \in MetaType /\ Count(meta) <= BlockNull
  BY <1>1, InvFacts
<1>3. pending.to = "meta" => Decode(HeaderAfter(pending)) = meta
  <2>1. pending.to = "meta" => HeaderAfter(pending) = Overlay(Encode(meta), header)
    BY <1>1 DEF IInv, StoreInv, PendingIsRecent, HeaderAfter
  <2> QED BY <1>1, <1>2, <2>1, RoundTrip
<1>4. \/ whole /\ header' = header
      \/ pending.to = "meta" /\ header' = HeaderAfter(pending)
  BY DEF SharedNext, WriterStep, sharedVars, storeVars
<1> QED BY <1>3, <1>4

LEMMA CleanNext ==
  ASSUME ReaderInv, CleanInv, [SharedNext]_sharedVars PROVE CleanInv'
<1> SUFFICES ASSUME clean'
             PROVE  Listed(meta)' /\ Listed(reader)' /\ (whole' => Listed(Decode(header))')
  BY DEF CleanInv
<1>1. /\ clean /\ IInv /\ [StoreNext]_storeVars
      /\ Listed(meta) /\ Listed(reader) /\ (whole => Listed(Decode(header)))
  BY SharedStep DEF SharedNext, WriterStep, sharedVars, CleanInv, ReaderInv
<1>2. whole' => Listed(Decode(header'))
  BY <1>1, WholeStep
<1>3. Listed(FreshMeta)
  BY FreshFacts, NothingListed
<1>4. Listed(reader')
  <2>1. \/ reader' \in {reader, FreshMeta}
        \/ reader' = Decode(header) /\ whole
    BY DEF SharedNext, WriterStep, sharedVars, ReaderOpens, ReaderCloses, NoReader, FreshMeta
  <2> QED BY <1>1, <1>3, <2>1
<1>5. Listed(meta')
  <2>1. CASE Open
    <3>0. ~Taints
      BY <2>1 DEF SharedNext, WriterStep, sharedVars, ReaderOpens, ReaderCloses, Open, storeVars
    <3>1. CASE status = "absent"
      BY <1>3, <2>1, <3>1 DEF Open, MetaOnOpen
    <3>2. CASE status = "empty"
      <4>1. PICK n \in 0..StaleMax, m \in 0..StaleMax : meta' = ZeroMeta(n, m)
        BY <2>1, <3>2 DEF Open, MetaOnOpen
      <4>2. meta' \in MetaType /\ Count(meta') \in Nat
        BY <4>1, FreshFacts, MetaFacts
      <4>3. ~(Count(meta') > 0)
        BY <2>1, <3>0, <3>2 DEF Taints
      <4>4. Count(meta') = 0
        <5> HIDE DEF Count
        <5> QED BY <4>2, <4>3, SMT
      <4> QED BY <4>2, <4>4, NothingListed
    <3>3. CASE status = "written"
      BY <1>1, <2>1, <3>0, <3>3 DEF Open, MetaOnOpen, Taints
    <3> QED BY <1>1, <3>1, <3>2, <3>3 DEF IInv, StoreTypeOK
  <2>2. CASE \E block \in Contents : Insert(block)
    <3>1. PICK block \in Contents : Insert(block)
      BY <2>2
    <3>2. meta' = Register(meta, block.kind) /\ Count(meta) < MaxBlocks
      BY <3>1 DEF Insert
    <3>3. /\ meta \in MetaType /\ Count(meta) \in Nat
          /\ \A id \in IdsOf(meta) : id < Count(meta)
      BY <1>1, InvFacts
    <3>4. Count(meta) < BlockNull
      <4> HIDE DEF Count
      <4> QED BY <3>2, <3>3, BlocksAssumption, DiskStoreAssumption, SMT
    <3> QED BY <1>1, <3>2, <3>3, <3>4, RegisterListed
  <2>3. CASE \E id \in IdsOf(meta) : SetRoot(id)
    <3>1. meta'.data = meta.data /\ meta'.btree = meta.btree
      BY <1>1, <2>3, InvFacts DEF SetRoot, MetaType
    <3> QED BY <1>1, <3>1 DEF Listed
  <2>4. CASE Close \/ Crash
    BY <1>3, <2>4 DEF Close, Crash, Forget
  <2>5. CASE \/ UpdateOwn \/ Fetch \/ PersistWrite \/ PersistPart \/ PersistFlush
             \/ UNCHANGED storeVars
    BY <1>1, <2>5 DEF UpdateOwn, Update, Fetch, PersistWrite, PersistPart, PersistFlush,
                      storeVars
  <2> QED BY <1>1, <2>1, <2>2, <2>3, <2>4, <2>5 DEF StoreNext
<1> QED BY <1>2, <1>4, <1>5

\* metadata.h:18-20, Metadata::lookup: as long as no metadata that a process
\* reads is half written or uninitialised, every registered id is found as its
\* own kind, by a process that writes and by one that reads beside it, for every
\* number of blocks of either kind, however the halving goes.
THEOREM LookupIsComplete == SharedSpec => []LookupFindsEveryId
<1>1. ReaderInv /\ CleanInv /\ [SharedNext]_sharedVars => CleanInv'
  BY CleanNext
<1>2. ReaderInv /\ CleanInv => LookupFindsEveryId
  <2> SUFFICES ASSUME ReaderInv, CleanInv, clean, NEW m \in {meta, reader}
               PROVE  /\ \A i \in DOMAIN m.data  : KindOf(m, m.data[i]) = "data"
                      /\ \A i \in DOMAIN m.btree : KindOf(m, m.btree[i]) = "btree"
    BY DEF LookupFindsEveryId
  <2>1. m \in MetaType /\ Listed(m)
    BY InvFacts DEF ReaderInv, CleanInv
  <2> QED BY <2>1, LookupLemma
<1> QED BY ReaderInvariant, CleanInit, <1>1, <1>2, PTL DEF SharedSpec

-----------------------------------------------------------------------------
(* Behind every listed id there is a whole block.                          *)

\* The block that a position will hold when the buffered write is in the file.
BlockAt(id) ==
  IF pending.to = "block" /\ pending.id = id THEN pending.block ELSE disk[id]

HoldsData(id) == BlockAt(id) = Hole \/ BlockAt(id).kind = "data"

\* The ids of metadata m have blocks behind them, its data ids data.
Tied(m) ==
  /\ \A id \in IdsOf(m) : BlockAt(id) = Hole => id = 0
  /\ \A id \in ToSet(m.data) : HoldsData(id)

\* No id that a store has handed out belongs to a half-written block.
NoneIsHalf ==
  \A id \in BlockIds :
    id < FileCount \/ (open /\ id < Count(meta)) => BlockAt(id) # Garbage

\* So for the file: its metadata may be part of one image and part of another,
\* which is why every word that may ever be read as an id is spoken of.
FileTied ==
  /\ \A i \in 4..Len(header) : BlockAt(header[i]) = Hole => header[i] = 0
  /\ \A id \in ToSet(Decode(header).data) : HoldsData(id)
  /\ Ascending(Decode(header).data)

\* A file without a write holds no block; a client writes blocks.
Written ==
  /\ status # "written" => \A id \in BlockIds : disk[id] = Hole
  /\ pending.to = "block" => pending.block \in Contents

TiedInv == NoneIsHalf /\ Tied(meta) /\ Ascending(meta.data) /\ FileTied /\ Written

\* The blocks of a client.
LEMMA ContentsFacts ==
  ASSUME NEW block \in Contents
  PROVE  block # Hole /\ block # Garbage /\ block.kind \in {"data", "btree"} /\ Garbage # Hole
  BY ContentsAssumption DEF Hole

\* Below the file's count the buffered write has no block.
LEMMA SettledBelow ==
  ASSUME IInv, NEW id \in BlockIds, id < FileCount \/ pending.to # "block"
  PROVE  BlockAt(id) = disk[id]
<1>1. CASE pending.to = "block"
  <2>1. open /\ base <= pending.id /\ FileCount <= base
    BY <1>1 DEF IInv, StoreInv, PendingIsRecent, BaseBetweenCounts
  <2>2. FileCount \in Nat /\ base \in Nat /\ pending.id \in BlockIds
    BY <1>1, InvFacts DEF IInv, StoreTypeOK, NoWrite
  <2> HIDE DEF FileCount
  <2>3. pending.id # id
    BY <1>1, <2>1, <2>2, BlocksAssumption, SMT DEF BlockIds
  <2> QED BY <2>3 DEF BlockAt
<1> QED BY <1>1 DEF BlockAt

\* A seek puts the buffered block into the file.
LEMMA SeekSettles ==
  ASSUME IInv, Ready, Apply(pending), NEW id \in BlockIds
  PROVE  disk'[id] = BlockAt(id) /\ header' = header
<1>1. DOMAIN disk = BlockIds
  BY DEF IInv, StoreTypeOK
<1>2. CASE pending.to = "block"
  BY <1>1, <1>2 DEF Apply, DiskAfter, HeaderAfter, BlockAt
<1>3. CASE pending = NoWrite
  BY <1>3 DEF Apply, DiskAfter, HeaderAfter, BlockAt, NoWrite
<1> QED BY <1>2, <1>3 DEF IInv, StoreTypeOK, Ready

\* What reaches the file of an image changes no block, and is no block.
LEMMA ImageSettles ==
  ASSUME IInv, MetaFits, pending.to = "meta", NEW write \in {NoWrite, pending} \cup TornWrites,
         Apply(write), pending' \in {NoWrite, pending}, NEW id \in BlockIds
  PROVE  BlockAt(id)' = BlockAt(id) /\ disk'[id] = disk[id]
<1>1. WriteOK(write)
  BY TornOK
<1>2. write.to # "block"
  BY DEF TornWrites, EarlyPart, NoWrite, MetaWrite
<1>3. disk'[id] = disk[id]
  BY <1>1, <1>2, ApplyKeeps
<1>4. pending'.to # "block"
  BY DEF NoWrite
<1> QED BY <1>3, <1>4 DEF BlockAt

\* A step that leaves the file its metadata, and its blocks.
LEMMA FileStaysTied ==
  ASSUME IInv, FileTied, header' = header,
         \A id \in BlockIds : id < FileCount => BlockAt(id)' = BlockAt(id)
  PROVE  FileTied'
<1>1. HeaderOK(header, FileCount) /\ FileCount \in Nat
  BY InvFacts
<1>2. \A i \in 4..Len(header) : header[i] = 0 \/ header[i] < FileCount
  BY <1>1 DEF HeaderOK, BodyBelow
<1>3. \A i \in 4..Len(header) : header[i] \in BlockIds
  <2>1. header \in Seq(BlockIds)
    BY <1>1 DEF HeaderOK
  <2> QED BY <2>1, SMT
<1>4. /\ Decode(header) \in MetaType
      /\ \A id \in IdsOf(Decode(header)) : id < FileCount
  <2> HIDE DEF FileCount
  <2> QED BY <1>1, DecodeLemma
<1>5. \A id \in ToSet(Decode(header).data) : id \in BlockIds /\ id < FileCount
  BY <1>4, IdsAreBlockIds DEF IdsOf
<1>6. \A i \in 4..Len(header) : BlockAt(header[i])' = Hole => header[i] = 0
  BY <1>2, <1>3 DEF FileTied, BlockAt
<1>7. \A id \in ToSet(Decode(header).data) : HoldsData(id)'
  BY <1>5 DEF FileTied, HoldsData
<1> QED BY <1>6, <1>7 DEF FileTied, BlockAt

\* The early part of an image over an older one: the data ids of the new one,
\* and words that either of them had.
LEMMA PartOverlay ==
  ASSUME NEW m \in MetaType, Count(m) <= BlockNull, NEW old \in Seq(BlockIds),
         NEW n \in 3 + Len(m.data)..Len(Encode(m)), NEW h,
         h = Overlay(SubSeq(Encode(m), 1, n), old)
  PROVE  /\ Decode(h).data = m.data
         /\ \A i \in 4..Len(h) : h[i] \in IdsOf(m) \/ (i \in 4..Len(old) /\ h[i] = old[i])
<1> DEFINE e == Encode(m)
           new == SubSeq(e, 1, n)
           d == Len(m.data)
           b == Len(m.btree)
<1>1. /\ e \in Seq(BlockIds) /\ Len(e) = 3 + d + b /\ e[2] = d
      /\ \A i \in 1..d : e[3 + i] = m.data[i]
      /\ \A i \in 1..b : e[3 + d + i] = m.btree[i]
      /\ d \in Nat /\ b \in Nat
      /\ m.data \in Seq(BlockIds) /\ m.btree \in Seq(BlockIds)
  BY ImageWords, MetaFacts
<1>2. n \in 3 + d..Len(e)
  OBVIOUS
<1>3. h = Overlay(new, old)
  OBVIOUS
<1>4. \A i \in 1..d : m.data[i] \in IdsOf(m)
  BY MetaFacts DEF IdsOf, ToSet
<1>5. \A i \in 1..b : m.btree[i] \in IdsOf(m)
  BY MetaFacts DEF IdsOf, ToSet
<1>6. m.data = [i \in 1..d |-> m.data[i]]
  <2>1. \A s \in Seq(BlockIds) : s = [i \in 1..Len(s) |-> s[i]]
    BY SMT
  <2> QED BY <1>1, <2>1
<1> HIDE DEF e, d, b
<1>7. /\ new \in Seq(BlockIds) /\ Len(new) = n /\ n \in Nat
      /\ \A i \in 1..n : new[i] = e[i]
  BY <1>1, <1>2, SMT
<1> HIDE DEF new
<1>8. /\ h \in Seq(BlockIds)
      /\ Len(h) = IF Len(old) > n THEN Len(old) ELSE n
      /\ \A i \in 1..Len(h) : h[i] = IF i <= n THEN new[i] ELSE old[i]
  BY <1>3, <1>7, OverlayLemma
<1>9. Len(old) \in Nat /\ Len(h) \in Nat
  BY <1>8
<1>10. Word(h, 2) = d /\ \A i \in 1..d : Word(h, 3 + i) = m.data[i]
  <2>1. Word(h, 2) = d
    BY <1>1, <1>2, <1>7, <1>8, <1>9, SMT DEF Word
  <2>2. ASSUME NEW i \in 1..d PROVE Word(h, 3 + i) = m.data[i]
    <3>1. 3 + i \in 1..n /\ 3 + i \in 1..Len(h) /\ 3 + i <= Len(h)
      BY <1>1, <1>2, <1>7, <1>8, <1>9, SMT
    <3>2. h[3 + i] = e[3 + i]
      BY <1>7, <1>8, <3>1
    <3> QED BY <1>1, <3>1, <3>2 DEF Word
  <2> QED BY <2>1, <2>2
<1>11. Decode(h).data = [i \in 1..d |-> m.data[i]]
  BY <1>10 DEF Decode
<1>12. ASSUME NEW i \in 4..Len(h)
       PROVE  h[i] \in IdsOf(m) \/ (i \in 4..Len(old) /\ h[i] = old[i])
  <2>1. CASE i <= n
    <3>1. h[i] = e[i] /\ i \in 4..3 + d + b
      BY <1>1, <1>2, <1>7, <1>8, <1>9, <2>1, SMT
    <3>2. CASE i <= 3 + d
      <4>1. i - 3 \in 1..d /\ i = 3 + (i - 3)
        BY <1>1, <3>1, <3>2, SMT
      <4>2. h[i] = m.data[i - 3]
        BY <1>1, <3>1, <4>1
      <4> QED BY <1>4, <4>1, <4>2
    <3>3. CASE ~(i <= 3 + d)
      <4>1. i - 3 - d \in 1..b /\ i = 3 + d + (i - 3 - d)
        BY <1>1, <3>1, <3>3, SMT
      <4>2. h[i] = m.btree[i - 3 - d]
        BY <1>1, <3>1, <4>1
      <4> QED BY <1>5, <4>1, <4>2
    <3> QED BY <3>2, <3>3
  <2>2. CASE ~(i <= n)
    BY <1>7, <1>8, <1>9, <2>2, SMT
  <2> QED BY <2>1, <2>2
<1> QED BY <1>6, <1>11, <1>12

\* A step in which an image reaches the file, whole or in part: the file has
\* the writer's data ids, and its other words are some that it had or gets.
LEMMA FileGetsTied ==
  ASSUME IInv, MetaFits, TiedInv, open, pending.to = "meta",
         NEW write \in {NoWrite, pending} \cup TornWrites,
         Apply(write), pending' \in {NoWrite, pending}
  PROVE  FileTied'
<1>1. \A id \in BlockIds : BlockAt(id)' = BlockAt(id) /\ disk'[id] = disk[id]
  BY ImageSettles
<1>2. CASE write.to # "meta"
  <2>1. header' = header
    BY <1>2 DEF Apply, HeaderAfter
  <2> QED BY <1>1, <2>1, FileStaysTied DEF TiedInv
<1>3. CASE write.to = "meta"
  <2>1. /\ meta \in MetaType /\ Count(meta) <= BlockNull
        /\ header \in Seq(BlockIds)
    BY InvFacts DEF HeaderOK
  <2>2. pending.words = Encode(meta)
    BY DEF IInv, StoreInv, PendingIsRecent
  <2> DEFINE e == Encode(meta)
             d == Len(meta.data)
             b == Len(meta.btree)
  <2>3. /\ e \in Seq(BlockIds) /\ Len(e) = 3 + d + b /\ e[2] = d
        /\ d \in Nat /\ b \in Nat
    BY <2>1, ImageWords, MetaFacts
  <2>4. \E n \in 3 + d..Len(e) : write.words = SubSeq(e, 1, n)
    <3>1. write.words = e \/ write.words = SubSeq(e, 1, 3 + e[2])
      BY <1>3, <2>2 DEF TornWrites, EarlyPart, MetaWrite, NoWrite
    <3> HIDE DEF e, d, b
    <3>2. /\ Len(e) \in 3 + d..Len(e) /\ e = SubSeq(e, 1, Len(e))
          /\ 3 + d \in 3 + d..Len(e)
      BY <2>3, SMT
    <3> QED BY <2>3, <3>1, <3>2
  <2>5. PICK n \in 3 + d..Len(e) : write.words = SubSeq(e, 1, n)
    BY <2>4
  <2>6. header' = Overlay(SubSeq(e, 1, n), header)
    BY <1>3, <2>5 DEF Apply, HeaderAfter
  <2>7. /\ Decode(header').data = meta.data
        /\ \A i \in 4..Len(header') :
             header'[i] \in IdsOf(meta) \/ (i \in 4..Len(header) /\ header'[i] = header[i])
    <3> DEFINE h == header'
               was == header
    <3>1. /\ h = Overlay(SubSeq(Encode(meta), 1, n), was)
          /\ n \in 3 + Len(meta.data)..Len(Encode(meta))
          /\ was \in Seq(BlockIds) /\ meta \in MetaType /\ Count(meta) <= BlockNull
      BY <2>1, <2>5, <2>6
    <3> HIDE DEF h, was
    <3>2. /\ Decode(h).data = meta.data
          /\ \A i \in 4..Len(h) :
               h[i] \in IdsOf(meta) \/ (i \in 4..Len(was) /\ h[i] = was[i])
      BY <3>1, PartOverlay
    <3> QED BY <3>2 DEF h, was
  <2>8. \A i \in 4..Len(header) : header[i] \in BlockIds
    BY <2>1, SMT
  <2>9. \A id \in ToSet(meta.data) : id \in BlockIds
    BY <2>1, IdsAreBlockIds DEF IdsOf
  <2>10. \A id \in BlockIds : BlockAt(id)' = BlockAt(id)
    BY <1>1
  <2>11. \A i \in 4..Len(header') : header'[i] \in BlockIds
    BY <2>1, <2>7, <2>8, IdsAreBlockIds
  <2>12. \A i \in 4..Len(header') : BlockAt(header'[i]) = Hole => header'[i] = 0
    BY <2>7 DEF TiedInv, Tied, FileTied
  <2>13. \A i \in 4..Len(header') : BlockAt(header[i])' = BlockAt(header'[i])
    BY <2>10, <2>11 DEF BlockAt
  <2>14. \A i \in 4..Len(header') : BlockAt(header[i])' = Hole => header'[i] = 0
    BY <2>12, <2>13
  <2>15. \A id \in ToSet(Decode(header').data) : HoldsData(id)'
    BY <2>7, <2>9, <2>10 DEF HoldsData, TiedInv, Tied
  <2>16. Ascending(Decode(header').data)
    BY <2>7 DEF TiedInv
  <2> QED BY <2>14, <2>15, <2>16 DEF FileTied
<1> QED BY <1>2, <1>3

\* What reaches the file takes it out of the state without a write.
LEMMA WrittenStep ==
  ASSUME IInv, Written, NEW write, Apply(write)
  PROVE  status' # "written" => \A id \in BlockIds : disk'[id] = Hole
  BY DEF Apply, DiskAfter, Written

\* A seek and then no block: every position keeps the block it was to hold.
LEMMA SeekTied ==
  ASSUME IInv, TiedInv, Fetch \/ PersistWrite PROVE TiedInv'
<1>1. /\ Ready /\ Apply(pending) /\ pending'.to # "block"
      /\ open' = open /\ meta' = meta
  BY DEF Fetch, PersistWrite, NoWrite, MetaWrite
<1>2. \A id \in BlockIds : BlockAt(id)' = BlockAt(id)
  BY <1>1, SeekSettles DEF BlockAt
<1>3. header' = header /\ FileCount' = FileCount
  BY <1>1, SeekSettles, BlocksAssumption DEF FileCount, Apply, HeaderAfter, Ready
<1>4. FileTied'
  BY <1>2, <1>3, FileStaysTied DEF TiedInv
<1>5. IdsOf(meta) \subseteq BlockIds
  BY InvFacts, IdsAreBlockIds
<1>6. Tied(meta)'
  BY <1>1, <1>2, <1>5 DEF TiedInv, Tied, HoldsData, IdsOf
<1>7. NoneIsHalf'
  BY <1>1, <1>2, <1>3 DEF TiedInv, NoneIsHalf
<1>8. Written'
  BY <1>1, WrittenStep DEF TiedInv, Written
<1> QED BY <1>1, <1>4, <1>6, <1>7, <1>8 DEF TiedInv

\* A seek and then a block of the client: the other positions keep theirs.
LEMMA BlockTied ==
  ASSUME IInv, TiedInv, Ready, Apply(pending), NEW new \in BlockIds, base <= new,
         NEW block \in Contents, pending' = BlockWrite(new, block), open' = open
  PROVE  /\ FileTied' /\ Written' /\ FileCount' = FileCount
         /\ \A id \in BlockIds : BlockAt(id)' = IF id = new THEN block ELSE BlockAt(id)
<1>1. \A id \in BlockIds : BlockAt(id)' = IF id = new THEN block ELSE BlockAt(id)
  BY SeekSettles DEF BlockAt, BlockWrite
<1>2. header' = header /\ FileCount' = FileCount
  BY DEF FileCount, Apply, HeaderAfter, Ready
<1>3. \A id \in BlockIds : id < FileCount => id # new
  <2>1. FileCount \in Nat /\ base \in Nat /\ FileCount <= base
    BY InvFacts DEF Ready, IInv, StoreInv, BaseBetweenCounts
  <2> HIDE DEF FileCount
  <2> QED BY <2>1, BlocksAssumption, SMT DEF BlockIds
<1>4. FileTied'
  BY <1>1, <1>2, <1>3, FileStaysTied DEF TiedInv
<1>5. Written'
  BY WrittenStep DEF TiedInv, Written, BlockWrite
<1> QED BY <1>1, <1>2, <1>4, <1>5

\* Inserting: the new id has the new block, which is of the kind it is listed
\* as (Store::insert registers the id and DiskStore writes the block).
LEMMA InsertTied ==
  ASSUME IInv, TiedInv, NEW block \in Contents, Insert(block) PROVE TiedInv'
<1> DEFINE c == Count(meta)
<1>1. /\ meta \in MetaType /\ c \in Nat /\ c < MaxBlocks /\ base <= c
      /\ \A id \in IdsOf(meta) : id < c
      /\ Ready /\ open' = open
  BY InvFacts DEF Insert, Ready, IInv, StoreInv, BaseBetweenCounts
<1>2. c < BlockNull /\ c \in BlockIds
  <2>1. c \in Nat /\ c < MaxBlocks
    BY <1>1
  <2> HIDE DEF c
  <2> QED BY <2>1, BlocksAssumption, DiskStoreAssumption, SMT DEF BlockIds
<1>3. NewId(meta) = c /\ Count(meta') = c + 1
  BY <1>1, <1>2, RegisterLemma DEF Insert
<1>4. /\ FileTied' /\ Written' /\ FileCount' = FileCount
      /\ \A id \in BlockIds : BlockAt(id)' = IF id = c THEN block ELSE BlockAt(id)
  BY <1>1, <1>2, <1>3, BlockTied DEF Insert
<1>5. NoneIsHalf'
  <2> DEFINE f == FileCount
             cc == Count(meta')
  <2>1. \A id \in BlockIds : id < f \/ (open /\ id < c) => BlockAt(id) # Garbage
    BY DEF TiedInv, NoneIsHalf
  <2>2. ASSUME NEW id \in BlockIds, id < f \/ (open /\ id < cc)
        PROVE  BlockAt(id)' # Garbage
    <3>1. CASE id = c
      BY <1>4, <3>1, ContentsFacts
    <3>2. CASE id # c
      <4>1. cc = c + 1 /\ c \in Nat
        BY <1>1, <1>3
      <4> HIDE DEF f, c, cc
      <4>2. id < f \/ (open /\ id < c)
        BY <2>2, <3>2, <4>1, BlocksAssumption, SMT DEF BlockIds
      <4> QED BY <1>4, <2>1, <3>2, <4>2
    <3> QED BY <3>1, <3>2
  <2> QED BY <1>1, <1>4, <2>2 DEF NoneIsHalf
<1>6. \A id \in IdsOf(meta) : id \in BlockIds /\ id # c
  <2>1. IdsOf(meta) \subseteq BlockIds
    BY <1>1, IdsAreBlockIds
  <2>2. \A id \in IdsOf(meta) : id < c
    BY <1>1
  <2> HIDE DEF c
  <2> QED BY <1>1, <2>1, <2>2, BlocksAssumption, SMT DEF BlockIds
<1>7. block # Hole /\ block.kind \in {"data", "btree"}
  BY ContentsFacts
<1>8. \A id \in IdsOf(meta) : BlockAt(id)' = BlockAt(id)
  BY <1>4, <1>6
<1>9. \A id \in {c} : BlockAt(id)' = block
  BY <1>2, <1>4
<1>10. /\ \A id \in IdsOf(meta) : BlockAt(id) = Hole => id = 0
       /\ \A id \in ToSet(meta.data) : HoldsData(id) /\ id \in IdsOf(meta)
  BY DEF TiedInv, Tied, IdsOf
<1>11. /\ Tied(meta)' /\ Ascending(meta.data)'
  <2>0. meta.data \in Seq(BlockIds) /\ meta.btree \in Seq(BlockIds) /\ Ascending(meta.data)
    BY <1>1, MetaFacts DEF TiedInv
  <2>1. CASE block.kind = "data"
    <3>1. meta'.data = Append(meta.data, c) /\ meta'.btree = meta.btree
      BY <1>1, <1>3, <2>1 DEF Insert, Register, MetaType
    <3>2. \A y \in ToSet(meta.data) : y < c
      BY <1>1 DEF IdsOf
    <3> HIDE DEF c
    <3>3. Ascending(meta'.data) /\ ToSet(meta'.data) = ToSet(meta.data) \cup {c}
      BY <1>2, <2>0, <3>1, <3>2, AppendAscends
    <3>4. IdsOf(meta') = IdsOf(meta) \cup {c}
      BY <3>1, <3>3 DEF IdsOf
    <3>5. \A id \in IdsOf(meta') : BlockAt(id)' = Hole => id = 0
      BY <1>7, <1>8, <1>9, <1>10, <3>4
    <3>6. \A id \in ToSet(meta'.data) : HoldsData(id)'
      BY <1>8, <1>9, <1>10, <2>1, <3>3 DEF HoldsData
    <3> QED BY <3>3, <3>5, <3>6 DEF Tied
  <2>2. CASE block.kind # "data"
    <3>1. meta'.btree = Append(meta.btree, c) /\ meta'.data = meta.data
      BY <1>1, <1>3, <2>2 DEF Insert, Register, MetaType
    <3> HIDE DEF c
    <3>2. ToSet(meta'.btree) = ToSet(meta.btree) \cup {c}
      BY <1>2, <2>0, <3>1, AppendLemma
    <3>3. IdsOf(meta') = IdsOf(meta) \cup {c}
      BY <3>1, <3>2 DEF IdsOf
    <3>4. \A id \in IdsOf(meta') : BlockAt(id)' = Hole => id = 0
      BY <1>7, <1>8, <1>9, <1>10, <3>3
    <3>5. \A id \in ToSet(meta'.data) : HoldsData(id)'
      BY <1>8, <1>10, <3>1 DEF HoldsData
    <3> QED BY <2>0, <3>1, <3>4, <3>5 DEF Tied
  <2> QED BY <2>1, <2>2
<1> QED BY <1>4, <1>5, <1>11 DEF TiedInv

\* Updating: Metadata::lookup finds a data id as one, in whatever metadata, as
\* their data ids ascend; so a data id keeps to data.
LEMMA UpdateTied ==
  ASSUME IInv, TiedInv, NEW new \in base..Count(meta) - 1, NEW block \in Contents,
         KindOf(meta, new) = block.kind, Ready, Update(new, block)
  PROVE  TiedInv'
<1> DEFINE c == Count(meta)
<1>1. meta \in MetaType /\ c \in Nat /\ c <= BlockNull /\ base \in Nat
  BY InvFacts
<1>2. new \in BlockIds /\ base <= new
  <2>1. new \in base..c - 1
    OBVIOUS
  <2> HIDE DEF c
  <2> QED BY <1>1, <2>1, BlocksAssumption, SMT DEF BlockIds
<1>3. /\ FileTied' /\ Written' /\ FileCount' = FileCount
      /\ \A id \in BlockIds : BlockAt(id)' = IF id = new THEN block ELSE BlockAt(id)
  BY <1>2, BlockTied DEF Update
<1>4. meta' = meta /\ open' = open
  BY DEF Update
<1>5. IdsOf(meta) \subseteq BlockIds
  BY <1>1, IdsAreBlockIds
<1>6. block # Hole /\ block # Garbage
  BY ContentsFacts
<1>7. new \in ToSet(meta.data) => block.kind = "data"
  <2>1. BlockIds \subseteq Int
    BY BlocksAssumption, SMT DEF BlockIds
  <2>2. meta.data \in Seq(Int) /\ new \in Int
    BY <1>1, <1>2, <2>1, MetaFacts, SeqMonotonic, Zenon
  <2>3. AscendsFrom(meta.data, new)
    BY DEF TiedInv, Ascending, AscendsFrom
  <2>4. new \in ToSet(meta.data) => BinarySearch(meta.data, new)
    BY <2>2, <2>3, BinarySearchIsRight, Zenon
  <2> QED BY <2>4, Zenon DEF KindOf
<1>8. Tied(meta)'
  <2>1. \A id \in IdsOf(meta) : BlockAt(id)' = Hole => id = 0
    BY <1>3, <1>5, <1>6 DEF TiedInv, Tied
  <2>2. \A id \in ToSet(meta.data) : HoldsData(id)'
    BY <1>3, <1>5, <1>7 DEF TiedInv, Tied, HoldsData, IdsOf
  <2> QED BY <1>4, <2>1, <2>2 DEF Tied, IdsOf
<1>9. NoneIsHalf'
  BY <1>3, <1>4, <1>6 DEF TiedInv, NoneIsHalf
<1> QED BY <1>3, <1>4, <1>8, <1>9 DEF TiedInv

\* The root is no block.
LEMMA SetRootTied ==
  ASSUME IInv, TiedInv, NEW root \in BlockIds, SetRoot(root) PROVE TiedInv'
<1>1. /\ meta'.data = meta.data /\ meta'.btree = meta.btree
      /\ UNCHANGED <<status, header, disk, pending, open>>
  BY InvFacts DEF SetRoot, MetaType
<1>2. Count(meta') = Count(meta) /\ IdsOf(meta') = IdsOf(meta) /\ FileCount' = FileCount
  BY <1>1 DEF Count, IdsOf, FileCount
<1>3. \A id : BlockAt(id)' = BlockAt(id) /\ HoldsData(id)' = HoldsData(id)
  BY <1>1 DEF BlockAt, HoldsData
<1>4. NoneIsHalf'
  BY <1>1, <1>2, <1>3 DEF TiedInv, NoneIsHalf
<1>5. FileTied' /\ Written'
  BY <1>1, <1>3, FileStaysTied DEF TiedInv, Written
<1>6. Tied(meta)' /\ Ascending(meta.data)'
  BY <1>1, <1>2, <1>3 DEF TiedInv, Tied
<1> QED BY <1>4, <1>5, <1>6 DEF TiedInv

\* The ids that the metadata in the file lists are words of it, or zeros.
LEMMA FileIdsTied ==
  ASSUME FileTied, NEW n, HeaderOK(header, n)
  PROVE  \A id \in IdsOf(Decode(header)) : BlockAt(id) = Hole => id = 0
<1> DEFINE d == Word(header, 2)
           b == Word(header, 3)
           m == Decode(header)
<1>1. header \in Seq(BlockIds) /\ d \in Nat /\ b \in Nat
  BY BlocksAssumption, SMT DEF HeaderOK, Word, BlockIds
<1>2. /\ m.data = [i \in 1..d |-> Word(header, 3 + i)]
      /\ m.btree = [i \in 1..b |-> Word(header, 3 + d + i)]
  BY DEF Decode
<1>3. \A i \in 4..Len(header) : BlockAt(header[i]) = Hole => header[i] = 0
  BY DEF FileTied
<1> HIDE DEF d, b, m
<1>4. ASSUME NEW j \in Nat, j >= 4, BlockAt(Word(header, j)) = Hole
      PROVE  Word(header, j) = 0
  <2>1. CASE j <= Len(header)
    <3>1. j \in 4..Len(header)
      BY <1>1, <1>4, <2>1, SMT
    <3> QED BY <1>3, <1>4, <2>1, <3>1 DEF Word
  <2> QED BY <2>1 DEF Word
<1>5. \A i \in 1..d : 3 + i \in Nat /\ 3 + i >= 4
  BY <1>1, SMT
<1>6. \A i \in 1..b : 3 + d + i \in Nat /\ 3 + d + i >= 4
  BY <1>1, SMT
<1>7. \A id \in IdsOf(m) : BlockAt(id) = Hole => id = 0
  BY <1>2, <1>4, <1>5, <1>6 DEF IdsOf, ToSet
<1> QED BY <1>7 DEF m

\* Opening: the ids found in the file have blocks; uninitialised sizes make
\* lists of zeros, and then no block has been written.
LEMMA OpenTied == ASSUME IInv, TiedInv, Open PROVE TiedInv'
<1>1. /\ header' = header /\ disk' = disk /\ pending = NoWrite /\ pending' = NoWrite
      /\ status' # "written" => status # "written"
      /\ FileCount' = FileCount
  BY InvFacts DEF Open, FileCount
<1>2. \A id : BlockAt(id)' = disk[id] /\ BlockAt(id) = disk[id]
  BY <1>1 DEF BlockAt, NoWrite
<1>3. \A id : BlockAt(id)' = BlockAt(id) /\ HoldsData(id)' = HoldsData(id)
  BY <1>2 DEF HoldsData
<1>4. FileTied'
  BY <1>1, <1>3, FileStaysTied DEF TiedInv
<1>5. Written'
  BY <1>1 DEF TiedInv, Written, NoWrite
<1>6. CASE status = "written"
  <2>1. meta' = Decode(header)
    BY <1>6 DEF Open, MetaOnOpen
  <2>2. HeaderOK(header, FileCount) /\ FileCount \in Nat
    BY InvFacts
  <2>3. Count(meta') = FileCount
    <3> HIDE DEF FileCount, Count
    <3> QED BY <2>1, <2>2, DecodeLemma
  <2>4. NoneIsHalf'
    BY <1>1, <1>3, <2>3 DEF TiedInv, NoneIsHalf
  <2>5. \A id \in IdsOf(meta') : BlockAt(id) = Hole => id = 0
    BY <2>1, <2>2, FileIdsTied DEF TiedInv
  <2>6. Tied(meta)' /\ Ascending(meta.data)'
    BY <1>3, <2>1, <2>5 DEF TiedInv, FileTied, Tied
  <2> QED BY <1>4, <1>5, <2>4, <2>6 DEF TiedInv
<1>7. CASE status # "written"
  <2>1. \A id \in BlockIds : BlockAt(id)' = Hole
    BY <1>2, <1>7 DEF TiedInv, Written
  <2>2. NoneIsHalf'
    BY <2>1, ContentsAssumption DEF NoneIsHalf
  <2>3. meta' = FreshMeta \/ \E n, m \in 0..StaleMax : meta' = ZeroMeta(n, m)
    BY <1>7 DEF Open, MetaOnOpen, IInv, StoreTypeOK
  <2>4. meta' \in MetaType
    BY <2>3, FreshFacts
  <2>5. \A id \in IdsOf(meta') : id = 0 /\ id \in BlockIds
    <3>1. CASE meta' = FreshMeta
      BY <3>1, FreshFacts
    <3>2. ASSUME NEW n \in 0..StaleMax, NEW m \in 0..StaleMax, meta' = ZeroMeta(n, m)
          PROVE  \A id \in IdsOf(meta') : id = 0
      BY <3>2 DEF ZeroMeta, IdsOf, ToSet
    <3> QED BY <2>3, <2>4, <3>1, <3>2, IdsAreBlockIds
  <2>6. Tied(meta)'
    BY <2>1, <2>5 DEF Tied, HoldsData, IdsOf
  <2>7. Ascending(meta'.data)
    <3>1. Len(meta'.data) \in Nat /\ DOMAIN meta'.data = 1..Len(meta'.data)
      BY <2>4, MetaFacts
    <3>2. \A i \in 1..Len(meta'.data) : meta'.data[i] = 0
      BY <2>5, <3>1 DEF IdsOf, ToSet
    <3> QED BY <3>2 DEF Ascending
  <2> QED BY <1>4, <1>5, <2>2, <2>6, <2>7 DEF TiedInv
<1> QED BY <1>6, <1>7

\* While metadata is written no block is: the file gets the writer's count of
\* ids when the blocks of all of them are there.
LEMMA ImageTied == ASSUME IInv, MetaFits, TiedInv, PersistPart \/ PersistFlush PROVE TiedInv'
<1>1. /\ open /\ pending.to = "meta" /\ pending' \in {NoWrite, pending}
      /\ open' = open /\ meta' = meta
  BY DEF PersistPart, PersistFlush
<1>2. PICK write \in {NoWrite, pending} \cup TornWrites : Apply(write) /\ write.to = "meta"
  <2>1. CASE PersistPart
    <3>1. EarlyPart \in {NoWrite, pending} \cup TornWrites /\ EarlyPart.to = "meta"
      BY <2>1 DEF PersistPart, TornWrites, EarlyPart, MetaWrite
    <3> QED BY <2>1, <3>1 DEF PersistPart
  <2>2. CASE PersistFlush
    BY <1>1, <2>2 DEF PersistFlush
  <2> QED BY <2>1, <2>2
<1>3. FileTied'
  BY <1>1, <1>2, FileGetsTied
<1>4. \A id \in BlockIds : BlockAt(id)' = BlockAt(id)
  BY <1>1, <1>2, ImageSettles
<1>5. FileCount' = Count(meta)
  BY <1>1, <1>2, TornOK, ApplyLemma
<1>6. NoneIsHalf'
  <2>1. ASSUME NEW id \in BlockIds, id < Count(meta) PROVE BlockAt(id)' # Garbage
    BY <1>1, <1>4, <2>1 DEF TiedInv, NoneIsHalf
  <2> QED BY <1>1, <1>5, <2>1 DEF NoneIsHalf
<1>7. IdsOf(meta) \subseteq BlockIds
  BY InvFacts, IdsAreBlockIds
<1>8. Tied(meta)' /\ Ascending(meta.data)'
  BY <1>1, <1>4, <1>7 DEF TiedInv, Tied, HoldsData, IdsOf
<1>9. Written'
  BY <1>1, <1>2, WrittenStep DEF TiedInv, Written, NoWrite
<1> QED BY <1>3, <1>6, <1>8, <1>9 DEF TiedInv

\* The end of a process: a block that is half written is none that the file
\* lists.
LEMMA EndTied == ASSUME IInv, MetaFits, TiedInv, Close \/ Crash PROVE TiedInv'
<1>1. /\ open /\ open' = FALSE /\ pending' = NoWrite /\ meta' = FreshMeta
  BY DEF Close, Crash, Forget, Ready
<1>2. PICK write \in {NoWrite, pending} \cup TornWrites : Apply(write)
  BY DEF Close, Crash
<1>3. WriteOK(write)
  BY TornOK
<1>4. Written'
  BY <1>1, <1>2, WrittenStep DEF TiedInv, Written, NoWrite
<1>5. Tied(meta)' /\ Ascending(meta.data)'
  <2>1. IdsOf(FreshMeta) = {} /\ FreshMeta.data = <<>>
    BY FreshFacts DEF FreshMeta
  <2> QED BY <1>1, <2>1, SMT DEF Tied, Ascending, IdsOf
<1>6. CASE pending.to = "meta"
  <2>1. FileTied'
    BY <1>1, <1>2, <1>6, FileGetsTied
  <2>2. \A id \in BlockIds : BlockAt(id)' = BlockAt(id)
    BY <1>1, <1>2, <1>6, ImageSettles
  <2>3. FileCount' = FileCount \/ FileCount' = Count(meta)
    BY <1>1, <1>2, <1>3, ApplyLemma
  <2>4. NoneIsHalf'
    BY <1>1, <2>2, <2>3 DEF TiedInv, NoneIsHalf
  <2> QED BY <1>4, <1>5, <2>1, <2>4 DEF TiedInv
<1>7. CASE pending.to # "meta"
  <2>1. write.to # "meta"
    BY <1>7 DEF TornWrites, NoWrite, BlockWrite
  <2>2. header' = header /\ FileCount' = FileCount
    BY <1>2, <2>1 DEF Apply, HeaderAfter, FileCount
  <2>3. ASSUME NEW id \in BlockIds, id < FileCount PROVE BlockAt(id)' = BlockAt(id)
    <3>1. FileCount \in Nat /\ base \in Nat /\ FileCount <= base
      BY <1>1, InvFacts DEF IInv, StoreInv, BaseBetweenCounts
    <3>2. ~(base <= id)
      <4> HIDE DEF FileCount
      <4> QED BY <2>3, <3>1, BlocksAssumption, SMT DEF BlockIds
    <3>3. disk'[id] = disk[id]
      BY <1>2, <1>3, <3>2, ApplyKeeps
    <3>4. BlockAt(id) = disk[id]
      BY <2>3, SettledBelow
    <3> QED BY <1>1, <3>3, <3>4 DEF BlockAt, NoWrite
  <2>4. FileTied'
    BY <2>2, <2>3, FileStaysTied DEF TiedInv
  <2>5. NoneIsHalf'
    BY <1>1, <2>2, <2>3 DEF TiedInv, NoneIsHalf
  <2> QED BY <1>4, <1>5, <2>4, <2>5 DEF TiedInv
<1> QED BY <1>6, <1>7

\* A file without a write.
LEMMA TiedInit == StoreInit => TiedInv
<1> SUFFICES ASSUME StoreInit PROVE TiedInv
  OBVIOUS
<1>1. /\ meta = FreshMeta /\ header = <<>> /\ open = FALSE /\ pending = NoWrite
      /\ status = "absent" /\ \A id \in BlockIds : disk[id] = Hole
  BY DEF StoreInit
<1>2. \A id \in BlockIds : BlockAt(id) = Hole
  BY <1>1 DEF BlockAt, NoWrite
<1>3. IdsOf(FreshMeta) = {} /\ FreshMeta.data = <<>>
  BY FreshFacts DEF FreshMeta
<1>4. Decode(header).data = <<>>
  <2>1. Word(header, 2) = 0 /\ 1..0 = {}
    BY <1>1, SMT DEF Word
  <2>2. Decode(header).data = [i \in {} |-> Word(header, 3 + i)]
    BY <2>1 DEF Decode
  <2> QED BY <2>2, SMT
<1>5. ToSet(<<>>) = {} /\ Ascending(<<>>) /\ 4..Len(<<>>) = {}
  BY SMT DEF ToSet, Ascending
<1>6. FileTied
  BY <1>1, <1>4, <1>5 DEF FileTied
<1>7. Tied(meta) /\ Ascending(meta.data)
  BY <1>1, <1>3, <1>5 DEF Tied
<1>8. NoneIsHalf
  BY <1>2, ContentsAssumption DEF NoneIsHalf
<1>9. Written
  BY <1>1 DEF Written, NoWrite
<1> QED BY <1>6, <1>7, <1>8, <1>9 DEF TiedInv

\* Every step keeps it.
LEMMA TiedNext ==
  ASSUME IInv, MetaFits, TiedInv, [StoreNext]_storeVars PROVE TiedInv'
<1>1. CASE Open
  BY <1>1, OpenTied
<1>2. CASE \E block \in Contents : Insert(block)
  BY <1>2, InsertTied
<1>3. CASE UpdateOwn
  BY <1>3, UpdateTied DEF UpdateOwn, Update
<1>4. CASE \E id \in IdsOf(meta) : SetRoot(id)
  BY <1>4, SetRootTied, InvFacts, IdsAreBlockIds
<1>5. CASE Fetch \/ PersistWrite
  BY <1>5, SeekTied
<1>6. CASE PersistPart \/ PersistFlush
  BY <1>6, ImageTied
<1>7. CASE Close \/ Crash
  BY <1>7, EndTied
<1>8. CASE UNCHANGED storeVars
  <2>1. UNCHANGED <<status, header, disk, pending, open, meta, base>>
    BY <1>8 DEF storeVars
  <2>2. /\ \A id : BlockAt(id)' = BlockAt(id) /\ HoldsData(id)' = HoldsData(id)
        /\ FileCount' = FileCount
    BY <2>1 DEF BlockAt, HoldsData, FileCount
  <2>3. FileTied' /\ Written' /\ NoneIsHalf'
    BY <2>1, <2>2, FileStaysTied DEF TiedInv, Written, NoneIsHalf
  <2> QED BY <2>1, <2>2, <2>3 DEF TiedInv, Tied
<1> QED BY <1>1, <1>2, <1>3, <1>4, <1>5, <1>6, <1>7, <1>8 DEF StoreNext

\* Behind the ids of metadata m there are whole blocks, data behind data ids.
Whole(m) ==
  /\ \A id \in IdsOf(m) : disk[id] # Garbage /\ (disk[id] = Hole => id = 0)
  /\ \A id \in ToSet(m.data) : disk[id].kind = "data" \/ disk[id] = Hole

\* So it is for whoever reads the metadata in the file, of one persist or mixed.
LEMMA FileIsWhole == ASSUME IInv, TiedInv PROVE Whole(Decode(header))
<1> DEFINE m == Decode(header)
           d == Word(header, 2)
           b == Word(header, 3)
<1>1. HeaderOK(header, FileCount) /\ FileCount \in Nat
  BY InvFacts
<1>2. m \in MetaType /\ \A id \in IdsOf(m) : id < FileCount
  <2> HIDE DEF FileCount
  <2> QED BY <1>1, DecodeLemma
<1>3. \A id \in IdsOf(m) : id \in BlockIds /\ BlockAt(id) = disk[id]
  BY <1>2, IdsAreBlockIds, SettledBelow
<1>4. \A id \in IdsOf(m) : BlockAt(id) # Garbage
  BY <1>2, <1>3 DEF TiedInv, NoneIsHalf
<1>5. \A id \in IdsOf(m) : BlockAt(id) = Hole => id = 0
  BY <1>1, FileIdsTied DEF TiedInv
<1>6. \A id \in ToSet(m.data) : HoldsData(id) /\ id \in IdsOf(m)
  BY DEF TiedInv, FileTied, IdsOf
<1> HIDE DEF m
<1> QED BY <1>3, <1>4, <1>5, <1>6 DEF Whole, HoldsData, m

\* A reader that has read them stays so.
LEMMA WholeReader ==
  ASSUME MetaFits, ReaderInv, TiedInv, Whole(reader), [SharedNext]_sharedVars
  PROVE  Whole(reader)'
<1>1. CASE reader' = reader
  <2>1. \A id \in IdsOf(reader) : disk'[id] = disk[id]
    BY SnapshotStep
  <2> QED BY <1>1, <2>1 DEF Whole, IdsOf
<1>2. CASE ReaderOpens /\ UNCHANGED storeVars
  <2>1. Whole(Decode(header)) /\ reader' = Decode(header) /\ disk' = disk
    BY <1>2, FileIsWhole DEF ReaderInv, ReaderOpens, storeVars
  <2> QED BY <2>1 DEF Whole
<1>3. CASE ReaderCloses
  <2>1. reader' = FreshMeta
    BY <1>3 DEF ReaderCloses, NoReader, FreshMeta
  <2>2. IdsOf(FreshMeta) = {}
    BY FreshFacts
  <2> QED BY <2>1, <2>2 DEF Whole, IdsOf
<1> QED BY <1>1, <1>2, <1>3 DEF SharedNext, WriterStep, sharedVars

\* disk_store.cpp:82-90: the ids of blocks reach the file after the blocks.
\* While the metadata fits in its block, whoever reads it, in the middle of a
\* persist, after a death at any point of any process or long ago, finds a whole
\* block behind every id, and data behind the data ids; for every number of ids,
\* also when the metadata found are the data ids of one image and the tree ids
\* of another.
THEOREM ListedBlocksStayWhole ==
  ASSUME MetaFits PROVE SharedSpec => []ListedBlocksAreWhole
<1>1. SharedInit => TiedInv /\ Whole(reader)
  <2> SUFFICES ASSUME SharedInit PROVE TiedInv /\ Whole(reader)
    OBVIOUS
  <2>1. StoreInit /\ reader = FreshMeta
    BY DEF SharedInit, NoReader, FreshMeta
  <2>2. IdsOf(FreshMeta) = {}
    BY FreshFacts
  <2> QED BY <2>1, <2>2, TiedInit DEF Whole, IdsOf
<1>2. ReaderInv /\ TiedInv /\ Whole(reader) /\ [SharedNext]_sharedVars
        => TiedInv' /\ Whole(reader)'
  BY SharedStep, TiedNext, WholeReader DEF ReaderInv
<1>3. ReaderInv /\ TiedInv /\ Whole(reader) => ListedBlocksAreWhole
  BY FileIsWhole DEF ReaderInv, ListedBlocksAreWhole, Whole
<1> QED BY ReaderInvariant, <1>1, <1>2, <1>3, PTL DEF SharedSpec
=============================================================================
