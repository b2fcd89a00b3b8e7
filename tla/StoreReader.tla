---------------------------- MODULE StoreReader ----------------------------
(***************************************************************************)
(* A second DiskStore on the file of a first one, as disk_store_test.cpp   *)
(* opens: it reads the metadata when it is constructed and then blocks,    *)
(* while the first one goes on writing, or dies and is followed by another *)
(* process.  The constructor does not lock the file or read it again, so   *)
(* that the reader keeps the metadata it found, which may be half written. *)
(*                                                                         *)
(* Of a file that was never persisted the reader would find the same       *)
(* uninitialised sizes as Open does; such readers are left out.            *)
(***************************************************************************)
EXTENDS StoreClient

VARIABLES
  reader,   \* the reader's Metadata object
  whole,    \* history: whether the metadata in the file are those of one persist
  clean     \* history: whether all metadata ever read were so, and no
            \* uninitialised size was other than 0

sharedVars == <<storeVars, reader, whole, clean>>

NoReader == [root |-> BlockNull, data |-> <<>>, btree |-> <<>>]

ReaderOpens  == reader = NoReader /\ status = "written" /\ reader' = Decode(header)
ReaderCloses == reader # NoReader /\ reader' = NoReader

\* Opening a file whose metadata no process ever had.
Taints == Open /\ (~whole \/ (status = "empty" /\ Count(meta') > 0))

SharedInit == StoreInit /\ reader = NoReader /\ whole = TRUE /\ clean = TRUE

WriterStep ==
  /\ StoreNext
  /\ whole' = (\/ whole /\ header' = header
               \/ pending.to = "meta" /\ header' = HeaderAfter(pending))
  /\ clean' = (clean /\ ~Taints)
  /\ UNCHANGED reader

SharedNext ==
  \/ WriterStep
  \/ ReaderOpens /\ clean' = (clean /\ whole) /\ UNCHANGED <<storeVars, whole>>
  \/ ReaderCloses /\ UNCHANGED <<storeVars, whole, clean>>

SharedSpec == SharedInit /\ [][SharedNext]_sharedVars

\* What makes SnapshotStays so: the reader's ids are counted, and there are at
\* least as many in the file.
ReaderCounts ==
  /\ Count(reader) <= FileCount
  /\ \A id \in IdsOf(reader) : id < Count(reader)

\* disk_store_test.cpp:37 opens a second store: as long as it is open, no step
\* of the first one, no later process and no death changes a block that the
\* second one knows, however old its metadata are.
SnapshotStays == [][\A id \in IdsOf(reader) : disk'[id] = disk[id]]_sharedVars

\* metadata.h:18-20 keeps the lists ascending because Metadata::lookup
\* searches them by halves: unless half-written or uninitialised metadata were
\* read, every registered id is found, as its own kind, by the writer and by the
\* reader.
LookupFindsEveryId ==
  clean => \A m \in {meta, reader} :
    /\ \A i \in DOMAIN m.data  : KindOf(m, m.data[i]) = "data"
    /\ \A i \in DOMAIN m.btree : KindOf(m, m.btree[i]) = "btree"

\* persist (disk_store.cpp:82) writes the ids of blocks when the blocks are
\* there: whoever reads the metadata, in the middle of a persist, after a death
\* at any point or long ago, finds behind every id a block that is neither
\* missing nor half written, and behind the data ids data.  (Only 0 may be
\* listed without a block: an uninitialised size makes lists of zeros.)
ListedBlocksAreWhole ==
  \A m \in {Decode(header), reader} :
    /\ \A id \in IdsOf(m) : disk[id] # Garbage /\ (disk[id] = Hole => id = 0)
    /\ \A id \in ToSet(m.data) : disk[id].kind = "data" \/ disk[id] = Hole
=============================================================================
