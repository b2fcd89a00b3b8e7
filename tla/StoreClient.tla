---------------------------- MODULE StoreClient ----------------------------
(***************************************************************************)
(* A client that uses a DiskStore as the loader does, in any order: one    *)
(* process at a time opens the file, inserts blocks, updates the blocks it *)
(* inserted, reads, sets the root, persists, and closes the file or dies.  *)
(* Updating a block that the file lists is left out: only                  *)
(* disk_store_test.cpp does that, and a death in the middle of it would    *)
(* take the block.                                                         *)
(***************************************************************************)
EXTENDS DiskStore

CONSTANT Contents   \* the blocks a client may write

ASSUME ContentsAssumption ==
  Garbage \notin Contents \cup {Hole} /\ \A block \in Contents : block.kind \in {"data", "btree"}

\* BTree::bulk_load updates nodes that it has inserted, as what they are.
UpdateOwn ==
  \E id \in base..Count(meta) - 1 : \E block \in Contents :
    KindOf(meta, id) = block.kind /\ Update(id, block)

StoreNext ==
  \/ Open
  \/ \E block \in Contents : Insert(block)
  \/ UpdateOwn
  \/ \E id \in IdsOf(meta) : SetRoot(id)
  \/ Fetch
  \/ PersistWrite
  \/ PersistPart
  \/ PersistFlush
  \/ Close
  \/ Crash

StoreSpec == StoreInit /\ [][StoreNext]_storeVars
=============================================================================
