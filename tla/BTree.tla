------------------------------- MODULE BTree -------------------------------
(***************************************************************************)
(* project1's B+tree index (btree.cpp): bulk_load builds the tree bottom   *)
(* up in a DiskStore, one store call per step; lookup, get and range read  *)
(* it, one node per step.  A step of this module is one store call of the  *)
(* code together with the in-memory work up to the next one.               *)
(***************************************************************************)
EXTENDS DiskStore

VARIABLES
  capacity,    \* BTree::capacity: keys per node
  phase,       \* where bulk_load, or a call of get or range, stands
  work,        \* key-pointer pairs of the level that are not inserted yet
  propagate,   \* key-pointer pairs for the level above
  node,        \* the node under construction: leaf / internal in the code
  nodeId,      \* its id: leaf_id / internal_id
  nextLeaf,    \* id of a leaf inserted and not linked from its left sibling
  levels,      \* n_levels
  call,        \* the call being executed: [op, begin, end]
  cursor,      \* id of the node that is read next
  found,       \* block pointers found so far
  reads        \* SpyStore's read counts

treeVars == <<capacity, phase, work, propagate, node, nodeId, nextLeaf, levels,
              call, cursor, found, reads>>
loadVars == <<work, propagate, node, nodeId, nextLeaf, levels>>
callVars == <<call, cursor, found, reads>>

NoNode  == [kind |-> "none"]
NoId    == -1
NoCall  == [op |-> "none", begin |-> 0, end |-> 0]
NoReads == [data |-> 0, btree |-> 0]

TreeInit(capacities) ==
  /\ capacity \in capacities
  /\ phase = "ready"
  /\ work = <<>> /\ propagate = <<>>
  /\ node = NoNode /\ nodeId = BlockNull /\ nextLeaf = NoId /\ levels = 0
  /\ call = NoCall /\ cursor = NoId /\ found = <<>> /\ reads = NoReads

\* The index object of the next process.
TreeReset ==
  /\ phase' = "ready"
  /\ work' = <<>> /\ propagate' = <<>>
  /\ node' = NoNode /\ nodeId' = BlockNull /\ nextLeaf' = NoId /\ levels' = 0
  /\ call' = NoCall /\ cursor' = NoId /\ found' = <<>> /\ reads' = NoReads
  /\ UNCHANGED capacity

-----------------------------------------------------------------------------
(* bulk_load                                                               *)

\* The keys of a std::map in the order it is iterated: by the number of smaller
\* ones.
InOrder(keys) ==
  [i \in 1..Cardinality(keys) |->
     CHOOSE key \in keys : Cardinality({k \in keys : k < key}) = i - 1]

\* A std::map of keys to block ids.
Pairs(keyPointers) ==
  LET keys == InOrder(DOMAIN keyPointers)
  IN  [i \in DOMAIN keys |-> <<keys[i], keyPointers[keys[i]]>>]

BulkLoad(keyPointers) ==
  /\ phase = "ready"
  /\ phase' = IF DOMAIN keyPointers = {} THEN "loaded" ELSE "leaf"
  /\ work' = Pairs(keyPointers)
  /\ levels' = 0
  /\ UNCHANGED <<capacity, propagate, node, nodeId, nextLeaf, callVars, storeVars>>

\* There is no node to insert into, or it has as many keys as it may.
NeedsNode(limit) == IF node = NoNode THEN TRUE ELSE NodeFull(node, limit)

\* A leaf is inserted empty, before the leaf to its left links to it.
NewLeaf ==
  /\ phase = "leaf" /\ work # <<>> /\ nextLeaf = NoId
  /\ NeedsNode(capacity)
  /\ Insert(EmptyNode(TRUE))
  /\ propagate' = Append(propagate, <<Head(work)[1], NewId(meta)>>)
  /\ IF nodeId = BlockNull
     THEN node' = EmptyNode(TRUE) /\ nodeId' = NewId(meta) /\ nextLeaf' = NoId
     ELSE nextLeaf' = NewId(meta) /\ UNCHANGED <<node, nodeId>>
  /\ UNCHANGED <<capacity, phase, work, levels, callVars>>

\* Mutant: the first pointer is overwritten.
LinkFirst(leaf, id) == [leaf EXCEPT !.pointers = ReplaceAt(@, 1, id)]

\* The last pointer of a leaf is the id of the next leaf.
LinkTo(leaf, id) == [leaf EXCEPT !.pointers = ReplaceAt(@, Len(@), id)]

LinkLeaf ==
  /\ phase = "leaf" /\ nextLeaf # NoId
  /\ Update(nodeId, LinkTo(node, nextLeaf))
  /\ node' = EmptyNode(TRUE) /\ nodeId' = nextLeaf /\ nextLeaf' = NoId
  /\ UNCHANGED <<capacity, phase, work, propagate, levels, callVars>>

\* Mutant: half the capacity is rounded down.
SplitAtFloor == capacity \div 2

\* load_internal fills a node to half its capacity, rounded up.
SplitAt == (capacity + 1) \div 2

NewInternal ==
  /\ phase = "internal" /\ work # <<>>
  /\ NeedsNode(SplitAt)
  /\ Insert(EmptyNode(FALSE))
  /\ propagate' = Append(propagate, <<Head(work)[1], NewId(meta)>>)
  /\ node' = EmptyNode(FALSE) /\ nodeId' = NewId(meta)
  /\ UNCHANGED <<capacity, phase, work, nextLeaf, levels, callVars>>

\* The next pair goes into the node under construction.
Fill ==
  /\ work # <<>> /\ nextLeaf = NoId
  /\ node' = NodeInsert(node, Head(work)[1], Head(work)[2])
  /\ Update(nodeId, node')
  /\ work' = Tail(work)
  /\ UNCHANGED <<capacity, phase, propagate, nodeId, nextLeaf, levels, callVars>>

FillLeaf     == phase = "leaf"     /\ ~NeedsNode(capacity) /\ Fill
FillInternal == phase = "internal" /\ ~NeedsNode(SplitAt)  /\ Fill

LevelDone == phase \in {"leaf", "internal"} /\ work = <<>>

NextLevel ==
  /\ LevelDone /\ Len(propagate) > 1
  /\ phase' = "internal"
  /\ work' = propagate /\ propagate' = <<>>
  /\ node' = NoNode /\ nodeId' = BlockNull
  /\ levels' = levels + 1
  /\ UNCHANGED <<capacity, nextLeaf, callVars, storeVars>>

\* One node is left: it is the root.
RootDone ==
  /\ LevelDone /\ Len(propagate) = 1
  /\ SetRoot(propagate[1][2])
  /\ phase' = "loaded"
  /\ levels' = levels + 1
  /\ propagate' = <<>> /\ node' = NoNode /\ nodeId' = BlockNull
  /\ UNCHANGED <<capacity, work, nextLeaf, callVars>>

LoadStep ==
  NewLeaf \/ LinkLeaf \/ FillLeaf \/ NewInternal \/ FillInternal \/ NextLevel \/ RootDone

-----------------------------------------------------------------------------
(* lookup, get and range                                                   *)

\* What get_block finds at a position.
Content(id) == DiskAfter(pending)[id]

\* Store::get casts to the kind it wants.  It throws or hands out no block
\* when the metadata knows no such id or lists it as another kind; bytes of
\* another kind, or of no single write, are no block either.
Readable(id, kind) ==
  /\ KindOf(meta, id) = kind
  /\ Content(id) # Garbage
  /\ Content(id).kind \in {kind, "hole"}

\* Zeros read as a node: internal, no key, one pointer.  Behind the end of the
\* file it would be a node of any kind and size, but calls read no such block
\* (Database's NodesAreWritten).
NodeAt(id) ==
  IF Content(id).kind = "hole" THEN [EmptyNode(FALSE) EXCEPT !.pointers = <<0>>]
                               ELSE Content(id)

\* Mutant: a key equal to its separator is looked for on the left.
ChildLeftOfEqual(n, key) ==
  LET at == LowerBound(n.keys, key)
  IN  IF at > Len(n.keys) THEN Last(n.pointers) ELSE n.pointers[at]

\* The child that lookup descends to.
Child(n, key) ==
  LET at == LowerBound(n.keys, key)
  IN  IF at > Len(n.keys)    THEN Last(n.pointers)
      ELSE IF key >= n.keys[at] THEN n.pointers[at + 1]
      ELSE n.pointers[at]

\* A call starts at the root; on an empty tree it returns at once.
StartCall(op, begin, end) ==
  /\ call' = [op |-> op, begin |-> begin, end |-> end]
  /\ cursor' = meta.root
  /\ found' = <<>>
  /\ reads' = NoReads
  /\ phase' = IF meta.root = BlockNull THEN "returned" ELSE "lookup"
  /\ UNCHANGED <<capacity, loadVars, storeVars>>

\* Mutant: the end of the range is left out.
TakenBelowEnd(leaf, from) ==
  {i \in from..Len(leaf.keys) : \A j \in from..i : leaf.keys[j] < call.end}

\* Positions of a leaf that range collects: from a position on, up to the
\* first key above end.
Taken(leaf, from) ==
  {i \in from..Len(leaf.keys) : \A j \in from..i : leaf.keys[j] <= call.end}

\* The loop of range over one leaf.  It goes on to the next leaf only after
\* taking the last key of this one.
RangeLeaf(leaf, from) ==
  LET taken == Taken(leaf, from)
      more  == Len(leaf.keys) \in taken /\ Last(leaf.pointers) # BlockNull
  IN  /\ found' = found \o SubSeq(leaf.pointers, from, from + Cardinality(taken) - 1)
      /\ phase' = IF more THEN "range" ELSE "returned"
      /\ cursor' = IF more THEN Last(leaf.pointers) ELSE cursor

GetLeaf(leaf, at) ==
  /\ found' = IF at <= Len(leaf.keys) /\ leaf.keys[at] = call.begin
              THEN <<leaf.pointers[at]>> ELSE <<>>
  /\ phase' = "returned"
  /\ UNCHANGED cursor

ReadNode ==
  /\ Readable(cursor, "btree")
  /\ Fetch
  /\ reads' = [reads EXCEPT !.btree = @ + 1]
  /\ UNCHANGED <<capacity, loadVars, call>>

\* Mutant: the loop goes on with the node at hand instead of its child.
DescendInPlace ==
  /\ phase = "lookup" /\ Readable(cursor, "btree") /\ ~NodeAt(cursor).leaf
  /\ UNCHANGED <<storeVars, treeVars>>

Descend ==
  /\ phase = "lookup" /\ ReadNode /\ ~NodeAt(cursor).leaf
  /\ cursor' = Child(NodeAt(cursor), call.begin)
  /\ UNCHANGED <<phase, found>>

ReachLeaf ==
  /\ phase = "lookup" /\ ReadNode /\ NodeAt(cursor).leaf
  /\ LET leaf == NodeAt(cursor)
         at   == LowerBound(leaf.keys, call.begin)
     IN  IF call.op = "get" THEN GetLeaf(leaf, at) ELSE RangeLeaf(leaf, at)

NextLeafOfRange ==
  /\ phase = "range" /\ ReadNode
  /\ RangeLeaf(NodeAt(cursor), 1)

CallStep == Descend \/ ReachLeaf \/ NextLeafOfRange
=============================================================================
