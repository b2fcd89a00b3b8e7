------------------------------- MODULE Blocks -------------------------------
(***************************************************************************)
(* The blocks that project1's database file is made of, and the pure       *)
(* operations on them: data blocks (data.cpp), B+tree nodes                *)
(* (btree_node.cpp) and the metadata block (metadata.cpp, store.cpp).      *)
(*                                                                         *)
(* A block is a record.  What its bytes hold beyond its fields is left     *)
(* out, except for the metadata block: its image is a sequence of 16-bit   *)
(* words, because an image that is torn, stale or never written is read    *)
(* back as different metadata.                                             *)
(***************************************************************************)
EXTENDS Integers, Sequences, FiniteSets, SequencesExt

CONSTANTS
  BlockNull,     \* BLOCK_NULL: the largest block id (65535 in the code)
  MaxKey,        \* the largest key (65535 in the code)
  DataCapacity   \* Data::fs_capacity(): records a data block can hold

ASSUME BlocksAssumption ==
  BlockNull \in Nat \ {0} /\ MaxKey \in Nat /\ DataCapacity \in Nat

\* The range of the unsigned type BlockID.
BlockIds == 0..BlockNull

-----------------------------------------------------------------------------
(* Binary searches of the standard library, 1-based.                       *)

\* Index of the first element of s that is not less than x, Len(s) + 1 if
\* there is none, found the way std::lower_bound halves the sequence: among
\* len elements from first on.  On a sequence that is not sorted the answer is
\* the place the halving ends at.
LowerBound(s, x) ==
  LET search[len \in 0..Len(s)] ==
        [first \in 1..Len(s) + 1 - len |->
           IF len = 0 THEN first
           ELSE LET half == len \div 2
                IN  IF s[first + half] < x
                    THEN search[len - half - 1][first + half + 1]
                    ELSE search[half][first]]
  IN  search[Len(s)][1]

\* Index of the first element greater than x (std::upper_bound): for integers
\* the first one that is not less than x + 1.
UpperBound(s, x) == LowerBound(s, x + 1)

\* std::binary_search.
BinarySearch(s, x) ==
  LET at == LowerBound(s, x) IN at <= Len(s) /\ s[at] = x

-----------------------------------------------------------------------------
(* Data blocks: records of one key, linked into a chain by next.           *)

EmptyData == [kind |-> "data", records |-> <<>>, next |-> BlockNull]

\* Mutant: full one record late.
DataFullLate(data) == Len(data.records) > DataCapacity

DataFull(data) == Len(data.records) >= DataCapacity

\* Data::insert: the record goes before the first record of a greater key.
DataInsert(data, record) ==
  LET keys == [i \in DOMAIN data.records |-> data.records[i].key]
  IN  [data EXCEPT !.records = InsertAt(@, UpperBound(keys, record.key), record)]

\* Data::key: the key of the first record, the largest key in an empty block.
DataKey(data) == IF data.records = <<>> THEN MaxKey ELSE Head(data.records).key

-----------------------------------------------------------------------------
(* B+tree nodes.                                                           *)

EmptyNode(leaf) ==
  [kind |-> "btree", leaf |-> leaf, keys |-> <<>>, pointers |-> <<>>]

\* Mutant: full one key late.
NodeFullLate(node, capacity) == Len(node.keys) > capacity

NodeFull(node, capacity) == Len(node.keys) >= capacity

\* BTreeNode::insert on a leaf: the first insertion appends the link to the
\* next leaf; key and pointer take the same position.
LeafInsert(node, key, pointer) ==
  LET at    == UpperBound(node.keys, key)
      links == IF node.pointers = <<>> THEN <<BlockNull>> ELSE node.pointers
  IN  [node EXCEPT !.keys     = InsertAt(@, at, key),
                   !.pointers = InsertAt(links, at, pointer)]

\* Mutant: the pointer goes to the left of its key.
InternalInsertLeft(node, key, pointer) ==
  LET at == UpperBound(node.keys, key)
  IN  IF node.pointers = <<>>
      THEN [node EXCEPT !.pointers = <<pointer>>]
      ELSE [node EXCEPT !.keys     = InsertAt(@, at, key),
                        !.pointers = InsertAt(@, at, pointer)]

\* BTreeNode::insert on an internal node: the first insertion drops the key
\* (it separates this node from its left sibling, one level up); a later one
\* puts the pointer to the right of its key.
InternalInsert(node, key, pointer) ==
  LET at == UpperBound(node.keys, key)
  IN  IF node.pointers = <<>>
      THEN [node EXCEPT !.pointers = <<pointer>>]
      ELSE [node EXCEPT !.keys     = InsertAt(@, at, key),
                        !.pointers = InsertAt(@, at + 1, pointer)]

NodeInsert(node, key, pointer) ==
  IF node.leaf THEN LeafInsert(node, key, pointer)
               ELSE InternalInsert(node, key, pointer)

-----------------------------------------------------------------------------
(* The metadata block and its image.                                       *)

FreshMeta == [root |-> BlockNull, data |-> <<>>, btree |-> <<>>]

Count(meta) == Len(meta.data) + Len(meta.btree)

\* Mutant: the ids of tree nodes are not counted.
NewIdFromData(meta) == Len(meta.data) % (BlockNull + 1)

\* Metadata::new_id: the number of ids so far, in 16 bits.
NewId(meta) == Count(meta) % (BlockNull + 1)

\* Mutants: the new id goes to the front of its list; every id to one list.
RegisterInFront(meta, kind) ==
  IF kind = "data" THEN [meta EXCEPT !.data  = <<NewId(meta)>> \o @]
                   ELSE [meta EXCEPT !.btree = <<NewId(meta)>> \o @]
RegisterAsData(meta, kind) == [meta EXCEPT !.data = Append(@, NewId(meta))]

\* Store::register_id: the new id joins the list of the block's kind.
Register(meta, kind) ==
  IF kind = "data" THEN [meta EXCEPT !.data  = Append(@, NewId(meta))]
                   ELSE [meta EXCEPT !.btree = Append(@, NewId(meta))]

\* Metadata::lookup: the list the id is found in; "unknown" is its exception.
KindOf(meta, id) ==
  IF BinarySearch(meta.data, id) THEN "data"
  ELSE IF BinarySearch(meta.btree, id) THEN "btree"
  ELSE "unknown"

\* Mutants: one size counts bytes; the lists are written the other way round.
EncodeInBytes(meta) ==
  <<meta.root, Len(meta.data), 2 * Len(meta.btree)>> \o meta.data \o meta.btree
EncodeTreeFirst(meta) ==
  <<meta.root, Len(meta.data), Len(meta.btree)>> \o meta.btree \o meta.data

\* Metadata::write, as words: root, the two sizes in 16 bits, the two lists.
Encode(meta) ==
  <<meta.root, Len(meta.data) % (BlockNull + 1), Len(meta.btree) % (BlockNull + 1)>>
    \o meta.data \o meta.btree

\* A word of an image; past its last word the file reads as zeros.
Word(image, i) == IF i <= Len(image) THEN image[i] ELSE 0

\* Metadata::read.
Decode(image) ==
  LET d == Word(image, 2)
      b == Word(image, 3)
  IN  [root  |-> Word(image, 1),
       data  |-> [i \in 1..d |-> Word(image, 3 + i)],
       btree |-> [i \in 1..b |-> Word(image, 3 + d + i)]]

\* Writing an image over an older one leaves the tail of a longer old image.
Overlay(image, old) == image \o SubSeq(old, Len(image) + 1, Len(old))
=============================================================================
