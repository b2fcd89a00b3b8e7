---------------------------- MODULE BTreeClient ----------------------------
(***************************************************************************)
(* A B+tree on its own, as the tests of the index use it (btree_test.cpp): *)
(* bulk-loaded once into a new store with any keys, then asked for any key *)
(* and any range of keys.                                                  *)
(***************************************************************************)
EXTENDS BTree

CONSTANTS
  Keys,         \* keys that may be loaded and asked for
  Capacities    \* node capacities to try

\* Keys are used as their own pointers (PointerOf), so they have to be ids.
ASSUME BTreeClientAssumption ==
  /\ Keys \subseteq 0..MaxKey /\ Keys \subseteq BlockIds
  /\ Capacities \subseteq Nat \ {0}

VARIABLE input   \* the key-pointer map given to bulk_load

vars == <<storeVars, treeVars, input>>

\* Pointers are not followed by the tree: any ids that differ do.
PointerOf(key) == key

Init ==
  /\ status = "empty" /\ header = <<>> /\ disk = [id \in BlockIds |-> Hole]
  /\ pending = NoWrite /\ open = TRUE /\ meta = FreshMeta /\ base = 0
  /\ TreeInit(Capacities)
  /\ input = <<>>

Load ==
  \E keys \in SUBSET Keys :
    LET keyPointers == [key \in keys |-> PointerOf(key)]
    IN  BulkLoad(keyPointers) /\ input' = keyPointers

Loaded == phase \in {"loaded", "returned"}

Get   == Loaded /\ (\E key \in Keys : StartCall("get", key, key)) /\ UNCHANGED input
Range_ == Loaded /\ (\E begin, end \in Keys : StartCall("range", begin, end)) /\ UNCHANGED input

Next ==
  \/ Load
  \/ LoadStep /\ UNCHANGED input
  \/ Get
  \/ Range_
  \/ CallStep /\ UNCHANGED input

\* The process runs: bulk_load and the calls are loops that no one interrupts.
Spec == Init /\ [][Next]_vars /\ WF_vars(LoadStep /\ UNCHANGED input)
                              /\ WF_vars(CallStep /\ UNCHANGED input)

-----------------------------------------------------------------------------
(* Properties                                                              *)

TreeTypeOK ==
  /\ capacity \in Capacities
  /\ phase \in {"ready", "leaf", "internal", "loaded", "lookup", "range", "returned"}
  /\ work \in Seq(Keys \X BlockIds) /\ propagate \in Seq(Keys \X BlockIds)
  /\ node = NoNode \/ Len(node.keys) <= capacity
  /\ nodeId \in BlockIds /\ nextLeaf \in BlockIds \cup {NoId}
  /\ cursor \in BlockIds \cup {NoId}
  /\ found \in Seq({PointerOf(key) : key \in Keys})

\* Height and keys of the subtree under every node.  A child is inserted
\* before its parent, so the recursion goes down in ids.
NodeOf(id) == Content(id)
Subtree ==
  LET s[id \in BlockIds] ==
        LET below == ToSet(NodeOf(id).pointers) \cap 0..(id - 1)
        IN  IF NodeOf(id).leaf \/ below = {}
            THEN [height |-> 1, keys |-> ToSet(NodeOf(id).keys)]
            ELSE [height |-> 1 + s[CHOOSE p \in below : TRUE].height,
                  keys   |-> UNION {s[p].keys : p \in below}]
  IN  s
Height(id)    == Subtree[id].height
KeysUnder(id) == Subtree[id].keys

\* Every key left of a separator is below it, every key right of it is not;
\* children are inserted before the parent and are equally high.
WellSeparated(id) ==
  LET n == NodeOf(id)
  IN  ~n.leaf =>
      /\ Len(n.pointers) = Len(n.keys) + 1
      /\ \A i \in DOMAIN n.pointers :
           n.pointers[i] < id /\ Height(n.pointers[i]) = Height(id) - 1
      /\ \A i \in DOMAIN n.keys :
           /\ \A k \in KeysUnder(n.pointers[i])     : k < n.keys[i]
           /\ \A k \in KeysUnder(n.pointers[i + 1]) : k >= n.keys[i]

\* What bulk_load leaves is a search tree over exactly the keys given, as high
\* as the number of levels it returns (btree.h:46-49), no node over capacity.
TreeIsSearchTree ==
  Loaded /\ DOMAIN input # {} =>
    /\ \A id \in ToSet(meta.btree) :
         WellSeparated(id) /\ Len(NodeOf(id).keys) <= capacity
    /\ KeysUnder(meta.root) = DOMAIN input
    /\ Height(meta.root) = levels

LeafIds       == {id \in ToSet(meta.btree) : NodeOf(id).leaf}
KeysOf(id)    == ToSet(NodeOf(id).keys)
KeysAbove(id) == {key \in DOMAIN input : \A k \in KeysOf(id) : k < key}

\* The leaf of an id is not empty, its keys ascend, and it links to the leaf
\* that begins with the next key of all, or to no block after the last key.
LinkedInOrder(id) ==
  LET n    == NodeOf(id)
      link == Last(n.pointers)
  IN  /\ n.keys # <<>>
      /\ \A i, j \in 1..Len(n.keys) : i < j => n.keys[i] < n.keys[j]
      /\ IF KeysAbove(id) = {}
         THEN link = BlockNull
         ELSE /\ link \in LeafIds
              /\ NodeOf(link).keys[1] \in KeysAbove(id)
              /\ \A key \in KeysAbove(id) : NodeOf(link).keys[1] <= key

\* The leaves share out the keys and are linked in key order: following the
\* last pointers from the leaf of the first key meets every key once, and the
\* last leaf links to no block.
LeavesAreLinked ==
  Loaded /\ DOMAIN input # {} =>
    /\ \A id \in LeafIds : LinkedInOrder(id)
    /\ \A i, j \in LeafIds : i # j => KeysOf(i) \cap KeysOf(j) = {}
    /\ UNION {KeysOf(id) : id \in LeafIds} = DOMAIN input

\* btree.h:55-58: get returns the block pointer of the key, none for a key that
\* was not loaded, and reads one node per level to do so.
GetFindsTheKey ==
  phase = "returned" /\ call.op = "get" =>
    /\ found = IF call.begin \in DOMAIN input THEN <<input[call.begin]>> ELSE <<>>
    /\ reads.btree = levels

InRange == {key \in DOMAIN input : call.begin <= key /\ key <= call.end}
Expected == LET keys == InOrder(InRange) IN [i \in DOMAIN keys |-> input[keys[i]]]

\* What range does give: all matching pointers in key order, or none at all;
\* and all of them when begin is a loaded key or below the first one.
RangeIsExactOrEmpty ==
  phase = "returned" /\ call.op = "range" =>
    /\ found \in {Expected, <<>>}
    /\ call.begin \in DOMAIN input \/ (\A key \in DOMAIN input : call.begin < key)
         => found = Expected

\* btree.h:61-64: range returns the pointers of the keys from begin to end, and
\* none only if none matches.
RangeFindsEveryKey ==
  phase = "returned" /\ call.op = "range" => found = Expected

\* bulk_load and every call come to an end: each level has fewer nodes than
\* the one below, and no chain of pointers is followed in a circle.
BulkLoadEnds == phase = "leaf" ~> phase = "loaded"
CallsEnd     == phase = "lookup" ~> phase = "returned"
=============================================================================
