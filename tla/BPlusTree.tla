----------------------------- MODULE BPlusTree -----------------------------
(***************************************************************************)
(* proj1's B+tree (BPlusTree.cpp): internal nodes live in memory, leaves   *)
(* are pages of a DiskManager that are copied, changed and written back,   *)
(* one page access per step.  A tree is opened on an empty file, or built  *)
(* from the leaves of an existing one (bulkLoad).                          *)
(***************************************************************************)
EXTENDS DiskManager, FiniteSetsExt

CONSTANTS
  MinDegree,   \* min_degree_: a node has at most 2 * MinDegree - 1 keys
  StrayIds     \* what the padding of a page of zeros may hold in memory

ASSUME BPlusTreeAssumption == MinDegree \in Nat /\ MinDegree >= 2 /\ StrayIds \subseteq Nat

VARIABLES
  pc,      \* where the process stands, "closed" when there is none
  root,    \* none, the leaf object that is the root, or a node's address
  nodes,   \* the internal nodes by address
  key,     \* the key being inserted
  at,      \* the address of the node at hand
  slot,    \* the position of the child at hand in that node
  leaf,    \* the copy of the leaf at hand
  right,   \* newChildPageId: the page that a split has allocated
  level    \* currentLevel: the addresses of the nodes of a level

treeVars == <<pc, root, nodes, key, at, slot, leaf, right, level>>
callVars == <<key, at, slot, leaf, right>>

NoRoot        == [kind |-> "none"]
LeafRoot(l)   == [kind |-> "leaf", leaf |-> l]
NodeRoot(a)   == [kind |-> "node", at |-> a]
NoKey         == Key(0, AnyId)

\* type 1: the children are nodes; type 2: they are leaves.
InternalNode(type, children) == [type |-> type, keys |-> <<>>, children |-> children]

\* Mutant: full one key late.
FullLate(n) == Len(n.keys) > 2 * MinDegree - 1

Full(n) == Len(n.keys) = 2 * MinDegree - 1

NoTree ==
  /\ root' = NoRoot /\ nodes' = <<>> /\ level' = <<>>
  /\ key' = NoKey /\ at' = 0 /\ slot' = 0 /\ leaf' = ZeroPage /\ right' = NoPage

TreeInit ==
  /\ pc = "closed"
  /\ root = NoRoot /\ nodes = <<>> /\ level = <<>>
  /\ key = NoKey /\ at = 0 /\ slot = 0 /\ leaf = ZeroPage /\ right = NoPage

\* The process ends or dies: nothing is buffered, memory is gone.
Ends == pc # "closed" /\ pc' = "closed" /\ NoTree /\ UNCHANGED diskVars

-----------------------------------------------------------------------------
(* insert                                                                  *)

\* The loops from the last key down: behind the last key that is not greater.
PlaceOf(keys, k) == Max({0} \cup {i \in DOMAIN keys : ~Greater(keys[i], k)}) + 1

\* Mutant: the new child goes to the left of the separator.
AdoptLeft(n, i, separator, child) ==
  [n EXCEPT !.keys = InsertAt(@, i, separator), !.children = InsertAt(@, i, child)]

\* A parent takes a separator and the child to its right.
Adopt(n, i, separator, child) ==
  [n EXCEPT !.keys = InsertAt(@, i, separator), !.children = InsertAt(@, i + 1, child)]

Upto(s, n) == SubSeq(s, 1, n)
From(s, n) == SubSeq(s, n, Len(s))

\* splitInternalNode: the left half keeps MinDegree keys and children, so that
\* its last key separates nothing any more; it is repeated in the parent.
LeftPart(n)  == [n EXCEPT !.keys = Upto(@, MinDegree), !.children = Upto(@, MinDegree)]
RightPart(n) == [n EXCEPT !.keys = From(@, MinDegree + 1), !.children = From(@, MinDegree + 1)]

SplitInternalNode(heap, parent, i) ==
  LET a == heap[parent].children[i]
      n == heap[a]
  IN  Append([heap EXCEPT ![parent] = Adopt(@, i, n.keys[MinDegree], Len(heap) + 1),
                          ![a] = LeftPart(@)],
             RightPart(n))

Insert(k) ==
  /\ pc = "idle"
  /\ key' = k
  /\ pc' = IF root = NoRoot THEN "newRoot" ELSE "insert"
  /\ UNCHANGED <<root, nodes, at, slot, leaf, right, level, diskVars>>

\* The first leaf: a page of zeros first, then its image without keys.
AllocateRoot ==
  /\ pc = "newRoot" /\ AllocatePage
  /\ root' = LeafRoot(NewPage(pageCount))
  /\ pc' = "writeRoot"
  /\ UNCHANGED <<nodes, callVars, level>>

WriteRoot ==
  /\ pc = "writeRoot" /\ WritePage(root.leaf.pageId, root.leaf)
  /\ pc' = "insert"
  /\ UNCHANGED <<root, nodes, callVars, level>>

\* insertLeaf: the root is a leaf, which gets a parent when it is full.
InsertLeaf ==
  /\ pc = "insert" /\ root.kind = "leaf"
  /\ leaf' = root.leaf
  /\ IF Full(root.leaf)
     THEN /\ nodes' = Append(nodes, InternalNode(2, <<root.leaf.pageId>>))
          /\ at' = Len(nodes) + 1 /\ slot' = 1
          /\ pc' = "split"
     ELSE /\ pc' = "fill"
          /\ UNCHANGED <<nodes, at, slot>>
  /\ UNCHANGED <<root, key, right, level, diskVars>>

\* insertInternal: a full root gets a parent and is split.
InsertInternal ==
  /\ pc = "insert" /\ root.kind = "node"
  /\ IF Full(nodes[root.at])
     THEN LET parent == Len(nodes) + 1
          IN  /\ nodes' = SplitInternalNode(
                            Append(nodes, InternalNode(1, <<root.at>>)), parent, 1)
              /\ root' = NodeRoot(parent)
     ELSE UNCHANGED <<nodes, root>>
  /\ at' = root'.at
  /\ pc' = "descend"
  /\ UNCHANGED <<key, slot, leaf, right, level, diskVars>>

\* Mutant: the node at hand is entered again instead of its child.
DescendInPlace == pc = "descend" /\ nodes[at].type = 1 /\ UNCHANGED <<diskVars, treeVars>>

\* insertNonFullInternal above the last level: a full child is split before
\* it is entered.
Descend ==
  /\ pc = "descend" /\ nodes[at].type = 1
  /\ LET i == PlaceOf(nodes[at].keys, key)
         child == nodes[at].children[i]
     IN  IF Full(nodes[child])
         THEN /\ nodes' = SplitInternalNode(nodes, at, i)
              /\ at' = IF Greater(key, nodes'[at].keys[i])
                       THEN nodes'[at].children[i + 1] ELSE child
         ELSE at' = child /\ UNCHANGED nodes
  /\ UNCHANGED <<pc, root, key, slot, leaf, right, level, diskVars>>

\* insertNonFullInternal on the last level: the leaf is read.
ReachLeaf ==
  /\ pc = "descend" /\ nodes[at].type = 2
  /\ slot' = PlaceOf(nodes[at].keys, key)
  /\ leaf' = pages[nodes[at].children[slot']]
  /\ pc' = IF Full(leaf') THEN "split" ELSE "fill"
  /\ UNCHANGED <<root, nodes, key, at, right, level, diskVars>>

\* splitLeafNode in its three page accesses.
AllocateRight ==
  /\ pc = "split" /\ AllocatePage
  /\ right' = pageCount
  /\ nodes' = [nodes EXCEPT ![at] = Adopt(@, slot, leaf.keys[MinDegree], pageCount)]
  /\ pc' = "writeRight"
  /\ UNCHANGED <<root, key, at, slot, leaf, level>>

RightHalf == [keys |-> From(leaf.keys, MinDegree + 1), pageId |-> right, next |-> leaf.next]
\* Mutant: the left half is not linked to the right one.
LeftHalfUnlinked == [leaf EXCEPT !.keys = Upto(@, MinDegree)]
LeftHalf == [leaf EXCEPT !.keys = Upto(@, MinDegree), !.next = right]

\* Mutant: the keys are cut off before the page with the right half is written.
WriteRightTooLate ==
  /\ pc = "writeRight" /\ WritePage(leaf.pageId, LeftHalf)
  /\ pc' = "writeLeft"
  /\ UNCHANGED <<root, nodes, callVars, level>>

WriteRight ==
  /\ pc = "writeRight" /\ WritePage(right, RightHalf)
  /\ pc' = "writeLeft"
  /\ UNCHANGED <<root, nodes, callVars, level>>

\* The left half is written; the insertion goes on from the new root, or in
\* the half that the key belongs to.
WriteLeft ==
  /\ pc = "writeLeft" /\ WritePage(leaf.pageId, LeftHalf)
  /\ IF root.kind = "leaf"
     THEN root' = NodeRoot(at) /\ pc' = "descend" /\ UNCHANGED leaf
     ELSE /\ leaf' = IF Greater(key, nodes[at].keys[slot])
                     THEN pages[nodes[at].children[slot + 1]] ELSE LeftHalf
          /\ pc' = "fill"
          /\ UNCHANGED root
  /\ UNCHANGED <<nodes, key, at, slot, right, level>>

\* Mutant: the object of a root leaf is not changed with its page.
RootKept(filled) == root

\* A root leaf is one object with its copy here.
RootAfter(filled) == IF root.kind = "leaf" THEN LeafRoot(filled) ELSE root

\* insertNonFullLeaf.
FillLeaf ==
  LET filled == [leaf EXCEPT !.keys = InsertAt(@, PlaceOf(@, key), key)]
  IN  /\ pc = "fill" /\ WritePage(leaf.pageId, filled)
      /\ root' = RootAfter(filled)
      /\ pc' = "idle"
      /\ key' = NoKey /\ at' = 0 /\ slot' = 0 /\ leaf' = ZeroPage /\ right' = NoPage
      /\ UNCHANGED <<nodes, level>>

InsertStep ==
  AllocateRoot \/ WriteRoot \/ InsertLeaf \/ InsertInternal \/ Descend \/ ReachLeaf
    \/ AllocateRight \/ WriteRight \/ WriteLeft

-----------------------------------------------------------------------------
(* The constructor and bulkLoad                                            *)

OpenTree(trunc) ==
  /\ pc = "closed" /\ OpenContext(trunc)
  /\ pc' = "openFile"
  /\ UNCHANGED <<root, nodes, callVars, level>>

OpenPages ==
  /\ pc = "openFile" /\ OpenFile
  /\ pc' = IF kept THEN "load" ELSE "idle"
  /\ UNCHANGED <<root, nodes, callVars, level>>

\* The program gives up.
NoFile == pc = "openFile" /\ ~CanOpenFile /\ pc' = "closed" /\ UNCHANGED <<diskVars, root, nodes, callVars, level>>

\* The loop that moves keys to a new node ends early: its bound, the number of
\* keys left, goes down while its index goes up.
Moved == MinDegree \div 2

\* Mutant: all children stay.
CutKeepingChildren(n) ==
  <<[n EXCEPT !.keys = Upto(@, Len(@) - Moved)],
    [n EXCEPT !.keys = SubSeq(@, MinDegree + 1, MinDegree + Moved), !.children = <<>>]>>

\* A full node is cut: what stays, and what the next node starts with.
Cut(n) ==
  <<[n EXCEPT !.keys = Upto(@, Len(@) - Moved), !.children = Upto(@, MinDegree)],
    [n EXCEPT !.keys = SubSeq(@, MinDegree + 1, MinDegree + Moved),
              !.children = From(@, MinDegree + 1)]>>

\* The nodes of one level over the given pairs of a last key and a child.  A
\* last node with a key for each child drops the last key, and is dropped
\* itself when it has no other.
LevelOver(pairs, type) ==
  LET extend(n, pair) == [n EXCEPT !.keys = Append(@, pair[1]), !.children = Append(@, pair[2])]
      take(built, pair) ==
        IF Full(built.last)
        THEN [done |-> Append(built.done, Cut(built.last)[1]),
              last |-> extend(Cut(built.last)[2], pair)]
        ELSE [built EXCEPT !.last = extend(@, pair)]
      built == FoldLeft(take, [done |-> <<>>, last |-> InternalNode(type, <<>>)], pairs)
      last  == IF Len(built.last.keys) = Len(built.last.children)
               THEN [built.last EXCEPT !.keys = Front(@)] ELSE built.last
  IN  IF last.keys = <<>> THEN built.done ELSE Append(built.done, last)

\* keys[nums - 1] of a page: without keys it is read from the bytes before
\* them, of which some are padding.
LastKey(page, stray) == IF page.keys = <<>> THEN Key(0, stray) ELSE Last(page.keys)

PutLevel(built) ==
  /\ nodes' = nodes \o built
  /\ level' = [i \in DOMAIN built |-> Len(nodes) + i]

LoadNothing ==
  /\ pc = "load" /\ TotalPages = 0
  /\ pc' = "idle"
  /\ UNCHANGED <<diskVars, root, nodes, callVars, level>>

LoadLeaves ==
  /\ pc = "load" /\ TotalPages > 0
  /\ \E stray \in StrayIds :
       LET read  == ReadAllPage
           pairs == [i \in DOMAIN read |-> <<LastKey(read[i], stray), read[i].pageId>>]
       IN  PutLevel(LevelOver(pairs, 2))
  /\ pc' = "loadUp"
  /\ UNCHANGED <<diskVars, root, callVars>>

LoadLevel ==
  /\ pc = "loadUp" /\ Len(level) > 1
  /\ LET pairs == [i \in DOMAIN level |-> <<Last(nodes[level[i]].keys), level[i]>>]
     IN  PutLevel(LevelOver(pairs, 1))
  /\ UNCHANGED <<diskVars, pc, root, callVars>>

LoadRoot ==
  /\ pc = "loadUp" /\ Len(level) = 1
  /\ root' = NodeRoot(level[1]) /\ level' = <<>>
  /\ pc' = "idle"
  /\ UNCHANGED <<diskVars, nodes, callVars>>

\* currentLevel[0] of no level: the process dies.
LoadDies == pc = "loadUp" /\ level = <<>> /\ Ends

LoadStep ==
  NoFile \/ LoadNothing \/ LoadLeaves \/ LoadLevel \/ LoadRoot \/ LoadDies

-----------------------------------------------------------------------------
(* search, rangeSearch, getDepth: they change nothing.  They need a root.  *)

FirstNotLess(keys, k) == Min({i \in DOMAIN keys : ~Less(keys[i], k)} \cup {Len(keys) + 1})

\* findLeafNode: the page of a key, and the internal nodes on the way, at
\* least one.  NoPage stands for a child read past the end of its vector.
FindLeaf(k) ==
  LET find[a \in DOMAIN nodes] ==
        LET n == nodes[a]
            i == FirstNotLess(n.keys, k)
        IN  IF i > Len(n.children) THEN [page |-> NoPage, nodes |-> 1]
            ELSE IF n.type = 2 THEN [page |-> n.children[i], nodes |-> 1]
            ELSE [find[n.children[i]] EXCEPT !.nodes = @ + 1]
  IN  IF root.kind = "leaf" THEN [page |-> root.leaf.pageId, nodes |-> 1] ELSE find[root.at]

\* A root leaf is searched in memory, any other leaf in its page.
Search(k) ==
  LET page == FindLeaf(k).page
      keys == IF root.kind = "leaf" THEN root.leaf.keys ELSE pages[page].keys
      i    == FirstNotLess(keys, k)
  IN  IF page = NoPage THEN "undefined"
      ELSE IF i <= Len(keys) /\ keys[i] = k THEN "found" ELSE "missed"

\* rangeSearch: the keys found from page to page, and the reads it counts.  It
\* stops at the first key that is past the end.
RangeSearch(begin, end) ==
  LET first == FindLeaf(begin)
      hit(k) == AtLeast(k, begin) /\ AtMost(k, end)
      scan[p \in DOMAIN pages] ==
        LET keys  == pages[p].keys
            over  == {i \in DOMAIN keys : ~hit(keys[i]) /\ Greater(keys[i], end)}
            taken == SelectSeq(IF over = {} THEN keys ELSE Upto(keys, Min(over) - 1), hit)
        IN  IF over # {} \/ pages[p].next = NoPage THEN [found |-> taken, blocks |-> 1]
            ELSE LET rest == scan[pages[p].next]
                 IN  [found |-> taken \o rest.found, blocks |-> 1 + rest.blocks]
      scanned == scan[first.page]
  IN  [found |-> scanned.found, blocks |-> scanned.blocks, nodes |-> first.nodes]

Depth ==
  LET below[a \in DOMAIN nodes] ==
        IF nodes[a].type = 1 THEN 1 + below[nodes[a].children[1]] ELSE 1
  IN  IF root.kind = "node" THEN 1 + below[root.at] ELSE 2
=============================================================================
