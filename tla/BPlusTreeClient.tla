-------------------------- MODULE BPlusTreeClient --------------------------
(***************************************************************************)
(* Programs that use proj1's B+tree on one pair of files, one process      *)
(* after another: main.cpp inserts the rows of a table in their order into *)
(* an emptied file; LoadCheck.cpp reopens a file and searches it.  Any     *)
(* process may end or die at any moment.                                   *)
(***************************************************************************)
EXTENDS BPlusTree

CONSTANTS
  Tables,             \* the tables, as sequences of the searched field
  AppendAfterReload   \* whether rows are inserted into a reopened file

ASSUME TablesAssumption == AppendAfterReload \in BOOLEAN /\ Tables \subseteq Seq(Nat)

VARIABLES
  table,      \* the table of this file
  row,        \* the number of its last row that was given to insert
  inserted    \* history: the keys whose insertion has returned

vars == <<diskVars, treeVars, table, row, inserted>>
clientVars == <<table, row, inserted>>

Init ==
  /\ DiskInit /\ TreeInit
  /\ table \in Tables /\ row = 0 /\ inserted = {}

\* A file that is emptied is filled from the first row again.
Open ==
  \E trunc \in BOOLEAN : OpenTree(trunc) /\ UNCHANGED clientVars

OpenPagesStep ==
  /\ OpenPages
  /\ IF kept THEN UNCHANGED <<row, inserted>> ELSE row' = 0 /\ inserted' = {}
  /\ UNCHANGED table

RowKey(n) == Key(table[n], n)

\* Pages of the file that this process has not allocated.
Reloaded == pageCount < TotalPages

InsertRow ==
  /\ row < Len(table)
  /\ AppendAfterReload \/ ~Reloaded
  /\ Insert(RowKey(row + 1))
  /\ row' = row + 1
  /\ UNCHANGED <<table, inserted>>

FillStep == FillLeaf /\ inserted' = inserted \cup {key} /\ UNCHANGED <<table, row>>

Step == LoadStep \/ InsertStep

Next ==
  \/ Open
  \/ OpenPagesStep
  \/ InsertRow
  \/ Step /\ UNCHANGED clientVars
  \/ FillStep
  \/ Ends /\ UNCHANGED clientVars

Spec == Init /\ [][Next]_vars

\* A call that was begun goes on: there is one thread, and it waits for no one.
FairSpec == Spec /\ WF_vars(OpenPagesStep \/ FillStep \/ (Step /\ UNCHANGED clientVars))

-----------------------------------------------------------------------------
(* Properties                                                              *)

RowKeys  == {RowKey(n) : n \in DOMAIN table}
Sorted(keys) ==
  LET among(k) == k \in keys
  IN  SortSeq(SelectSeq([n \in DOMAIN table |-> RowKey(n)], among), Less)
DiskKeys == UNION {ToSet(pages[p].keys) : p \in DOMAIN pages}

Answers == pc = "idle" /\ root # NoRoot

TypeOK ==
  /\ pc \in {"closed", "openFile", "load", "loadUp", "idle", "newRoot", "writeRoot", "insert",
             "descend", "split", "writeRight", "writeLeft", "fill"}
  /\ DOMAIN pages = 0..TotalPages - 1 /\ pageCount \in 0..TotalPages
  /\ \A p \in DOMAIN pages :
       /\ pages[p].keys \in Seq(RowKeys) /\ Len(pages[p].keys) < 2 * MinDegree
       /\ pages[p].next \in DOMAIN pages \cup {NoPage}
  /\ \A a \in DOMAIN nodes : nodes[a].type \in {1, 2} /\ Len(nodes[a].keys) < 2 * MinDegree
  /\ key \in RowKeys \cup {NoKey}
  /\ row \in 0..Len(table) /\ inserted \subseteq RowKeys

\* A leaf that is copied, changed and written back is never an outdated copy,
\* the root leaf in memory is its page, and every page but one of zeros knows
\* its own number, to which its copies are written.
CopiesAreCurrent ==
  /\ \A p \in DOMAIN pages : pages[p] = ZeroPage \/ pages[p].pageId = p
  /\ pc \in {"fill", "split", "writeRight", "writeLeft"} => leaf = pages[leaf.pageId]
  /\ pc \in {"idle", "insert"} /\ root.kind = "leaf" => root.leaf = pages[root.leaf.pageId]

\* The pages that the links from the first one lead to, one after the other.
Met == LET met[n \in 1..TotalPages + 1] ==
             IF n = 1 THEN 0
             ELSE IF met[n - 1] = NoPage THEN NoPage ELSE pages[met[n - 1]].next
       IN  met

\* At every moment, in the middle of a split too, the links from the first
\* page meet every key of the file once and in order.
ChainIsWhole ==
  0 \in DOMAIN pages /\ pages[0] # ZeroPage =>
    LET keysOf(i) == pages[Met[i]].keys
    IN  \E n \in 1..TotalPages :
          /\ Met[n + 1] = NoPage /\ \A i \in 1..n : Met[i] \in DOMAIN pages
          /\ DiskKeys = UNION {ToSet(keysOf(i)) : i \in 1..n}
          /\ \A i, j \in 1..n : \A x \in DOMAIN keysOf(i), y \in DOMAIN keysOf(j) :
               i < j \/ (i = j /\ x < y) => Less(keysOf(i)[x], keysOf(j)[y])

\* The keys in the leaves under a node, and its distance from them.
Under == LET under[a \in DOMAIN nodes] ==
               IF nodes[a].type = 2
               THEN UNION {ToSet(pages[p].keys) : p \in ToSet(nodes[a].children)}
               ELSE UNION {under[b] : b \in ToSet(nodes[a].children)}
         IN  under
Height == LET height[a \in DOMAIN nodes] ==
                IF nodes[a].type = 2 THEN {1}
                ELSE UNION {{h + 1 : h \in height[b]} : b \in ToSet(nodes[a].children)}
          IN  height

\* A load that cuts a node drops the keys it does not move: ReloadFindsEveryKey.
\* Only MinDegree 2 moves them all.
CutTree == Reloaded /\ Moved < MinDegree - 1 /\ Len(nodes) > 1

\* Inserting, splitting and loading leave a search tree: a child for each key,
\* one more when the last key bounds nothing; keys on the right sides of the
\* separators; all leaves equally deep.  A page that no other links to is what
\* a split leaves that died: a load lists it as one more leaf.
SplitsEnded == \A p \in DOMAIN pages \ {0} : \E q \in DOMAIN pages : pages[q].next = p
TreeIsSound ==
  Answers /\ root.kind = "node" /\ SplitsEnded /\ ~CutTree =>
    LET under == Under
        keysOf(n, i) == IF n.type = 1 THEN under[n.children[i]] ELSE ToSet(pages[n.children[i]].keys)
    IN  /\ under[root.at] = DiskKeys
        /\ Height[root.at] = {Depth - 1}
        /\ \A a \in DOMAIN nodes :
             LET n == nodes[a]
             IN  /\ Len(n.children) \in {Len(n.keys), Len(n.keys) + 1}
                 /\ \A i \in DOMAIN n.children :
                      /\ keysOf(n, i) # {}
                      /\ \A k \in keysOf(n, i) :
                           /\ i <= Len(n.keys) => ~Greater(k, n.keys[i])
                           /\ i > 1 => Greater(k, n.keys[i - 1])

\* What a split leaves that died is a page of zeros without a last key; a load
\* takes the bytes before its keys for one (BPlusTree.cpp:401), and by that a key
\* of field 0 may be looked for in the first page instead of its own.
Astray(k) == Reloaded /\ k.fg = ZeroKey.fg /\ \E p \in DOMAIN pages : pages[p] = ZeroPage

\* search finds a key if and only if its insertion has returned, in the process
\* that inserted it and in any later one, where a key that goes astray may be
\* missed.
Asked == RowKeys \cup {Key(table[n], 0) : n \in DOMAIN table}
SearchIsExact ==
  Answers /\ ~CutTree =>
    \A k \in Asked :
      \/ Search(k) = IF k \in inserted THEN "found" ELSE "missed"
      \/ Astray(k) /\ Search(k) = "missed"

\* rangeSearch returns the keys between two ends in order; it counts one node
\* per level, and unless its beginning goes astray it reads at most two pages
\* without a key of the range.  With a row's number at the beginning and none at
\* the end (no caller does that) it may return nothing.
Within(k, begin, end) ==
  ~Less(k, begin) /\ (IF end.id = AnyId THEN k.fg <= end.fg ELSE ~Less(end, k))
RangeIsExact ==
  Answers /\ ~CutTree =>
    \A begin, end \in {Key(table[n], AnyId) : n \in DOMAIN table} \cup inserted :
      LET r == RangeSearch(begin, end)
          hits == {k \in inserted : Within(k, begin, end)}
          hitPages == {p \in DOMAIN pages : ToSet(pages[p].keys) \cap hits # {}}
      IN  /\ r.found = Sorted(hits) \/ (r.found = <<>> /\ begin.id # AnyId /\ end.id = AnyId)
          /\ r.nodes = Depth - 1
          /\ r.blocks <= Cardinality(hitPages) + 2 \/ Astray(begin)

\* DiskManager.h:15: a new page is allocated, so no key is lost by that; true
\* of a process that does not insert into a file it reopened.
AllocatingLosesNoKey == [][pageCount' > pageCount => DiskKeys \subseteq DiskKeys']_vars

\* LoadCheck.cpp:40: a reopened file, all of whose splits were ended, can be
\* searched for what was inserted.
ReloadFindsEveryKey == Answers /\ Reloaded /\ SplitsEnded => \A k \in inserted : Search(k) # "missed"

\* insert and opening come to an end, with an answer or with the process.
TreeCallsEnd == pc \notin {"idle", "closed"} ~> pc \in {"idle", "closed"}

\* The file is a set of keys: splits, deaths and reloads change nothing of it.
AllKeys == UNION {{Key(t[n], n) : n \in DOMAIN t} : t \in Tables}
Set == INSTANCE KeySet WITH Keys <- AllKeys, stored <- DiskKeys
ImplementsKeySet == Set!Spec
=============================================================================
