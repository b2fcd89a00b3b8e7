---------------------------- MODULE MCPipeSyntax ----------------------------
(* Every plan of a few nodes, as EXPLAIN may build it.                     *)
EXTENDS PipeSyntax

CONSTANT MaxNodes

Kids(up, i) == {j \in DOMAIN up : up[j] = i}

\* A set of nodes in order.
InOrder(S) == LET in(j) == j \in S IN SelectSeq([j \in 1..MaxNodes + 2 |-> j], in)

\* Trees, numbered level by level: the parent of each node from the second on.
Trees(n) == {up \in [2..n -> 1..n - 1] :
               \A i \in 2..n : up[i] < i /\ (i > 2 => up[i - 1] <= up[i])}

\* What each node is to its parent: InitPlans are listed first, SubPlans last.
Place3 == [InitPlan |-> 1, Outer |-> 2, SubPlan |-> 3]
Relations(up) == {rel \in [DOMAIN up -> DOMAIN Place3] :
                    \A i, j \in DOMAIN up :
                      i < j /\ up[i] = up[j] => Place3[rel[i]] <= Place3[rel[j]]}
Inputs(up, rel, i) == {j \in Kids(up, i) : rel[j] = "Outer"}

TypesFor(inputs) ==
  CASE inputs = 0 -> {"Seq Scan", "CTE Scan"}
    [] inputs = 1 -> {"Aggregate", "Sort", "Limit", "Hash"}
    [] inputs = 2 -> {"Join"}
    [] OTHER      -> {}

KeysOf(type) ==
  CASE type = "Seq Scan"  -> {"Filter"}
    [] type = "CTE Scan"  -> {"Filter"}
    [] type = "Join"      -> {"Hash Cond", "Join Filter"}
    [] type = "Aggregate" -> {"Filter"}
    [] OTHER              -> {}

\* A node refers to its SubPlans in its filter, or to each in a column.
NodeOf(up, rel, types, inFilter, i) ==
  LET subs == InOrder({j \in Kids(up, i) : rel[j] = "SubPlan"})
      refs == [k \in DOMAIN subs |-> Raw(subs[k])]
      kept == inFilter /\ KeysOf(types[i]) # {}
  IN  [type     |-> types[i],
       relation |-> types[i] = "Seq Scan",
       parent   |-> IF i = 1 THEN "" ELSE rel[i],
       kids     |-> InOrder(Kids(up, i)),
       alias    |-> IF Inputs(up, rel, i) = {} THEN i ELSE NoAlias,
       output   |-> IF kept THEN <<>> ELSE [k \in DOMAIN refs |-> <<refs[k]>>],
       on       |-> <<>>,
       filters  |-> <<>>,
       conds    |-> [k \in KeysOf(types[i]) |->
                       <<<<"cond", i, k>>>> \o
                         (IF kept /\ k \in {"Filter", "Join Filter"} THEN refs ELSE <<>>)]]

\* All choices of one member of each of the sets.
Selections(sets) ==
  LET choices[k \in 0..Len(sets)] ==
        IF k = 0 THEN {<<>>} ELSE {Append(c, t) : c \in choices[k - 1], t \in sets[k]}
  IN  choices[Len(sets)]

\* The plans of n nodes of the given types.
PlansOf(n, allowed) ==
  UNION {UNION {
    {[i \in 1..n |-> NodeOf(up, rel, types, inFilter, i)] :
       types \in Selections([i \in 1..n |-> allowed \cap TypesFor(Cardinality(Inputs(up, rel, i)))]),
       inFilter \in BOOLEAN} : rel \in Relations(up)} : up \in Trees(n)}

MCPlans ==
  UNION {PlansOf(n, {"Seq Scan", "CTE Scan", "Aggregate", "Sort", "Limit", "Hash", "Join"}) : n \in 1..MaxNodes}
    \cup PlansOf(MaxNodes + 1, {"Seq Scan", "Sort", "Join"})
    \cup PlansOf(MaxNodes + 2, {"Seq Scan", "Join"})
=============================================================================
