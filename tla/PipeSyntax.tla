----------------------------- MODULE PipeSyntax -----------------------------
(***************************************************************************)
(* project2 (preprocessing.py, pipesyntax.py): a query plan, as EXPLAIN    *)
(* returns it, is transformed node by node, aliases move up, subplans are  *)
(* registered from the top down, and pipe SQL is generated from the rest.  *)
(*                                                                         *)
(* The nodes of a plan are numbered from the top, 1, downwards; a node     *)
(* that is a subplan is also that subplan's name.  An expression is the    *)
(* sequence of its references to SubPlans, a condition one that is named   *)
(* first; a node's output is a sequence of columns, each an expression.    *)
(* SQL is the sequence of its statements, conditions, references           *)
(* and aliases, each a tuple that starts with what it is.  Costs, layout   *)
(* and the ORDER BY of index scans are left out.                           *)
(***************************************************************************)
EXTENDS Integers, Sequences, FiniteSets, SequencesExt, FiniteSetsExt

CONSTANT Plans   \* the plans that EXPLAIN may return

VARIABLES
  pc,        \* "explained", "transformed", "registering" or "done"
  plan,      \* the plan, changed in place
  todo,      \* nodes that register_subplan has still to visit, in order
  subplans,  \* the SQL of each SubPlan, of each InitPlan, by name
  withs,     \* the names of the InitPlans in the order they were registered
  sql        \* the SQL that is returned

vars == <<pc, plan, todo, subplans, withs, sql>>

Nodes      == DOMAIN plan
IsSub(n)   == plan[n].parent \in {"InitPlan", "SubPlan"}
NoAlias    == 0

Init ==
  /\ pc = "explained" /\ plan \in Plans
  /\ todo = <<>> /\ subplans = <<>> /\ withs = <<>> /\ sql = <<>>

-----------------------------------------------------------------------------
(* preprocessing.py                                                        *)

FilterKeys == <<"Index Cond", "Recheck Cond", "Filter", "Join Filter">>
JoinOnKeys == <<"Hash Cond", "Merge Cond">>

\* A reference in the plan, and one that DialectTransformer has quoted.
Raw(s)    == <<"raw", s>>
Quoted(s) == <<"quoted", s>>
Rewrite(expr) ==
  [i \in DOMAIN expr |-> IF expr[i][1] = "raw" THEN Quoted(expr[i][2]) ELSE expr[i]]

Dialect(node) ==
  [node EXCEPT !.output = [i \in DOMAIN @ |-> Rewrite(@[i])],
               !.conds  = [k \in DOMAIN @ |-> Rewrite(@[k])]]

\* CTETransformer: a CTE scan scans a relation.
CTE(node) == [node EXCEPT !.relation = @ \/ node.type = "CTE Scan"]

Conditions(node, keys) ==
  LET has(k) == k \in DOMAIN node.conds
  IN  [i \in DOMAIN SelectSeq(keys, has) |-> node.conds[SelectSeq(keys, has)[i]]]

\* JoinKeyTransformer: the first of the keys that the join has.
JoinKey(node) ==
  LET on == Conditions(node, JoinOnKeys)
  IN  IF node.type = "Join" /\ on # <<>> THEN [node EXCEPT !.on = Head(on)] ELSE node

Filter(node) == [node EXCEPT !.filters = Conditions(node, FilterKeys)]

\* Mutant: the conditions are copied before they are rewritten.
FilterFirst(node) == JoinKey(CTE(Dialect(Filter(node))))

Transformed(node) == Filter(JoinKey(CTE(Dialect(node))))

Transform ==
  /\ pc = "explained"
  /\ plan' = [n \in Nodes |-> Transformed(plan[n])]
  /\ pc' = "transformed"
  /\ UNCHANGED <<todo, subplans, withs, sql>>

\* Mutant: an alias moves up from the first child that has one.
AliasFromAny(own, below) ==
  IF own = NoAlias /\ below # <<>> THEN Head(below) ELSE own

\* pushup_aliases: the alias of a node without one whose children, subplans
\* counted, have one between them.
AliasFrom(own, below) ==
  IF own = NoAlias /\ Len(below) = 1 THEN Head(below) ELSE own

PushUpAliases ==
  LET named(a) == a # NoAlias
      alias[n \in Nodes] ==
        LET kids == plan[n].kids
        IN  AliasFrom(plan[n].alias, SelectSeq([i \in DOMAIN kids |-> alias[kids[i]]], named))
  IN  /\ pc = "transformed"
      /\ plan' = [n \in Nodes |-> [plan[n] EXCEPT !.alias = alias[n]]]
      /\ pc' = "registering" /\ todo' = <<1>>
      /\ UNCHANGED <<subplans, withs, sql>>

-----------------------------------------------------------------------------
(* pipesyntax.py                                                           *)

\* resolve_subplan: the first quoted reference decides for all of them.
Resolve(expr) ==
  LET quoted(t) == t[1] = "quoted"
      first     == SelectSeq(expr, quoted)[1][2]
  IN  IF SelectSeq(expr, quoted) # <<>> /\ first \in DOMAIN subplans
      THEN FlattenSeq([i \in DOMAIN expr |->
                         IF quoted(expr[i]) THEN subplans[first] ELSE <<expr[i]>>])
      ELSE expr

\* The expressions of a list, each resolved by itself.
ResolveAll(exprs) == FlattenSeq([i \in DOMAIN exprs |-> Resolve(exprs[i])])

GenFilters(node) ==
  IF node.filters = <<>> THEN <<>> ELSE <<<<"WHERE">>>> \o ResolveAll(node.filters)

Alias(n) == IF plan[n].alias = NoAlias THEN <<>> ELSE <<<<"AS", plan[n].alias>>>>

\* Mutant: the operands change sides.
JoinedBackwards(n, operands) ==
  operands[2] \o Alias(plan[n].kids[2]) \o <<<<"JOIN", n>>>>
    \o operands[1] \o Alias(plan[n].kids[1])

\* gen_join: the first two children are the operands, whatever they are.
Joined(n, operands) ==
  operands[1] \o Alias(plan[n].kids[1]) \o <<<<"JOIN", n>>>>
    \o operands[2] \o Alias(plan[n].kids[2])

\* The SQL of a node from the SQL of its children, by the first of the tests
\* in generate that the node passes.
Statements(n, operands) ==
  LET node   == plan[n]
      input  == FlattenSeq(operands)
      filter == GenFilters(node)
      select == <<<<"SELECT", n>>>> \o ResolveAll(node.output)
  IN  CASE node.relation -> input \o <<<<"FROM", n>>>> \o filter \o select
        [] node.type = "Aggregate" -> input \o <<<<"AGGREGATE", n>>>> \o FlattenSeq(node.output) \o filter
        [] node.type = "Sort"  -> input \o filter \o select \o <<<<"ORDER", n>>>>
        [] node.type = "Join"  ->
             Joined(n, operands) \o Resolve(node.on) \o filter \o select
        [] node.type = "Limit" -> input \o <<<<"LIMIT", n>>>> \o select
        [] OTHER -> input

\* generate for the node n, whatever it is to its parent; subplans below it
\* give nothing.
Generate(n) ==
  LET gen[m \in Nodes] ==
        LET kids == plan[m].kids
        IN  Statements(m, [i \in DOMAIN kids |-> IF IsSub(kids[i]) THEN <<>> ELSE gen[kids[i]]])
  IN  gen[n]

\* Mutant: subplans of subplans are not registered.
VisitMainOnly ==
  IF IsSub(Head(todo)) THEN Tail(todo) ELSE plan[Head(todo)].kids \o Tail(todo)

Visit == plan[Head(todo)].kids \o Tail(todo)

\* register_subplan: a node, then its children in order.  The SQL of a subplan
\* ends with its columns once more.
Register ==
  /\ pc = "registering" /\ todo # <<>>
  /\ LET n == Head(todo)
         text == Generate(n) \o <<<<"SELECT", n>>>> \o ResolveAll(plan[n].output)
     IN  /\ subplans' = IF IsSub(n)
                        THEN [m \in DOMAIN subplans \cup {n} |-> IF m = n THEN text ELSE subplans[m]]
                        ELSE subplans
         /\ withs' = IF plan[n].parent = "InitPlan" THEN Append(withs, n) ELSE withs
  /\ todo' = Visit
  /\ UNCHANGED <<pc, plan, sql>>

\* gen_initplans, then the plan itself.
GenerateAll ==
  /\ pc = "registering" /\ todo = <<>>
  /\ sql' = FlattenSeq([i \in DOMAIN withs |-> <<<<"WITH", withs[i]>>>> \o subplans[withs[i]]])
              \o Generate(1)
  /\ pc' = "done"
  /\ UNCHANGED <<plan, todo, subplans, withs>>

Next == Transform \/ PushUpAliases \/ Register \/ GenerateAll

Spec == Init /\ [][Next]_vars

-----------------------------------------------------------------------------
(* Properties                                                              *)

Done == pc = "done"

ParentOf(n) == CHOOSE m \in Nodes : n \in ToSet(plan[m].kids)

\* The nodes that n reads: those below it and not in a subplan of it.
Reads ==
  LET reads[n \in Nodes] ==
        UNION {{m} \cup reads[m] : m \in {k \in ToSet(plan[n].kids) : ~IsSub(k)}}
  IN  reads

\* The subplan that a node is in, 0 in the main query.
Home(n) == IF n = 1 \/ n \in Reads[1] THEN 0
           ELSE CHOOSE s \in Nodes : IsSub(s) /\ n \in {s} \cup Reads[s]

HeadOf(n) ==
  CASE plan[n].relation                -> <<"FROM", n>>
    [] plan[n].type = "Aggregate"      -> <<"AGGREGATE", n>>
    [] plan[n].type = "Sort"           -> <<"ORDER", n>>
    [] plan[n].type = "Join"           -> <<"JOIN", n>>
    [] plan[n].type = "Limit"          -> <<"LIMIT", n>>
    [] OTHER                           -> <<"none">>
Stated     == {n \in Nodes : HeadOf(n) # <<"none">>}
Places(t)  == {i \in DOMAIN sql : sql[i] = t}
Place(t)   == CHOOSE i \in Places(t) : TRUE

\* No join owns an InitPlan, which would be listed before its operands.
PlainJoins ==
  \A n \in Nodes : plan[n].type = "Join" => plan[plan[n].kids[1]].parent # "InitPlan"

\* The expressions of a node in which references are resolved; elsewhere they
\* stay, and of two in one expression both become the first.
Resolved(n) ==
  (IF plan[n].type = "Limit" THEN {} ELSE ToSet(plan[n].filters) \cup {plan[n].on})
    \cup (IF plan[n].type = "Aggregate" THEN {} ELSE ToSet(plan[n].output))
Referring(n, s) == {e \in Resolved(n) : Quoted(s) \in ToSet(e)}
OneReferenceEach ==
  \A n \in Nodes :
    \A e \in {plan[n].on} \cup ToSet(plan[n].output) \cup ToSet(plan[n].filters) :
      Cardinality({i \in DOMAIN e : e[i][1] \in {"raw", "quoted"}}) <= 1

\* Each node of the main query and of an InitPlan is stated once, however deep
\* it is and whatever is between.  A SubPlan of the main query stands where it
\* is referred to; one inside another subplan is nowhere, because the other one
\* is generated before it is registered.
EachNodeOnce ==
  Done /\ PlainJoins /\ OneReferenceEach =>
    \A n \in Stated :
      LET s == Home(n)
          owner == ParentOf(s)
      IN  Cardinality(Places(HeadOf(n))) =
            IF s = 0 \/ plan[s].parent = "InitPlan" THEN 1
            ELSE IF Home(owner) = 0 /\ owner \in Stated
                 THEN Cardinality(Referring(owner, s)) ELSE 0

\* The SQL is a pipe: what a node reads comes before its statement, or for the
\* second operand of a join between JOIN and the join's columns; WITH entries
\* come before the query.
InputsComeFirst ==
  Done /\ PlainJoins =>
    \A n \in Stated : Home(n) = 0 =>
      /\ \A m \in Reads[n] \cap Stated :
           IF plan[n].type = "Join" /\ m \in {plan[n].kids[2]} \cup Reads[plan[n].kids[2]]
           THEN Place(HeadOf(n)) < Place(HeadOf(m)) /\ Place(HeadOf(m)) < Place(<<"SELECT", n>>)
           ELSE Place(HeadOf(m)) < Place(HeadOf(n))
      /\ \A s \in ToSet(withs) : Place(<<"WITH", s>>) < Place(HeadOf(n))

\* Every condition of the main query is in its SQL once, behind the statement
\* of its node, with its references quoted; but a Limit and a node that is not
\* known have none, and theirs would be lost.
ConditionsKept ==
  Done /\ PlainJoins =>
    /\ \A n \in Stated : Home(n) = 0 => \A k \in DOMAIN plan[n].conds :
         /\ Cardinality(Places(<<"cond", n, k>>)) = 1
         /\ plan[n].type # "Sort" => Place(HeadOf(n)) < Place(<<"cond", n, k>>)
    /\ \A i \in DOMAIN sql : sql[i][1] # "raw"

\* An operand of a join gets the name of the table it reads, and none when it
\* reads two.  (Of three it may get the name of one; a subplan below it may
\* take the name away or give it its own.)
Tables(n) == {m \in {n} \cup Reads[n] : plan[m].relation}
OperandsAreNamed ==
  Done /\ (\A n \in Nodes : ~IsSub(n)) =>
    LET operands == UNION {ToSet(plan[n].kids) : n \in {j \in Nodes : plan[j].type = "Join"}}
    IN  (\A m \in operands : Cardinality(Tables(m)) <= 2) =>
          \A t \in Tables(1) : Cardinality(Places(<<"AS", t>>)) =
                               Cardinality({m \in operands : Tables(m) = {t}})

\* pipesyntax.py:258 "Ignoring {n} operands, assuming Subplan.": what a join
\* reads and is not in the SQL is a subplan.
IgnoredOperandsAreSubplans ==
  Done => \A n \in Nodes : plan[n].type = "Join" /\ Home(n) = 0 =>
    \A m \in ToSet(plan[n].kids) :
      IsSub(m) \/ \E t \in ({m} \cup Reads[m]) \cap Stated : Places(HeadOf(t)) # {}
=============================================================================
