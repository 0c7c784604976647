---------------------------- MODULE WorkflowGraph ----------------------------
(***************************************************************************)
(* Workflow definitions as the walkers read them, and the expressions on    *)
(* their edges.                                                             *)
(*                                                                         *)
(* A definition is a record                                                 *)
(*   nodes  the node identifiers           entry  the entrypoint            *)
(*   type   the type of each node          max    maxIterations             *)
(*   join   joinNode of each node          input  the input expression      *)
(*   timeout  timeoutEdge of each node     edges  the sequence of edges     *)
(*   branches  those of each fork                                           *)
(* and an edge is a record with from, to, when, priority and limit (its own *)
(* maxIterations).                                                          *)
(*                                                                         *)
(* CEL (external: cel-go, and cel-js in the TypeScript library) is reduced  *)
(* to what the walkers tell apart: an expression is true, false, or cannot  *)
(* be evaluated; one that cannot even be parsed is "bad".  Of the workflow  *)
(* context it reads one key, "flag", and of the _loop map the count of one  *)
(* edge.  Reading a key that is not there is an error.                      *)
(***************************************************************************)
EXTENDS Integers, Sequences

CONSTANTS Ids,   \* node identifiers, those of missing nodes included
          None   \* an optional field that is not set

NodeTypes == {"action", "decision", "fork", "gate", "terminal", "workflow"}
Flags == {"unset", "true", "false"}
Kinds == {"always", "flag", "unless", "below", "bad"}

Conditions == [kind : Kinds, pair : Ids \X Ids, bound : Int]
\* Nothing refuses a limit, a maximum or a priority that is negative.
Optional == Int \cup {None}
Edges == [from : Ids, to : Ids, when : Conditions, priority : Int, limit : Optional]
NodeMaps(ids) ==
  [nodes : {ids}, entry : Ids, max : Optional, edges : Seq(Edges),
   type : [ids -> NodeTypes \cup {"other"}], join : [ids -> Ids \cup {None}],
   timeout : [ids -> Ids \cup {None}], input : [ids -> {"none", "flag", "bad"}],
   branches : [ids -> Seq(Ids)]]
IsDefinition(d) == \E ids \in SUBSET Ids : d \in NodeMaps(ids)

------------------------------------------------------------------------------
\* EvaluateCondition on the context and the loop map.
Evaluate(c, flag, loops) ==
  CASE c.kind = "always" -> "true"
    [] c.kind = "flag" -> IF flag = "unset" THEN "error" ELSE flag
    [] c.kind = "unless" -> IF flag = "unset" THEN "error"
                            ELSE IF flag = "true" THEN "false" ELSE "true"
    [] c.kind = "below" -> IF loops[c.pair] = 0 THEN "error"
                           ELSE IF loops[c.pair] < c.bound THEN "true" ELSE "false"
    [] OTHER -> "error"

\* EvaluateInput: the input expression of a node cannot be evaluated.
InputFails(expression, flag) ==
  expression = "bad" \/ (expression = "flag" /\ flag = "unset")

\* The edges that leave n, as positions in the sequence of edges.
OutEdges(d, n) == {i \in DOMAIN d.edges : d.edges[i].from = n}

\* Priority first, then the order of the definition.
Precedes(d, i, j) ==
  \/ d.edges[i].priority < d.edges[j].priority
  \/ d.edges[i].priority = d.edges[j].priority /\ i <= j

\* The edges of n that stop the search for an edge to follow: those whose
\* condition holds, and those whose condition cannot be evaluated.
Stoppers(d, n, flag, loops) ==
  {i \in OutEdges(d, n) : Evaluate(d.edges[i].when, flag, loops) # "false"}

\* The first of a set of edges in the order in which a decision tries them.
Foremost(d, E) == {i \in E : \A j \in E : Precedes(d, i, j)}

\* The edge a node that does not decide goes along: the first of its edges,
\* whatever its condition.
FirstEdge(d, n) == {i \in OutEdges(d, n) : \A j \in OutEdges(d, n) : i <= j}

Pair(d, i) == <<d.edges[i].from, d.edges[i].to>>
==============================================================================
