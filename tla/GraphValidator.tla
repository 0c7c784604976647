---------------------------- MODULE GraphValidator ----------------------------
(***************************************************************************)
(* How validateWorkflowGraph comes to its verdict.  The two breadth-first   *)
(* searches of graph/validator.ts, the one for orphans and isReachable for  *)
(* the joinNode of each branch, are the same loop over a queue and a set of *)
(* visited nodes; the second stops when it meets its target.  A search is   *)
(* modelled one turn of the loop at a time.                                 *)
(*                                                                         *)
(* Neighbours join the queue in any order, and branches are checked in any  *)
(* order: neither changes the verdict.                                      *)
(***************************************************************************)
EXTENDS Validation, FiniteSets

CONSTANT Definitions

ASSUME DefinitionAssumption ==
  \A d \in Definitions : IsDefinition(d) /\ IsFiniteSet(d.nodes)
ASSUME NoneAssumption == None \notin Ids

VARIABLES
  graph,    \* the definition that is validated
  phase,    \* "start", "searching", "between" searches, or "done"
  valid,    \* no error so far
  source,   \* where the search began
  target,   \* the node it looks for, None to visit them all
  queue,
  visited,
  todo      \* the branches whose joinNode has not been looked for yet

vars == <<graph, phase, valid, source, target, queue, visited, todo>>

ValidatorTypeOK ==
  /\ graph \in Definitions
  /\ phase \in {"start", "searching", "between", "done"}
  /\ valid \in BOOLEAN
  /\ source \in Ids
  /\ target \in Ids \cup {None}
  /\ queue \in Seq(graph.nodes)
  /\ visited \in SUBSET graph.nodes
  /\ todo \in SUBSET (graph.nodes \X graph.nodes)

Init ==
  /\ graph \in Definitions
  /\ phase = "start"
  /\ valid = TRUE
  /\ source = graph.entry
  /\ target = None
  /\ queue = << >>
  /\ visited = {}
  /\ todo = {}

Search(from, to) ==
  /\ phase' = "searching"
  /\ source' = from
  /\ target' = to
  /\ queue' = <<from>>
  /\ visited' = {}

\* Mutant: what the parts refer to is not looked at.
CheckSchemaOnly ==
  /\ phase = "start"
  /\ IF SchemaOK(graph)
     THEN Search(graph.entry, None) /\ UNCHANGED valid
     ELSE /\ valid' = FALSE
          /\ phase' = "done"
          /\ UNCHANGED <<source, target, queue, visited>>
  /\ UNCHANGED <<graph, todo>>

\* An error of the schema or of what the parts refer to ends the validation,
\* else the search for orphans begins.
CheckWiring ==
  /\ phase = "start"
  /\ IF SchemaOK(graph) /\ Wired(graph)
     THEN Search(graph.entry, None) /\ UNCHANGED valid
     ELSE /\ valid' = FALSE
          /\ phase' = "done"
          /\ UNCHANGED <<source, target, queue, visited>>
  /\ UNCHANGED <<graph, todo>>

\* The ways to list a set.
Orders(S) == {s \in [1..Cardinality(S) -> S] : Range(s) = S}

\* Mutant: the neighbours of a node that was visited before are not queued, and
\* the node at hand counts as visited before.
VisitMarked ==
  /\ phase = "searching" /\ queue # << >> /\ Head(queue) # target
  /\ visited' = visited \cup {Head(queue)}
  /\ IF Head(queue) \in visited'
     THEN queue' = Tail(queue)
     ELSE \E next \in Orders(Neighbours(graph, Head(queue)) \ visited') :
            queue' = Tail(queue) \o next
  /\ UNCHANGED <<graph, phase, valid, source, target, todo>>

\* Mutant: a node is visited as often as it is queued.
VisitAgain ==
  /\ phase = "searching" /\ queue # << >> /\ Head(queue) # target
  /\ visited' = visited \cup {Head(queue)}
  /\ \E next \in Orders(Neighbours(graph, Head(queue))) : queue' = Tail(queue) \o next
  /\ UNCHANGED <<graph, phase, valid, source, target, todo>>

Visit ==
  /\ phase = "searching" /\ queue # << >> /\ Head(queue) # target
  /\ visited' = visited \cup {Head(queue)}
  /\ IF Head(queue) \in visited
     THEN queue' = Tail(queue)
     ELSE \E next \in Orders(Neighbours(graph, Head(queue)) \ visited') :
            queue' = Tail(queue) \o next
  /\ UNCHANGED <<graph, phase, valid, source, target, todo>>

\* The joinNode is met.
Meet ==
  /\ phase = "searching" /\ queue # << >> /\ Head(queue) = target
  /\ phase' = "between"
  /\ UNCHANGED <<graph, valid, source, target, queue, visited, todo>>

\* The search for orphans is over; its errors and those of the degrees do not
\* keep the joinNodes from being looked for.
EndOrphans ==
  /\ phase = "searching" /\ queue = << >> /\ target = None
  /\ valid' = (graph.nodes \subseteq visited /\ \A n \in graph.nodes : DegreeOK(graph, n))
  /\ todo' = {p \in Branches(graph) : graph.join[p[1]] # None}
  /\ phase' = "between"
  /\ UNCHANGED <<graph, source, target, queue, visited>>

\* A joinNode was not met.
Miss ==
  /\ phase = "searching" /\ queue = << >> /\ target # None
  /\ valid' = FALSE
  /\ phase' = "between"
  /\ UNCHANGED <<graph, source, target, queue, visited, todo>>

CheckBranch ==
  /\ phase = "between"
  /\ \E p \in todo :
       /\ todo' = todo \ {p}
       /\ Search(p[2], graph.join[p[1]])
  /\ UNCHANGED <<graph, valid>>

\* The expressions are looked at only if the graph is sound.
CheckCel ==
  /\ phase = "between" /\ todo = {}
  /\ valid' = (valid /\ CelOK(graph))
  /\ phase' = "done"
  /\ UNCHANGED <<graph, source, target, queue, visited, todo>>

Next == CheckWiring \/ Visit \/ Meet \/ EndOrphans \/ Miss \/ CheckBranch \/ CheckCel

\* The validator is one synchronous call.
Spec == Init /\ [][Next]_vars
FairSpec == Spec /\ WF_vars(Next)

------------------------------------------------------------------------------
\* The validator accepts exactly the definitions that are valid: its searches
\* find what can be reached, and no error is lost from one check to the next.
VerdictRight == phase = "done" => (valid <=> Valid(graph))

\* How far the validation is: the search for orphans comes before the joinNodes.
Stage == CASE phase = "start" -> 0
           [] phase = "searching" /\ target = None -> 1
           [] phase = "done" -> 3
           [] OTHER -> 2

\* Every step gets nearer to the verdict, although a search queues nodes that it
\* has visited already and each branch starts a search anew: to a later stage, or
\* with fewer branches to do, out of a search, to a node not visited before, or
\* over one of those queued again.
Advances ==
  [][\/ Stage' > Stage
     \/ /\ Stage' = Stage
        /\ \/ todo' \subseteq todo /\ todo' # todo
           \/ UNCHANGED todo /\ phase = "searching" /\ phase' = "between"
           \/ UNCHANGED <<todo, phase, source, target>> /\ visited \subseteq visited' /\ visited' # visited
           \/ UNCHANGED <<todo, phase, source, target, visited>> /\ Len(queue') < Len(queue)]_vars

\* The searches end, whatever cycles the graph has.
Terminates == <>(phase = "done")
==============================================================================
