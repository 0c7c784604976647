------------------------------ MODULE Validation ------------------------------
(***************************************************************************)
(* What the TypeScript library accepts as a workflow definition: the three  *)
(* layers of validateWorkflowGraph, each looked at only if the one before   *)
(* it found nothing.  Reachability is defined here by what it means;        *)
(* GraphValidator models how the code computes it.                          *)
(*                                                                         *)
(* Node identifiers are unique by the form of a definition, and handlers    *)
(* and workflowRefs, which must be there too, are left out.                 *)
(***************************************************************************)
EXTENDS WorkflowGraph, Functions

OfType(d, type) == {n \in d.nodes : d.type[n] = type}

\* Adjacency: edges, the branches of a fork and the timeoutEdge of a gate.  The
\* joinNode of a fork is not among them.
Neighbours(d, n) ==
  {d.edges[i].to : i \in OutEdges(d, n)}
    \cup (IF d.type[n] = "fork" THEN Range(d.branches[n]) ELSE {})
    \cup (IF d.type[n] = "gate" THEN {d.timeout[n]} \ {None} ELSE {})

Closed(d, S) == \A n \in S : Neighbours(d, n) \subseteq S

\* The nodes that can be reached: those in every closed set around from.
Reach(d, from) ==
  {m \in d.nodes : \A S \in SUBSET d.nodes : from \in S /\ Closed(d, S) => m \in S}

------------------------------------------------------------------------------
(* validateSchema *)

\* Mutant: a fork needs no joinNode.
SchemaWithoutJoin(d) ==
  /\ d.nodes # {}
  /\ \A n \in d.nodes : d.type[n] \in NodeTypes
  /\ \A n \in OfType(d, "fork") : d.branches[n] # << >>

SchemaOK(d) ==
  /\ d.nodes # {}
  /\ \A n \in d.nodes : d.type[n] \in NodeTypes
  /\ \A n \in OfType(d, "fork") : d.branches[n] # << >> /\ d.join[n] # None

(* validateGraph: first what the edges, branches and fields refer to. *)

ForksWired(d) == \A n \in OfType(d, "fork") :
  /\ Range(d.branches[n]) \subseteq d.nodes
  /\ IsInjective(d.branches[n])
  /\ d.join[n] \in d.nodes \cup {None}

EdgesWired(d) == \A i \in DOMAIN d.edges : d.edges[i].from \in d.nodes /\ d.edges[i].to \in d.nodes

TimeoutsWired(d) == \A n \in OfType(d, "gate") : d.timeout[n] \in d.nodes \cup {None}

Wired(d) == d.entry \in d.nodes /\ ForksWired(d) /\ EdgesWired(d) /\ TimeoutsWired(d)

(* Then how many edges leave each node, and what can be reached. *)

NoOrphans(d) == d.nodes \subseteq Reach(d, d.entry)

\* Mutant: a decision needs no edge.
DegreeLoose(d, n) ==
  CASE d.type[n] = "terminal" -> OutEdges(d, n) = {}
    [] d.type[n] \in {"decision", "fork"} -> TRUE
    [] OTHER -> \E i \in OutEdges(d, n) : OutEdges(d, n) = {i}

\* How many edges a fork has is not looked at.
DegreeOK(d, n) ==
  CASE d.type[n] = "terminal" -> OutEdges(d, n) = {}
    [] d.type[n] = "decision" -> OutEdges(d, n) # {}
    [] d.type[n] = "fork" -> TRUE
    [] OTHER -> \E i \in OutEdges(d, n) : OutEdges(d, n) = {i}

\* The branches of the forks, as pairs of a fork and a branch.
Branches(d) == {p \in OfType(d, "fork") \X d.nodes : p[2] \in Range(d.branches[p[1]])}

JoinsReached(d) == \A p \in Branches(d) :
  d.join[p[1]] # None => d.join[p[1]] \in Reach(d, p[2])

ValidGraph(d) ==
  /\ Wired(d)
  /\ NoOrphans(d)
  /\ \A n \in d.nodes : DegreeOK(d, n)
  /\ JoinsReached(d)

(* validateCelExpressions: every expression can be parsed. *)
CelOK(d) ==
  /\ \A n \in d.nodes : d.input[n] # "bad"
  /\ \A i \in DOMAIN d.edges : d.edges[i].when.kind # "bad"

(* validateWorkflowGraph *)
Valid(d) == SchemaOK(d) /\ ValidGraph(d) /\ CelOK(d)
==============================================================================
