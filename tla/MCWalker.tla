------------------------------- MODULE MCWalker -------------------------------
(***************************************************************************)
(* Workflow definitions for the walker runs.  Every definition of three     *)
(* nodes and up to three edges is enumerated for the run with a host that   *)
(* keeps to the protocol.  A handful of definitions with every node type,   *)
(* with parallel edges, priorities, loop conditions, bad expressions and    *)
(* missing nodes joins it, and is run with any host too.  Each divergence   *)
(* from the documents has a definition of its own.                          *)
(***************************************************************************)
EXTENDS Walker, SequencesExt, FiniteSetsExt

CONSTANTS a, b, c, gone
Nodes == {a, b, c}

Plain == [kind |-> "always", pair |-> <<a, a>>, bound |-> 0]
When(kind) == [Plain EXCEPT !.kind = kind]
Below(from, to, n) == [kind |-> "below", pair |-> <<from, to>>, bound |-> n]
Edge(from, to, when, priority, limit) ==
  [from |-> from, to |-> to, when |-> when, priority |-> priority, limit |-> limit]

Def(type, edges, max) ==
  [nodes |-> DOMAIN type, entry |-> a, max |-> max, edges |-> edges, type |-> type,
   join |-> [n \in DOMAIN type |-> None], timeout |-> [n \in DOMAIN type |-> None],
   input |-> [n \in DOMAIN type |-> "none"], branches |-> [n \in DOMAIN type |-> << >>]]
Types(x, y, z) == [n \in Nodes |-> IF n = a THEN x ELSE IF n = b THEN y ELSE z]

\* Every definition of three nodes with these types and up to three edges: a
\* conditional edge may be followed once, an unconditional one as often as
\* maxIterations says.
Graphs(types, edgeCount) ==
  {Def(type, [k \in 1..Cardinality(S) |->
                LET e == SetToSeq(S)[k]
                IN IF e \in T THEN Edge(e[1], e[2], When("flag"), 0, 1)
                              ELSE Edge(e[1], e[2], Plain, 0, None)], 3) :
   type \in [Nodes -> types],
   <<S, T>> \in UNION {{R} \X SUBSET R : R \in UNION {kSubset(k, Nodes \X Nodes) : k \in 0..edgeCount}}}
MCGraphs == Graphs({"action", "decision", "terminal"}, 3)

\* Parallel edges of different limits and priorities, that share a counter.
Parallel == Def(Types("decision", "action", "terminal"),
  << Edge(a, b, When("flag"), 1, 2), Edge(a, b, Plain, 2, 1),
     Edge(b, a, Plain, 0, None), Edge(a, c, When("unless"), 0, 1) >>, 3)
\* A fork with and one without a joinNode, and a gate.
Forks == [Def(Types("fork", "gate", "fork"),
  << Edge(a, b, Plain, 0, None), Edge(b, c, Plain, 0, None), Edge(c, a, Plain, 0, None) >>, 2)
  EXCEPT !.join = [n \in Nodes |-> IF n = a THEN b ELSE None],
         !.timeout = [n \in Nodes |-> IF n = b THEN c ELSE None]]
\* An entrypoint of type terminal, a loop condition, an edge to a missing node.
Loops == Def(Types("terminal", "decision", "workflow"),
  << Edge(a, b, Plain, 0, None), Edge(b, c, Plain, 1, 2),
     Edge(b, gone, Below(b, c, 2), 2, None), Edge(c, b, Plain, 0, None) >>, 3)
\* Inputs that cannot be evaluated, an unknown type, a malformed condition.
Faulty == [Def(Types("decision", "action", "other"),
  << Edge(a, b, When("flag"), 0, None), Edge(a, c, When("unless"), 0, None),
     Edge(b, a, Plain, 0, None), Edge(a, a, When("bad"), 1, None) >>, 2)
  EXCEPT !.input = [n \in Nodes |-> IF n = b THEN "flag" ELSE "none"]]
\* A valid fork whose branch is a gate.
Branching == [Def(Types("fork", "gate", "terminal"), << Edge(b, c, Plain, 0, None) >>, 2)
  EXCEPT !.branches = [n \in Nodes |-> IF n = a THEN <<b>> ELSE << >>],
         !.join = [n \in Nodes |-> IF n = a THEN c ELSE None],
         !.timeout = [n \in Nodes |-> IF n = b THEN a ELSE None]]
\* A node with a joinNode, a missing one, that is not a fork: neither the
\* validator nor the walker looks at it.
Strange == [Def(Types("action", "decision", "terminal"),
  << Edge(a, b, Plain, 0, None), Edge(b, a, Plain, 1, 2), Edge(b, c, When("flag"), 0, None) >>, 3)
  EXCEPT !.join = [n \in Nodes |-> IF n = a THEN gone ELSE None]]

\* Limits and a priority below 0.
Negative(max) == Def(Types("decision", "action", "terminal"),
  << Edge(a, b, Plain, 0, -1), Edge(a, c, When("flag"), -1, None), Edge(b, a, Plain, 0, -1) >>, max)

MCCurated == {Parallel, Forks, Loops, Faulty, Branching, Strange, Negative(-1), Negative(2)}
MCAll == MCGraphs \cup MCCurated

\* A host that goes on after a failure makes the loop guard count for ever.
CountsBounded == \A p \in Ids \X Ids : counts[p] <= 4

\* The demo workflow of the seed migration, which sets no maxIterations.
Seed == {Def(Types("action", "action", "action"),
  << Edge(a, b, Plain, 0, None), Edge(b, c, Plain, 0, None) >>, None)}
\* An action whose back-edge may be followed once.
Retry == {Def(Types("action", "action", "terminal"),
  << Edge(a, b, Plain, 0, None), Edge(b, a, Plain, 0, 1) >>, 3)}
\* A gate with a timeoutEdge.
Gated == {Forks}
\* The loop of the document's example: back from review to generate while the
\* back-edge was followed less than three times, else on.
Review == {Def(Types("action", "decision", "terminal"),
  << Edge(a, b, Plain, 0, None), Edge(b, a, Below(b, a, 3), 0, None), Edge(b, c, Plain, 1, None) >>, 9)}
==============================================================================
