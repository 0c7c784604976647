---------------------------- MODULE MCWalkerParity ----------------------------
(***************************************************************************)
(* Definitions for the two walkers: every definition of three nodes and two *)
(* edges that leave the first two, forks with every joinNode and gates with *)
(* and without a timeoutEdge, and curated ones: parallel edges, limits of   *)
(* 0 and below, conditions on loop counts, expressions that cannot be       *)
(* evaluated.                                                               *)
(***************************************************************************)
EXTENDS WalkerParity, SequencesExt, FiniteSetsExt

CONSTANTS a, b, c, gone
Nodes == {a, b, c}

Plain == [kind |-> "always", pair |-> <<a, a>>, bound |-> 0]
When(kind) == [Plain EXCEPT !.kind = kind]
Below(from, to, n) == [kind |-> "below", pair |-> <<from, to>>, bound |-> n]
Edge(from, to, when, priority, limit) ==
  [from |-> from, to |-> to, when |-> when, priority |-> priority, limit |-> limit]
Of(x, y, z) == [n \in Nodes |-> IF n = a THEN x ELSE IF n = b THEN y ELSE z]
Def(type, edges, max) ==
  [nodes |-> Nodes, entry |-> a, max |-> max, edges |-> edges, type |-> type,
   join |-> Of(None, None, None), timeout |-> Of(None, None, None),
   input |-> Of("none", "none", "none"), branches |-> Of(<< >>, << >>, << >>)]

\* Up to two edges from two nodes; a conditional one may be followed once.
Pairs == UNION {kSubset(k, {a, b} \X Nodes) : k \in 0..2}
TwoEdges ==
  {Def(Of(x, y, "terminal"),
       SetToSeq({IF e \in T THEN Edge(e[1], e[2], When("flag"), 0, 1)
                 ELSE Edge(e[1], e[2], Plain, 0, None) : e \in S}), 2) :
   x \in {"action", "decision"}, y \in {"action", "decision", "terminal"},
   <<S, T>> \in UNION {{R} \X SUBSET R : R \in Pairs}}

\* A fork, a gate and a node after them.
ForksAndGates ==
  {[Def(Of("fork", "gate", t), e, 1) EXCEPT
      !.branches = Of(br, << >>, << >>), !.join = Of(j, None, None), !.timeout = Of(None, to, None)] :
   t \in {"terminal", "action"}, br \in {<<c, b>>},
   j \in {b, c, gone, None}, to \in {None, a, b},
   e \in {<< Edge(b, n, Plain, 0, None), Edge(c, m, When("flag"), 0, None) >> : n \in Nodes, m \in {a, b}}
         \cup {<< Edge(b, n, Plain, 0, 0) >> : n \in Nodes}}

\* Parallel edges of different limits and priorities, that share a counter.
Parallel(limit) == Def(Of("decision", "action", "terminal"),
  << Edge(a, b, When("flag"), 1, 2), Edge(a, b, Plain, 2, limit),
     Edge(b, a, Plain, 0, None), Edge(a, c, When("unless"), 0, 1) >>, 3)
\* The loop of the design document, by the count of the back-edge that leaves
\* the action or that leaves the decision.
Review(from, to, n) == Def(Of("action", "decision", "terminal"),
  << Edge(a, b, Plain, 0, None), Edge(b, a, Below(from, to, n), 0, None), Edge(b, c, Plain, 1, None) >>, 5)
\* Inputs and conditions that cannot be evaluated, an unknown type.
Faulty(x) == [Def(Of("decision", "workflow", "other"),
  << Edge(a, b, When("flag"), 0, None), Edge(a, c, When("unless"), 0, None),
     Edge(b, a, Plain, 0, None), Edge(a, a, When("bad"), 1, None) >>, 2)
  EXCEPT !.input = [n \in Nodes |-> IF n = b THEN x ELSE "none"]]
\* More edges than are sorted by insertion, three of equal priority.
Ties == Def(Of("decision", "action", "terminal"),
  << Edge(a, b, When("flag"), 1, None), Edge(a, c, Plain, 1, None),
     Edge(a, b, When("unless"), 1, None), Edge(b, c, Plain, 0, None), Edge(a, c, When("unless"), 0, 1) >>, 3)
\* Two decisions in a cycle that no node interrupts.
Spin(max, limit) == Def(Of("decision", "decision", "terminal"),
  << Edge(a, b, Plain, 0, None), Edge(b, a, Plain, 0, limit), Edge(b, c, When("flag"), 1, None) >>, max)
\* A node with a joinNode that is not a fork.
Strange == [Def(Of("action", "decision", "terminal"),
  << Edge(a, b, Plain, 0, None), Edge(b, a, Plain, 1, 2), Edge(b, c, When("flag"), 0, None) >>, 3)
  EXCEPT !.join = [n \in Nodes |-> IF n = a THEN c ELSE None]]

Curated == {Parallel(n) : n \in {-1, 0, 1, None}} \cup {Review(a, b, 3), Review(b, a, 3)}
           \cup {Faulty(x) : x \in {"flag", "bad", "none"}}
           \cup {Spin(n, l) : n \in {-1, 0, 2, None}, l \in {-1, 0, 3}} \cup {Strange, Ties}
MCDefinitions == TwoEdges \cup ForksAndGates \cup Curated
==============================================================================
