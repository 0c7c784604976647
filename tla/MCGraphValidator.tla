--------------------------- MODULE MCGraphValidator ---------------------------
(***************************************************************************)
(* Definitions for the validator: three nodes with up to three edges, the   *)
(* first a fork or not, the second a gate or not, and references to nodes   *)
(* that do not exist.                                                       *)
(***************************************************************************)
EXTENDS GraphValidator, SequencesExt, FiniteSetsExt

CONSTANTS a, b, c, gone
Nodes == {a, b, c}

Edge(from, to, kind) ==
  [from |-> from, to |-> to, priority |-> 0, limit |-> None,
   when |-> [kind |-> kind, pair |-> <<a, a>>, bound |-> 0]]
Of(x, y, z) == [n \in Nodes |-> IF n = a THEN x ELSE IF n = b THEN y ELSE z]
Def(type, branches, join, timeout, edges) ==
  [nodes |-> Nodes, entry |-> a, max |-> None, edges |-> edges, type |-> type,
   branches |-> Of(branches, << >>, << >>), join |-> Of(join, None, None),
   timeout |-> Of(None, timeout, None), input |-> Of("none", "none", "none")]
EdgeSets(ids, sizes) ==
  {SetToSeq({Edge(p[1], p[2], "always") : p \in S}) : S \in UNION {kSubset(k, Nodes \X ids) : k \in sizes}}

Types == {Of(x, y, z) : x \in {"fork", "action", "decision"}, y \in {"gate", "action", "decision"},
                        z \in {"terminal", "action"}}
\* The fields that its types make use of vary.
Small == {Def(t, br, j, to, e) :
  <<t, br, j, to>> \in {<<t, br, j, to>> \in Types \X {<<b>>, <<c, b>>} \X {b, c} \X {None, a, c} :
    (t[a] # "fork" => br = <<b>> /\ j = b) /\ (t[b] # "gate" => to = None)},
  e \in EdgeSets(Nodes, 0..3)}
\* One thing wrong at a time.
Broken ==
  LET fork == Of("fork", "gate", "terminal")
      chain == << Edge(b, c, "always") >>
  IN {Def(fork, br, j, to, chain) :
        br \in {<< >>, <<c, c>>, <<b, gone>>, <<b>>}, j \in {None, gone, c}, to \in {gone, None, a}}
     \cup {Def(fork, <<b>>, c, None, << Edge(b, to, k) >>) : to \in {c, gone}, k \in {"always", "bad"}}
     \cup {[Def(fork, <<b>>, c, None, chain) EXCEPT !.entry = n, !.type[c] = t, !.input[b] = x] :
             n \in {a, gone}, t \in {"terminal", "other"}, x \in {"none", "flag", "bad"}}
MCDefinitions == Small \cup Broken
==============================================================================
