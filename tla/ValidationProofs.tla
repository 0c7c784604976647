--------------------------- MODULE ValidationProofs ---------------------------
(***************************************************************************)
(* Theorems about the operators on definitions, for every definition.       *)
(*                                                                         *)
(* Two of them need induction.  It is done by the least counterexample: a   *)
(* set of natural numbers that is not empty has a least element             *)
(* (LeastNatural), since the strict subset order on finite sets is          *)
(* well-founded.                                                            *)
(***************************************************************************)
EXTENDS Validation, FiniteSetTheorems, WellFoundedInduction, TLAPS

LEMMA LeastNatural ==
  ASSUME NEW T \in SUBSET Nat, T # {}
  PROVE  \E x \in T : \A y \in T : x <= y
<1> DEFINE F == {1..x : x \in T}
           R == StrictSubsetOrdering(Nat)
<1>1. IsWellFoundedOn(R, FiniteSubsetsOf(Nat))
  BY FS_StrictSubsetOrderingWellFounded
<1>2. F \subseteq FiniteSubsetsOf(Nat) /\ F # {}
  <2>1. ASSUME NEW x \in T PROVE 1..x \in FiniteSubsetsOf(Nat)
    <3>1. IsFiniteSet(1..x)
      BY FS_Interval
    <3>2. 1..x \in SUBSET Nat
      OBVIOUS
    <3> QED BY <3>1, <3>2 DEF FiniteSubsetsOf
  <2> QED BY <2>1
<1>3. PICK U \in F : \A V \in F : <<V, U>> \notin R
  <2> HIDE DEF R, F
  <2> QED BY <1>1, <1>2, WFMin
<1>4. PICK x \in T : U = 1..x
  OBVIOUS
<1>5. ASSUME NEW y \in T, ~(x <= y) PROVE FALSE
  <2>1. <<1..y, 1..x>> \notin R
    BY <1>3, <1>4
  <2>2. 1..y \subseteq 1..x /\ x \in 1..x /\ x \notin 1..y /\ 1..y \subseteq Nat /\ 1..x \subseteq Nat
    BY <1>5
  <2> QED BY <2>1, <2>2 DEF StrictSubsetOrdering
<1> QED BY <1>5

LEMMA SingletonIsSeq ==
  ASSUME NEW S, NEW x \in S PROVE <<x>> \in Seq(S)
  OBVIOUS

\* The edges of a definition, and what it says of them.
LEMMA EdgeFields ==
  ASSUME NEW d, IsDefinition(d), NEW i \in DOMAIN d.edges
  PROVE  /\ i \in Nat
         /\ d.edges[i].from \in Ids /\ d.edges[i].to \in Ids
         /\ d.edges[i].priority \in Int
<1>1. PICK ids \in SUBSET Ids : d \in NodeMaps(ids)
  BY DEF IsDefinition
<1>2. d.edges \in Seq(Edges)
  BY <1>1 DEF NodeMaps
<1>3. i \in Nat /\ d.edges[i] \in Edges
  BY <1>2
<1> QED BY <1>3 DEF Edges

\* Of any edges exactly one is tried first, by priority and then by the order
\* of the definition: a decision with an edge to follow always follows one, and
\* the same one however often it is made.
THEOREM DecisionTotal ==
  ASSUME NEW d, IsDefinition(d), NEW E \in SUBSET DOMAIN d.edges, E # {}
  PROVE  \E i \in E : Foremost(d, E) = {i}
<1> DEFINE Before(i) == {j \in E : Precedes(d, j, i)}
           F == {Before(i) : i \in E}
           R == StrictSubsetOrdering(E)
<1>1. \A i \in E : i \in Nat /\ d.edges[i].priority \in Int
  BY EdgeFields
<1>2. IsFiniteSet(E)
  <2>1. PICK ids \in SUBSET Ids : d \in NodeMaps(ids)
    BY DEF IsDefinition
  <2>2. DOMAIN d.edges = 1..Len(d.edges) /\ Len(d.edges) \in Nat
    BY <2>1 DEF NodeMaps
  <2>3. IsFiniteSet(1..Len(d.edges))
    BY <2>2, FS_Interval
  <2> QED BY <2>2, <2>3, FS_Subset
<1>3. IsWellFoundedOn(R, FiniteSubsetsOf(E))
  BY FS_StrictSubsetOrderingWellFounded
<1>4. F \subseteq FiniteSubsetsOf(E) /\ F # {}
  <2>1. \A i \in E : Before(i) \in SUBSET E /\ IsFiniteSet(Before(i))
    BY <1>2, FS_Subset
  <2> QED BY <2>1 DEF FiniteSubsetsOf
<1>5. PICK U \in F : \A V \in F : <<V, U>> \notin R
  <2> HIDE DEF R, F
  <2> QED BY <1>3, <1>4, WFMin
<1>6. PICK i \in E : U = Before(i)
  OBVIOUS
<1>7. ASSUME NEW j \in E PROVE Precedes(d, i, j)
  <2>1. SUFFICES ASSUME ~Precedes(d, i, j) PROVE FALSE
    OBVIOUS
  <2>2. Precedes(d, j, i) /\ Precedes(d, i, i)
    BY <1>1, <2>1 DEF Precedes
  <2>3. Before(j) \subseteq Before(i)
    BY <1>1, <2>2 DEF Precedes
  <2>4. i \in Before(i) /\ i \notin Before(j)
    BY <2>1, <2>2
  <2>5. <<Before(j), Before(i)>> \notin R
    BY <1>5, <1>6
  <2> QED BY <2>3, <2>4, <2>5 DEF StrictSubsetOrdering
<1>8. ASSUME NEW j \in E, Precedes(d, j, i) PROVE i = j
  BY <1>1, <1>7, <1>8 DEF Precedes
<1>9. Foremost(d, E) = {i}
  BY <1>7, <1>8 DEF Foremost
<1> QED BY <1>9

------------------------------------------------------------------------------
(* Reachability. *)

LEMMA NeighboursAreNodes ==
  ASSUME NEW d, Wired(d), NEW n \in d.nodes
  PROVE  Neighbours(d, n) \subseteq d.nodes
<1>1. \A i \in OutEdges(d, n) : d.edges[i].to \in d.nodes
  BY DEF Wired, EdgesWired, OutEdges
<1>2. d.type[n] = "fork" => Range(d.branches[n]) \subseteq d.nodes
  BY DEF Wired, ForksWired, OfType
<1>3. d.type[n] = "gate" => {d.timeout[n]} \ {None} \subseteq d.nodes
  BY DEF Wired, TimeoutsWired, OfType
<1> QED BY <1>1, <1>2, <1>3 DEF Neighbours

LEMMA ReachStarts ==
  ASSUME NEW d, NEW from \in d.nodes PROVE from \in Reach(d, from)
  BY DEF Reach

LEMMA ReachGrows ==
  ASSUME NEW d, Wired(d), NEW from, NEW n \in Reach(d, from)
  PROVE  Neighbours(d, n) \subseteq Reach(d, from)
  BY NeighboursAreNodes DEF Reach, Closed

LEMMA ReachWithin ==
  ASSUME NEW d, NEW from, NEW S \in SUBSET d.nodes, from \in S, Closed(d, S)
  PROVE  Reach(d, from) \subseteq S
  BY DEF Reach

\* p goes from one node to the next.
Goes(d, p) == \A i \in 1..(Len(p) - 1) : p[i + 1] \in Neighbours(d, p[i])
Paths(d, from, to) ==
  {p \in Seq(d.nodes) : p # << >> /\ p[1] = from /\ p[Len(p)] = to /\ Goes(d, p)}

\* A path does not leave a closed set.
LEMMA PathStays ==
  ASSUME NEW d, NEW from, NEW to, NEW p \in Paths(d, from, to),
         NEW S \in SUBSET d.nodes, from \in S, Closed(d, S)
  PROVE  to \in S
<1> DEFINE T == {i \in 1..Len(p) : p[i] \notin S}
<1>1. /\ p \in Seq(d.nodes) /\ Len(p) \in Nat /\ Len(p) >= 1
      /\ p[1] = from /\ p[Len(p)] = to /\ Goes(d, p)
  BY DEF Paths
<1>2. SUFFICES ASSUME T # {} PROVE FALSE
  BY <1>1
<1>3. PICK x \in T : \A y \in T : x <= y
  <2>1. T \subseteq Nat
    OBVIOUS
  <2> QED BY <1>2, <2>1, LeastNatural
<1>4. x # 1 /\ x - 1 \in 1..(Len(p) - 1) /\ x - 1 \notin T
  BY <1>1, <1>3
<1>5. p[x - 1] \in S /\ p[x] \in Neighbours(d, p[x - 1])
  BY <1>1, <1>3, <1>4 DEF Goes
<1> QED BY <1>3, <1>5 DEF Closed

\* A path can be prolonged.
LEMMA PathGrows ==
  ASSUME NEW d, NEW from, NEW n, NEW p \in Paths(d, from, n),
         NEW m \in Neighbours(d, n), m \in d.nodes
  PROVE  Append(p, m) \in Paths(d, from, m)
<1>1. /\ p \in Seq(d.nodes) /\ Len(p) \in Nat /\ Len(p) >= 1
      /\ p[1] = from /\ p[Len(p)] = n /\ Goes(d, p)
  BY DEF Paths
<1> DEFINE q == Append(p, m)
<1>2. /\ q \in Seq(d.nodes) /\ Len(q) = Len(p) + 1 /\ q # << >>
      /\ q[Len(p) + 1] = m /\ \A i \in 1..Len(p) : q[i] = p[i]
  BY <1>1
<1>3. ASSUME NEW i \in 1..(Len(q) - 1) PROVE q[i + 1] \in Neighbours(d, q[i])
  <2>1. CASE i = Len(p)
    BY <1>1, <1>2, <2>1
  <2>2. CASE i # Len(p)
    <3>1. i \in 1..(Len(p) - 1) /\ i \in 1..Len(p) /\ i + 1 \in 1..Len(p)
      BY <1>1, <1>2, <1>3, <2>2
    <3> QED BY <1>1, <1>2, <3>1 DEF Goes
  <2> QED BY <2>1, <2>2
<1> HIDE DEF q
<1>4. q \in Paths(d, from, m)
  BY <1>1, <1>2, <1>3 DEF Paths, Goes
<1> QED BY <1>4 DEF q

\* What can be reached is what a path leads to: the least closed set of
\* Validation, which the breadth-first searches compute, is reachability.
THEOREM ReachIsPaths ==
  ASSUME NEW d, Wired(d), NEW from \in d.nodes
  PROVE  Reach(d, from) = {m \in d.nodes : Paths(d, from, m) # {}}
<1> DEFINE Q == {m \in d.nodes : Paths(d, from, m) # {}}
<1>1. from \in Q
  <2>1. <<from>> \in Seq(d.nodes)
    BY SingletonIsSeq
  <2>2. Len(<<from>>) = 1 /\ <<from>>[1] = from /\ <<from>> # << >>
    OBVIOUS
  <2>3. <<from>> \in Paths(d, from, from)
    BY <2>1, <2>2 DEF Paths, Goes
  <2> QED BY <2>3
<1>2. Closed(d, Q)
  <2> SUFFICES ASSUME NEW n \in Q, NEW m \in Neighbours(d, n) PROVE m \in Q
    BY DEF Closed
  <2>1. m \in d.nodes
    BY NeighboursAreNodes
  <2>2. PICK p : p \in Paths(d, from, n)
    OBVIOUS
  <2> QED BY <2>1, <2>2, PathGrows
<1>3. Reach(d, from) \subseteq Q
  BY <1>1, <1>2, ReachWithin
<1>4. ASSUME NEW m \in Q PROVE m \in Reach(d, from)
  BY PathStays DEF Reach
<1> QED BY <1>3, <1>4

------------------------------------------------------------------------------
(* What validation is for. *)

\* What a valid definition refers to is there.
LEMMA ValidParts ==
  ASSUME NEW d, IsDefinition(d), Valid(d)
  PROVE  /\ d.entry \in d.nodes
         /\ \A n \in d.nodes : d.type[n] \in NodeTypes
         /\ \A i \in DOMAIN d.edges : d.edges[i].to \in d.nodes
         /\ \A n \in OfType(d, "decision") : OutEdges(d, n) # {}
         /\ \A n \in OfType(d, "fork") :
              Range(d.branches[n]) \subseteq d.nodes /\ d.join[n] \in d.nodes
         /\ \A n \in OfType(d, "gate") : d.timeout[n] \in d.nodes \cup {None}
<1>1. \A n \in OfType(d, "decision") : OutEdges(d, n) # {}
  BY DEF Valid, ValidGraph, DegreeOK, OfType
<1> QED
  BY <1>1 DEF Valid, SchemaOK, ValidGraph, Wired, ForksWired, EdgesWired, TimeoutsWired

\* A valid definition has no dead ends: a node that has no next one is terminal,
\* and nothing comes after a terminal node.
THEOREM ValidEndsAtTerminals ==
  ASSUME NEW d, IsDefinition(d), Valid(d), NEW n \in d.nodes
  PROVE  Neighbours(d, n) = {} <=> d.type[n] = "terminal"
<1>1. DegreeOK(d, n) /\ SchemaOK(d) /\ d.type[n] \in NodeTypes
  BY DEF Valid, ValidGraph, SchemaOK
<1>2. CASE d.type[n] = "terminal"
  BY <1>1, <1>2 DEF DegreeOK, Neighbours
<1>3. CASE d.type[n] = "fork"
  <2>1. PICK ids \in SUBSET Ids : d \in NodeMaps(ids)
    BY DEF IsDefinition
  <2>2. d.branches[n] \in Seq(Ids) /\ d.branches[n] # << >>
    BY <1>1, <1>3, <2>1 DEF NodeMaps, SchemaOK, OfType
  <2>3. 1 \in DOMAIN d.branches[n]
    BY <2>2
  <2>4. Range(d.branches[n]) # {}
    BY <2>3 DEF Range
  <2> QED BY <1>3, <2>4 DEF Neighbours
<1>4. CASE d.type[n] \notin {"terminal", "fork"}
  <2>1. OutEdges(d, n) # {}
    BY <1>1, <1>4 DEF DegreeOK
  <2> QED BY <1>4, <2>1 DEF Neighbours
<1> QED BY <1>2, <1>3, <1>4

\* In a valid definition each node has a path from entry, and each branch of a
\* fork has one to the joinNode of its fork: what the search of the validator
\* accepts is what an execution that walks the graph needs.
THEOREM ValidConnects ==
  ASSUME NEW d, IsDefinition(d), Valid(d)
  PROVE  /\ \A n \in d.nodes : Paths(d, d.entry, n) # {}
         /\ \A n \in OfType(d, "fork") : \A b \in Range(d.branches[n]) :
              Paths(d, b, d.join[n]) # {}
<1>1. Wired(d) /\ NoOrphans(d) /\ JoinsReached(d) /\ SchemaOK(d)
  BY DEF Valid, ValidGraph
<1>2. ASSUME NEW n \in d.nodes PROVE Paths(d, d.entry, n) # {}
  <2>1. d.entry \in d.nodes /\ n \in Reach(d, d.entry)
    BY <1>1 DEF Wired, NoOrphans
  <2> QED BY <1>1, <2>1, ReachIsPaths
<1>3. ASSUME NEW n \in OfType(d, "fork"), NEW b \in Range(d.branches[n])
      PROVE  Paths(d, b, d.join[n]) # {}
  <2>1. b \in d.nodes /\ d.join[n] # None
    BY <1>1 DEF SchemaOK, Wired, ForksWired
  <2>2. <<n, b>> \in Branches(d)
    BY <2>1 DEF Branches
  <2>3. d.join[n] \in Reach(d, b)
    BY <1>1, <2>1, <2>2 DEF JoinsReached
  <2> QED BY <1>1, <2>1, <2>3, ReachIsPaths
<1> QED BY <1>2, <1>3

==============================================================================
