------------------------- MODULE GraphValidatorProofs -------------------------
(***************************************************************************)
(* The validator comes to the right verdict for every set of definitions.   *)
(*                                                                         *)
(* A search has found what can be reached when its queue is empty, because  *)
(* what it has visited and queued holds the source, stays within Reach, and *)
(* every neighbour of a visited node is visited or queued (SearchInv).      *)
(* Between the searches valid says whether everything looked at so far is   *)
(* in order (VerdictInv).                                                   *)
(***************************************************************************)
EXTENDS GraphValidator, ValidationProofs, SequenceTheorems

Degrees == \A n \in graph.nodes : DegreeOK(graph, n)
JoinBranches == {p \in Branches(graph) : graph.join[p[1]] # None}

\* Nothing is wrong with the graph but perhaps with the branches in S.
Sound(S) ==
  /\ NoOrphans(graph) /\ Degrees
  /\ \A p \in JoinBranches \ S : graph.join[p[1]] \in Reach(graph, p[2])

Found == visited \cup Range(queue)

SearchInv == phase = "searching" =>
  /\ source \in graph.nodes /\ target \in graph.nodes \cup {None}
  /\ source \in Found /\ Found \subseteq Reach(graph, source)
  /\ \A n \in visited : Neighbours(graph, n) \subseteq Found
  /\ target \notin visited

VerdictInv ==
  /\ phase = "start" => valid /\ todo = {}
  /\ phase \in {"searching", "between"} => SchemaOK(graph) /\ Wired(graph)
  /\ phase = "searching" /\ target = None => valid /\ source = graph.entry
  /\ phase = "searching" /\ target # None =>
       (valid /\ target \in Reach(graph, source) <=> Sound(todo))
  /\ phase = "between" => (valid <=> Sound(todo))
  /\ todo \subseteq JoinBranches
  /\ phase = "done" => (valid <=> Valid(graph))

Inv == ValidatorTypeOK /\ SearchInv /\ VerdictInv

------------------------------------------------------------------------------
(* Sequences. *)

LEMMA RangeOfConcat ==
  ASSUME NEW S, NEW s \in Seq(S), NEW t \in Seq(S)
  PROVE  s \o t \in Seq(S) /\ Range(s \o t) = Range(s) \cup Range(t)
<1>1. /\ s \o t \in Seq(S) /\ Len(s \o t) = Len(s) + Len(t)
      /\ \A i \in 1..(Len(s) + Len(t)) : (s \o t)[i] = IF i <= Len(s) THEN s[i] ELSE t[i - Len(s)]
  BY ConcatProperties
<1>2. Range(s \o t) \subseteq Range(s) \cup Range(t)
  BY <1>1 DEF Range
<1>3. Range(s) \subseteq Range(s \o t)
  BY <1>1 DEF Range
<1>4. ASSUME NEW i \in 1..Len(t) PROVE t[i] \in Range(s \o t)
  <2>1. i + Len(s) \in 1..(Len(s) + Len(t)) /\ ~(i + Len(s) <= Len(s)) /\ i + Len(s) - Len(s) = i
    OBVIOUS
  <2>2. (s \o t)[i + Len(s)] = t[i]
    BY <1>1, <2>1
  <2> QED BY <1>1, <2>1, <2>2 DEF Range
<1>5. Range(t) \subseteq Range(s \o t)
  BY <1>4 DEF Range
<1> QED BY <1>1, <1>2, <1>3, <1>5

LEMMA RangeOfTail ==
  ASSUME NEW S, NEW s \in Seq(S), s # << >>
  PROVE  /\ Head(s) \in S /\ Tail(s) \in Seq(S)
         /\ Range(s) = {Head(s)} \cup Range(Tail(s))
<1>1. /\ Head(s) \in S /\ Tail(s) \in Seq(S) /\ Len(Tail(s)) = Len(s) - 1
      /\ \A i \in 1..Len(Tail(s)) : Tail(s)[i] = s[i + 1]
      /\ Len(s) \in Nat \ {0} /\ Head(s) = s[1]
  BY HeadTailProperties, EmptySeq
<1>2. Range(Tail(s)) \subseteq Range(s) /\ Head(s) \in Range(s)
  BY <1>1 DEF Range
<1>3. ASSUME NEW i \in 1..Len(s), i # 1 PROVE s[i] \in Range(Tail(s))
  <2>1. i - 1 \in 1..Len(Tail(s)) /\ Tail(s)[i - 1] = s[i]
    BY <1>1, <1>3
  <2>2. DOMAIN Tail(s) = 1..Len(Tail(s))
    BY <1>1
  <2> QED BY <2>1, <2>2 DEF Range
<1>4. Range(s) \subseteq {Head(s)} \cup Range(Tail(s))
  BY <1>1, <1>3 DEF Range
<1> QED BY <1>1, <1>2, <1>4

LEMMA RangeOfOrder ==
  ASSUME NEW S, IsFiniteSet(S), NEW s \in Orders(S)
  PROVE  s \in Seq(S) /\ Range(s) = S
<1>1. Cardinality(S) \in Nat
  BY FS_CardinalityType
<1> QED BY <1>1 DEF Orders

------------------------------------------------------------------------------
(* Definitions and what can be reached in them. *)

LEMMA GraphTypes ==
  ASSUME graph \in Definitions
  PROVE  /\ graph.nodes \subseteq Ids /\ IsFiniteSet(graph.nodes) /\ graph.entry \in Ids
         /\ None \notin graph.nodes
         /\ graph.join \in [graph.nodes -> Ids \cup {None}]
<1>1. PICK ids \in SUBSET Ids : graph \in NodeMaps(ids)
  BY DefinitionAssumption DEF IsDefinition
<1>2. /\ graph.nodes = ids /\ graph.entry \in Ids
      /\ graph.join \in [ids -> Ids \cup {None}]
  BY <1>1 DEF NodeMaps
<1> QED BY <1>2, DefinitionAssumption, NoneAssumption

\* A search whose queue is empty has visited what can be reached.
LEMMA SearchComplete ==
  ASSUME Inv, phase = "searching", queue = << >>
  PROVE  visited = Reach(graph, source)
<1>1. Range(queue) = {}
  BY DEF Range
<1>2. Found = visited
  BY <1>1 DEF Found
<1>3. visited \in SUBSET graph.nodes /\ source \in visited /\ Closed(graph, visited)
  BY <1>2 DEF Inv, ValidatorTypeOK, SearchInv, Closed
<1>4. visited \subseteq Reach(graph, source)
  BY <1>2 DEF Inv, SearchInv
<1> QED BY <1>3, <1>4, ReachWithin

------------------------------------------------------------------------------
(* The steps. *)

LEMMA InitInv == Init => Inv
<1> SUFFICES ASSUME Init PROVE Inv
  OBVIOUS
<1>1. ValidatorTypeOK
  BY GraphTypes DEF Init, ValidatorTypeOK
<1>2. SearchInv /\ VerdictInv
  BY DEF Init, SearchInv, VerdictInv
<1> QED BY <1>1, <1>2 DEF Inv

\* A search that has just begun.
LEMMA SearchStarts ==
  ASSUME Inv, NEW from \in graph.nodes, NEW to \in graph.nodes \cup {None},
         Search(from, to), UNCHANGED graph
  PROVE  /\ SearchInv'
         /\ queue' \in Seq(graph.nodes) /\ visited' = {} /\ source' = from /\ target' = to
         /\ source' \in Ids /\ target' \in Ids \cup {None}
<1>1. graph.nodes \subseteq Ids
  BY GraphTypes DEF Inv, ValidatorTypeOK
<1>2. queue' \in Seq(graph.nodes) /\ Range(queue') = {from}
  <2>1. queue' = <<from>>
    BY DEF Search
  <2>2. DOMAIN <<from>> = {1} /\ <<from>>[1] = from
    OBVIOUS
  <2>3. <<from>> \in Seq(graph.nodes)
    BY SingletonIsSeq
  <2>4. Range(<<from>>) = {from}
    BY <2>2 DEF Range
  <2> QED BY <2>1, <2>3, <2>4
<1>3. from \in Reach(graph, from)
  BY ReachStarts
<1>4. Found' = {from}
  BY <1>2 DEF Search, Found
<1> QED BY <1>1, <1>2, <1>3, <1>4 DEF Search, SearchInv

LEMMA CheckWiringInv == Inv /\ CheckWiring => Inv'
<1> SUFFICES ASSUME Inv, CheckWiring PROVE Inv'
  OBVIOUS
<1>1. CASE ~(SchemaOK(graph) /\ Wired(graph))
  <2>1. ~Valid(graph)
    BY <1>1 DEF Valid, ValidGraph
  <2> QED BY <1>1, <2>1 DEF CheckWiring, Inv, ValidatorTypeOK, SearchInv, VerdictInv
<1>2. CASE SchemaOK(graph) /\ Wired(graph)
  <2>1. Search(graph.entry, None) /\ UNCHANGED <<graph, todo, valid>> /\ phase = "start"
    BY <1>2 DEF CheckWiring
  <2>2. graph.entry \in graph.nodes
    BY <1>2 DEF Wired
  <2>3. /\ SearchInv'
        /\ queue' \in Seq(graph.nodes) /\ visited' = {} /\ source' = graph.entry /\ target' = None
        /\ source' \in Ids /\ target' \in Ids \cup {None}
    BY <2>1, <2>2, SearchStarts
  <2>4. ValidatorTypeOK'
    BY <2>1, <2>3 DEF Inv, ValidatorTypeOK, Search
  <2>5. VerdictInv'
    BY <1>2, <2>1, <2>3 DEF Inv, VerdictInv, Search, JoinBranches
  <2> QED BY <2>3, <2>4, <2>5 DEF Inv
<1> QED BY <1>1, <1>2

LEMMA VisitInv == Inv /\ Visit => Inv'
<1> SUFFICES ASSUME Inv, Visit PROVE Inv'
  OBVIOUS
<1> DEFINE n == Head(queue)
<1>1. /\ queue \in Seq(graph.nodes) /\ visited \subseteq graph.nodes
      /\ graph \in Definitions /\ phase = "searching" /\ queue # << >> /\ n # target
      /\ UNCHANGED <<graph, phase, valid, source, target, todo>>
      /\ visited' = visited \cup {n}
      /\ SchemaOK(graph) /\ Wired(graph)
  BY DEF Inv, ValidatorTypeOK, VerdictInv, Visit
<1>2. /\ n \in graph.nodes /\ Tail(queue) \in Seq(graph.nodes)
      /\ Range(queue) = {n} \cup Range(Tail(queue))
  BY <1>1, RangeOfTail
<1>3. /\ source \in Found /\ Found \subseteq Reach(graph, source)
      /\ \A m \in visited : Neighbours(graph, m) \subseteq Found
      /\ target \notin visited /\ source \in graph.nodes /\ target \in graph.nodes \cup {None}
  BY <1>1 DEF Inv, SearchInv
<1>4. n \in Reach(graph, source) /\ Neighbours(graph, n) \subseteq Reach(graph, source)
  BY <1>1, <1>2, <1>3, ReachGrows DEF Found
<1>5. /\ queue' \in Seq(graph.nodes)
      /\ \/ n \in visited /\ Range(queue') = Range(Tail(queue))
         \/ Range(queue') = Range(Tail(queue)) \cup (Neighbours(graph, n) \ visited')
  <2>1. CASE n \in visited
    BY <1>2, <2>1 DEF Visit
  <2>2. CASE n \notin visited
    <3> DEFINE M == Neighbours(graph, n) \ visited'
    <3>1. PICK next \in Orders(M) : queue' = Tail(queue) \o next
      BY <2>2 DEF Visit
    <3>2. M \subseteq graph.nodes
      BY <1>1, <1>2, NeighboursAreNodes
    <3>3. IsFiniteSet(M)
      BY <1>1, <3>2, GraphTypes, FS_Subset
    <3>4. next \in Seq(M) /\ Range(next) = M
      BY <3>1, <3>3, RangeOfOrder
    <3>5. next \in Seq(graph.nodes)
      BY <3>2, <3>4
    <3>6. /\ Tail(queue) \o next \in Seq(graph.nodes)
          /\ Range(Tail(queue) \o next) = Range(Tail(queue)) \cup Range(next)
      <4>1. \A s, t \in Seq(graph.nodes) :
              s \o t \in Seq(graph.nodes) /\ Range(s \o t) = Range(s) \cup Range(t)
        BY RangeOfConcat
      <4> QED BY <1>2, <3>5, <4>1, Zenon
    <3> QED BY <3>1, <3>4, <3>6
  <2> QED BY <2>1, <2>2
<1>6. Found \subseteq Found' /\ Found' \subseteq Reach(graph, source)
      /\ Neighbours(graph, n) \subseteq Found'
  BY <1>1, <1>2, <1>3, <1>4, <1>5 DEF Found
<1>7. SearchInv'
  <2>1. ASSUME NEW m \in visited' PROVE Neighbours(graph, m) \subseteq Found'
    BY <1>1, <1>3, <1>6
  <2>2. target \notin visited'
    BY <1>1, <1>3
  <2>3. source \in Found'
    BY <1>3, <1>6
  <2> QED BY <1>1, <1>3, <1>6, <2>1, <2>2, <2>3 DEF SearchInv
<1>8. ValidatorTypeOK'
  BY <1>1, <1>2, <1>5 DEF Inv, ValidatorTypeOK
<1>9. VerdictInv'
  <2>1. Sound(todo)' = Sound(todo) /\ JoinBranches' = JoinBranches
    BY <1>1 DEF Sound, JoinBranches, Degrees
  <2> QED BY <1>1, <2>1 DEF Inv, VerdictInv
<1> QED BY <1>7, <1>8, <1>9 DEF Inv

\* A search for orphans has no target to meet.
LEMMA MeetsTarget == ASSUME Inv, Meet PROVE target \in Range(queue) /\ target # None
<1>1. /\ queue \in Seq(graph.nodes) /\ queue # << >> /\ Head(queue) = target
      /\ graph \in Definitions
  BY DEF Inv, ValidatorTypeOK, Meet
<1>2. target \in graph.nodes /\ target \in Range(queue)
  BY <1>1, RangeOfTail
<1> QED BY <1>1, <1>2, GraphTypes

LEMMA MeetInv == Inv /\ Meet => Inv'
<1> SUFFICES ASSUME Inv, Meet PROVE Inv'
  OBVIOUS
<1>1. /\ queue \in Seq(graph.nodes) /\ queue # << >> /\ Head(queue) = target
      /\ phase = "searching" /\ phase' = "between" /\ graph \in Definitions
      /\ UNCHANGED <<graph, valid, source, target, queue, visited, todo>>
  BY DEF Inv, ValidatorTypeOK, Meet
<1>2. target \in Range(queue) /\ target # None
  BY MeetsTarget
<1>3. target \in Reach(graph, source)
  BY <1>1, <1>2 DEF Inv, SearchInv, Found
<1>4. Sound(todo)' = Sound(todo) /\ JoinBranches' = JoinBranches
  BY <1>1 DEF Sound, JoinBranches, Degrees
<1> QED BY <1>1, <1>2, <1>3, <1>4 DEF Inv, ValidatorTypeOK, SearchInv, VerdictInv

LEMMA EndOrphansInv == Inv /\ EndOrphans => Inv'
<1> SUFFICES ASSUME Inv, EndOrphans PROVE Inv'
  OBVIOUS
<1>1. /\ phase = "searching" /\ queue = << >> /\ target = None /\ phase' = "between"
      /\ valid' = (graph.nodes \subseteq visited /\ Degrees)
      /\ todo' = JoinBranches
      /\ UNCHANGED <<graph, source, target, queue, visited>>
  BY DEF EndOrphans, Degrees, JoinBranches
<1>2. visited = Reach(graph, graph.entry) /\ SchemaOK(graph) /\ Wired(graph)
  BY <1>1, SearchComplete DEF Inv, VerdictInv
<1>3. valid' <=> Sound(JoinBranches)
  BY <1>1, <1>2 DEF Sound, NoOrphans
<1>4. Sound(todo)' = Sound(JoinBranches) /\ JoinBranches' = JoinBranches
  BY <1>1 DEF Sound, JoinBranches, Degrees
<1>5. JoinBranches \subseteq graph.nodes \X graph.nodes
  BY DEF JoinBranches, Branches, OfType
<1>6. ValidatorTypeOK'
  BY <1>1, <1>5 DEF Inv, ValidatorTypeOK
<1> QED BY <1>1, <1>2, <1>3, <1>4, <1>6 DEF Inv, SearchInv, VerdictInv

LEMMA MissInv == Inv /\ Miss => Inv'
<1> SUFFICES ASSUME Inv, Miss PROVE Inv'
  OBVIOUS
<1>1. /\ phase = "searching" /\ queue = << >> /\ target # None
      /\ phase' = "between" /\ valid' = FALSE
      /\ UNCHANGED <<graph, source, target, queue, visited, todo>>
  BY DEF Miss
<1>2. target \notin Reach(graph, source)
  BY <1>1, SearchComplete DEF Inv, SearchInv
<1>3. Sound(todo)' = Sound(todo) /\ JoinBranches' = JoinBranches
  BY <1>1 DEF Sound, JoinBranches, Degrees
<1> QED BY <1>1, <1>2, <1>3 DEF Inv, ValidatorTypeOK, SearchInv, VerdictInv

LEMMA CheckBranchInv == Inv /\ CheckBranch => Inv'
<1> SUFFICES ASSUME Inv, CheckBranch PROVE Inv'
  OBVIOUS
<1>1. PICK p \in todo : todo' = todo \ {p} /\ Search(p[2], graph.join[p[1]])
  BY DEF CheckBranch
<1>2. /\ phase = "between" /\ UNCHANGED <<graph, valid>>
      /\ SchemaOK(graph) /\ Wired(graph) /\ (valid <=> Sound(todo))
      /\ todo \subseteq JoinBranches /\ graph \in Definitions
  BY DEF CheckBranch, Inv, ValidatorTypeOK, VerdictInv
<1>3. /\ p \in JoinBranches /\ p[2] \in graph.nodes /\ graph.join[p[1]] # None
      /\ graph.join[p[1]] \in graph.nodes
  BY <1>1, <1>2 DEF JoinBranches, Branches, OfType, Wired, ForksWired
<1>4. /\ SearchInv'
      /\ queue' \in Seq(graph.nodes) /\ visited' = {}
      /\ source' = p[2] /\ target' = graph.join[p[1]]
      /\ source' \in Ids /\ target' \in Ids \cup {None}
  BY <1>1, <1>2, <1>3, SearchStarts
<1>5. Sound(todo \ {p}) <=> Sound(todo) /\ graph.join[p[1]] \in Reach(graph, p[2])
  <2>1. JoinBranches \ (todo \ {p}) = (JoinBranches \ todo) \cup {p}
    BY <1>1, <1>3
  <2> QED BY <2>1 DEF Sound
<1>6. Sound(todo)' = Sound(todo \ {p}) /\ JoinBranches' = JoinBranches
  BY <1>1, <1>2 DEF Sound, JoinBranches, Degrees
<1>7. ValidatorTypeOK'
  BY <1>1, <1>2, <1>4 DEF Inv, ValidatorTypeOK, Search
<1>8. VerdictInv'
  BY <1>1, <1>2, <1>3, <1>4, <1>5, <1>6 DEF VerdictInv, Search
<1> QED BY <1>4, <1>7, <1>8 DEF Inv

LEMMA CheckCelInv == Inv /\ CheckCel => Inv'
<1> SUFFICES ASSUME Inv, CheckCel PROVE Inv'
  OBVIOUS
<1>1. /\ phase = "between" /\ todo = {} /\ phase' = "done" /\ valid' = (valid /\ CelOK(graph))
      /\ UNCHANGED <<graph, source, target, queue, visited, todo>>
  BY DEF CheckCel
<1>2. SchemaOK(graph) /\ Wired(graph) /\ (valid <=> Sound({})) /\ valid \in BOOLEAN
  BY <1>1 DEF Inv, ValidatorTypeOK, VerdictInv
<1>3. Sound({}) <=> NoOrphans(graph) /\ Degrees /\ JoinsReached(graph)
  BY DEF Sound, JoinBranches, JoinsReached
<1>4. valid' <=> Valid(graph)
  BY <1>1, <1>2, <1>3 DEF Valid, ValidGraph, Degrees
<1>5. ValidatorTypeOK'
  BY <1>1, <1>2 DEF Inv, ValidatorTypeOK
<1> QED BY <1>1, <1>2, <1>4, <1>5 DEF Inv, SearchInv, VerdictInv

LEMMA InvStep == Inv /\ [Next]_vars => Inv'
<1> SUFFICES ASSUME Inv, [Next]_vars PROVE Inv'
  OBVIOUS
<1>1. CASE UNCHANGED vars
  <2>1. UNCHANGED <<Sound(todo), JoinBranches, Found>>
    BY <1>1 DEF vars, Sound, JoinBranches, Degrees, Found
  <2> QED BY <1>1, <2>1 DEF vars, Inv, ValidatorTypeOK, SearchInv, VerdictInv
<1> QED BY <1>1, CheckWiringInv, VisitInv, MeetInv, EndOrphansInv, MissInv,
           CheckBranchInv, CheckCelInv DEF Next

LEMMA Invariance == Spec => []Inv
  BY InitInv, InvStep, PTL DEF Spec

\* The queue and the visited nodes stay within the graph: what the searches
\* look up is there.
THEOREM TypeCorrect == Spec => []ValidatorTypeOK
  BY Invariance, PTL DEF Inv

\* The verdict of validateWorkflowGraph, found by searching with a queue, is
\* that of the definition of validity, for definitions of any size.
THEOREM VerdictIsRight == Spec => []VerdictRight
<1>1. Inv => VerdictRight
  BY DEF Inv, VerdictInv, VerdictRight
<1> QED BY <1>1, Invariance, PTL

\* A search visits a node once, and a turn of its loop that visits none takes
\* one off the queue.
LEMMA VisitAdvances ==
  ASSUME Inv, Visit
  PROVE  /\ UNCHANGED <<todo, phase, source, target>>
         /\ \/ visited \subseteq visited' /\ visited' # visited
            \/ UNCHANGED visited /\ Len(queue') < Len(queue)
<1>1. /\ queue \in Seq(graph.nodes) /\ queue # << >>
      /\ UNCHANGED <<todo, phase, source, target>>
      /\ visited' = visited \cup {Head(queue)}
  BY DEF Inv, ValidatorTypeOK, Visit
<1>2. CASE Head(queue) \in visited
  <2>1. queue' = Tail(queue)
    BY <1>2 DEF Visit
  <2>2. Len(Tail(queue)) = Len(queue) - 1 /\ Len(queue) \in Nat
    BY <1>1, HeadTailProperties
  <2> QED BY <1>1, <1>2, <2>1, <2>2
<1>3. CASE Head(queue) \notin visited
  BY <1>1, <1>3
<1> QED BY <1>1, <1>2, <1>3

\* Every step of the validator gets nearer to its verdict.  There are finitely
\* many nodes to visit and branches to check (SearchesAreFinite), so that it
\* cannot go on for ever.
THEOREM EveryStepAdvances == Spec => Advances
<1> DEFINE Advance ==
      \/ Stage' > Stage
      \/ /\ Stage' = Stage
         /\ \/ todo' \subseteq todo /\ todo' # todo
            \/ UNCHANGED todo /\ phase = "searching" /\ phase' = "between"
            \/ UNCHANGED <<todo, phase, source, target>> /\ visited \subseteq visited' /\ visited' # visited
            \/ UNCHANGED <<todo, phase, source, target, visited>> /\ Len(queue') < Len(queue)
<1>1. ASSUME Inv, Next PROVE Advance
  <2>1. CASE CheckWiring
    <3>1. Stage = 0 /\ Stage' \in {1, 3}
      BY <2>1 DEF CheckWiring, Search, Stage
    <3> QED BY <3>1
  <2>2. CASE Visit
    <3>1. Stage' = Stage
      BY <1>1, <2>2, VisitAdvances DEF Stage
    <3> QED BY <1>1, <2>2, <3>1, VisitAdvances
  <2>3. CASE Meet \/ Miss
    <3>1. target # None
      BY <1>1, <2>3, MeetsTarget DEF Miss
    <3>2. Stage = 2 /\ Stage' = 2
      BY <2>3, <3>1 DEF Meet, Miss, Stage
    <3> QED BY <2>3, <3>2 DEF Meet, Miss
  <2>4. CASE EndOrphans
    <3>1. Stage = 1 /\ Stage' = 2
      BY <2>4 DEF EndOrphans, Stage
    <3> QED BY <3>1
  <2>5. CASE CheckBranch
    <3>1. PICK p \in todo : todo' = todo \ {p} /\ Search(p[2], graph.join[p[1]])
      BY <2>5 DEF CheckBranch
    <3>2. graph.join[p[1]] # None
      BY <1>1, <3>1 DEF Inv, VerdictInv, JoinBranches
    <3>3. Stage = 2 /\ Stage' = 2
      BY <2>5, <3>1, <3>2 DEF CheckBranch, Search, Stage
    <3> QED BY <3>1, <3>3
  <2>6. CASE CheckCel
    <3>1. Stage = 2 /\ Stage' = 3
      BY <2>6 DEF CheckCel, Stage
    <3> QED BY <3>1
  <2> QED BY <1>1, <2>1, <2>2, <2>3, <2>4, <2>5, <2>6 DEF Next
<1>2. Inv /\ [Next]_vars => [Advance]_vars
  BY <1>1
<1> QED BY <1>2, Invariance, PTL DEF Spec, Advances

\* What the searches have left is finite, the nodes not visited and the branches
\* to do, so that the steps that EveryStepAdvances counts run out.
THEOREM SearchesAreFinite == Spec => [](IsFiniteSet(graph.nodes \ visited) /\ IsFiniteSet(todo))
<1>1. ASSUME Inv PROVE IsFiniteSet(graph.nodes \ visited) /\ IsFiniteSet(todo)
  <2>1. IsFiniteSet(graph.nodes) /\ todo \subseteq graph.nodes \X graph.nodes
    BY <1>1, GraphTypes DEF Inv, ValidatorTypeOK
  <2>2. IsFiniteSet(graph.nodes \X graph.nodes)
    BY <2>1, FS_Product
  <2> QED BY <2>1, <2>2, FS_Subset
<1> QED BY <1>1, Invariance, PTL

=============================================================================
