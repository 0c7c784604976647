---------------------------- MODULE WalkerProofs ----------------------------
(***************************************************************************)
(* Theorems about the Go walker for every set of workflow definitions.      *)
(*                                                                         *)
(* EdgeLimits needs two facts of the reachable states: the loop guard has   *)
(* counted every traversal that the history counts (Counted), and the only  *)
(* traversals it does not count, those of Resolve, start at a node that     *)
(* asked (LastAsked), never at one that decides.                            *)
(***************************************************************************)
EXTENDS Walker, ValidationProofs

Deciding(i) ==
  /\ def.edges[i].from \in def.nodes
  /\ def.type[def.edges[i].from] \in {"decision", "terminal"}

Counted == \A i \in DOMAIN def.edges :
  Deciding(i) => followed[i] <= counts[Pair(def, i)] /\ followed[i] <= Limit(i)

LastAsked == lastNode # None =>
  /\ lastNode \in def.nodes
  /\ def.type[lastNode] \in {"action", "workflow", "fork", "gate"}

Protocol == Disciplined =>
  /\ pc = "walking" => cmd.type = "none"
  /\ cmd.type \in Asking => cursor = cmd.node /\ lastNode = cmd.node

Inv == WalkerTypeOK /\ Counted /\ LastAsked /\ Protocol

------------------------------------------------------------------------------
\* The parts of a definition have the types the walker relies on.
LEMMA DefinitionTypes ==
  ASSUME WalkerTypeOK
  PROVE  /\ def.nodes \subseteq Ids /\ def.entry \in Ids /\ def.max \in Optional
         /\ def.edges \in Seq(Edges)
         /\ def.type \in [def.nodes -> NodeTypes \cup {"other"}]
         /\ def.join \in [def.nodes -> Ids \cup {None}]
         /\ \A i \in DOMAIN def.edges : def.edges[i] \in Edges
<1>1. PICK ids \in SUBSET Ids : def \in NodeMaps(ids)
  BY DefinitionAssumption DEF WalkerTypeOK, IsDefinition
<1>2. /\ def.nodes = ids /\ def.entry \in Ids /\ def.max \in Optional
      /\ def.edges \in Seq(Edges)
      /\ def.type \in [ids -> NodeTypes \cup {"other"}]
      /\ def.join \in [ids -> Ids \cup {None}]
  BY <1>1 DEF NodeMaps
<1>3. \A i \in DOMAIN def.edges : def.edges[i] \in Edges
  BY <1>2
<1> QED BY <1>2, <1>3

\* What Pair and Limit yield for an edge.
LEMMA EdgeTypes ==
  ASSUME WalkerTypeOK, NEW i \in DOMAIN def.edges
  PROVE  /\ def.edges[i].from \in Ids /\ def.edges[i].to \in Ids
         /\ Pair(def, i) \in Ids \X Ids /\ Limit(i) \in Nat
<1>1. def.edges[i] \in Edges /\ def.max \in Optional
  BY DefinitionTypes
<1>2. /\ def.edges[i].from \in Ids /\ def.edges[i].to \in Ids
      /\ def.edges[i].limit \in Optional
  BY <1>1 DEF Edges
<1> QED BY <1>1, <1>2 DEF Pair, Limit, GlobalLimit, Number, Optional

\* The tally counts every edge once at most, and stays a tally.
LEMMA TallyTypes ==
  ASSUME WalkerTypeOK, NEW E, Tally(E)
  PROVE  /\ followed' \in [DOMAIN def.edges -> Nat]
         /\ \A i \in DOMAIN def.edges :
              /\ followed'[i] <= followed[i] + 1
              /\ i \notin E => followed'[i] = followed[i]
  BY EdgeTypes DEF Tally, WalkerTypeOK

LEMMA ReturnTypes ==
  ASSUME WalkerTypeOK, NEW type \in Asking \cup Final, NEW reason \in Reasons \cup {None},
         Return(type, reason)
  PROVE  cmd' \in Commands /\ pc' = "host" /\ cmd'.type = type /\ cmd'.node = cursor
  BY DEF Return, Commands, WalkerTypeOK

\* A step of the loop that only returns a failure or the end.
Ends == /\ pc' = "host" /\ cmd' \in Commands /\ cmd'.type \in Final
        /\ UNCHANGED <<def, flag, cursor, lastNode, pendingErr, iter, followed>>

LEMMA EndsKeeps ==
  ASSUME Inv, Ends, counts' \in [Ids \X Ids -> Nat],
         \A p \in Ids \X Ids : counts[p] <= counts'[p]
  PROVE  Inv'
<1> USE DEF Inv, Ends
<1>1. WalkerTypeOK'
  BY DEF WalkerTypeOK
<1>2. Counted'
  <2> SUFFICES ASSUME NEW i \in DOMAIN def.edges, Deciding(i)
               PROVE  followed[i] <= counts'[Pair(def, i)] /\ followed[i] <= Limit(i)
    BY DEF Counted, Deciding, Limit, GlobalLimit, Number
  <2>1. Pair(def, i) \in Ids \X Ids
    BY EdgeTypes
  <2>2. followed[i] <= counts[Pair(def, i)] /\ followed[i] <= Limit(i)
    BY DEF Counted
  <2>3. followed[i] \in Nat /\ counts[Pair(def, i)] \in Nat /\ counts'[Pair(def, i)] \in Nat
    BY <2>1 DEF WalkerTypeOK
  <2> QED BY <2>1, <2>2, <2>3
<1>3. LastAsked' /\ Protocol'
  BY DEF LastAsked, Protocol, Asking, Final
<1> QED BY <1>1, <1>2, <1>3

------------------------------------------------------------------------------
LEMMA InitInv == Init => Inv
<1> SUFFICES ASSUME Init PROVE Inv
  OBVIOUS
<1>1. PICK ids \in SUBSET Ids : def \in NodeMaps(ids)
  BY DefinitionAssumption DEF Init, IsDefinition
<1>2. def.entry \in Ids
  BY <1>1 DEF NodeMaps
<1>3. WalkerTypeOK
  BY <1>2 DEF Init, NewWalker, WalkerTypeOK, Commands
<1>4. Counted
  <2> SUFFICES ASSUME NEW i \in DOMAIN def.edges
               PROVE  followed[i] <= counts[Pair(def, i)] /\ followed[i] <= Limit(i)
    BY DEF Counted
  <2>1. Pair(def, i) \in Ids \X Ids /\ Limit(i) \in Nat
    BY <1>3, EdgeTypes
  <2> QED BY <2>1 DEF Init, NewWalker
<1>5. LastAsked /\ Protocol
  BY DEF Init, NewWalker, LastAsked, Protocol, Asking
<1> QED BY <1>3, <1>4, <1>5 DEF Inv

LEMMA FollowKeeps == ASSUME Inv, FollowEdge PROVE Inv'
<1> USE DEF Inv
<1>1. PICK e \in Choice :
        /\ Allowed(e)
        /\ counts' = [counts EXCEPT ![Pair(def, e)] = @ + 1]
        /\ Tally({e})
        /\ cursor' = def.edges[e].to
  BY DEF FollowEdge
<1>2. e \in DOMAIN def.edges
  BY DEF Choice, Foremost, Stoppers, OutEdges
<1>3. cursor' \in Ids /\ Pair(def, e) \in Ids \X Ids /\ Limit(e) \in Nat
  BY <1>1, <1>2, EdgeTypes
<1>4. /\ followed' \in [DOMAIN def.edges -> Nat]
      /\ \A i \in DOMAIN def.edges : /\ followed'[i] <= followed[i] + 1
                                     /\ i # e => followed'[i] = followed[i]
  BY <1>1, TallyTypes
<1>5. WalkerTypeOK'
  BY <1>1, <1>3, <1>4 DEF WalkerTypeOK, FollowEdge
<1>6. Counted'
  <2> SUFFICES ASSUME NEW i \in DOMAIN def.edges, Deciding(i)
               PROVE  followed'[i] <= counts'[Pair(def, i)] /\ followed'[i] <= Limit(i)
    BY DEF FollowEdge, Counted, Deciding, Limit, GlobalLimit, Number, Pair
  <2>1. /\ Pair(def, i) \in Ids \X Ids /\ Limit(i) \in Nat
        /\ followed[i] \in Nat /\ followed'[i] \in Nat
        /\ followed[i] <= counts[Pair(def, i)] /\ followed[i] <= Limit(i)
    BY <1>4, EdgeTypes DEF Counted, WalkerTypeOK
  <2>2. counts[Pair(def, i)] \in Nat /\ counts'[Pair(def, i)] \in Nat
    BY <1>5, <2>1 DEF WalkerTypeOK
  <2>3. counts'[Pair(def, i)] = IF Pair(def, i) = Pair(def, e)
                                THEN counts[Pair(def, i)] + 1 ELSE counts[Pair(def, i)]
    BY <1>1, <1>3, <2>1 DEF WalkerTypeOK
  <2>4. CASE i = e
    BY <1>1, <1>4, <2>1, <2>2, <2>3, <2>4 DEF Allowed
  <2>5. CASE i # e
    BY <1>4, <2>1, <2>2, <2>3, <2>5
  <2> QED BY <2>4, <2>5
<1>7. LastAsked' /\ Protocol'
  BY DEF FollowEdge, LastAsked, Protocol, Choosing, At, Iterating, Asking
<1> QED BY <1>5, <1>6, <1>7

LEMMA ResolveKeeps ==
  ASSUME Inv, NEW update \in {flag, "true", "false"}, NEW signalled \in BOOLEAN,
         ResolveOk(update, signalled)
  PROVE  Inv'
<1> USE DEF Inv
<1>1. cmd' \in Commands /\ cmd'.type = "none" /\ pc = "host" /\ pc' = "host"
  BY DEF ResolveOk, MayResolve, Resolved, Commands, WalkerTypeOK
<1>2. /\ cursor' \in Ids /\ followed' \in [DOMAIN def.edges -> Nat]
      /\ \A i \in DOMAIN def.edges : Deciding(i) => followed'[i] = followed[i]
  <2>1. CASE lastNode \notin def.nodes
    BY <2>1 DEF ResolveOk, WalkerTypeOK
  <2>2. CASE lastNode \in def.nodes
    <3>1. /\ cursor' \in Destinations(signalled)
          /\ Tally(Way(signalled))
      BY <2>2 DEF ResolveOk
    <3>2. \A i \in Way(signalled) : i \in DOMAIN def.edges /\ def.edges[i].from = lastNode
      BY DEF Way, FirstEdge, OutEdges
    <3>3. lastNode # None
      BY <2>2, NoneAssumption, DefinitionTypes
    <3>4. \A i \in Way(signalled) : ~Deciding(i)
      BY <3>2, <3>3 DEF LastAsked, Deciding
    <3>5. Join \subseteq Ids
      BY <2>2, DefinitionTypes DEF Join
    <3>6. \A i \in Way(signalled) : def.edges[i].to \in Ids
      BY <3>2, EdgeTypes
    <3>7. cursor' \in Ids
      BY <3>1, <3>5, <3>6 DEF Destinations, WalkerTypeOK
    <3> QED BY <3>1, <3>4, <3>7, TallyTypes
  <2> QED BY <2>1, <2>2
<1>3. WalkerTypeOK'
  BY <1>1, <1>2 DEF ResolveOk, WalkerTypeOK, Flags
<1>4. Counted'
  BY <1>2 DEF ResolveOk, Counted, Deciding, Limit, GlobalLimit, Number, Pair
<1>5. LastAsked' /\ Protocol'
  BY <1>1 DEF ResolveOk, LastAsked, Protocol, Asking
<1> QED BY <1>3, <1>4, <1>5

LEMMA InvStep == Inv /\ [Next]_vars => Inv'
<1> SUFFICES ASSUME Inv, [Next]_vars PROVE Inv'
  OBVIOUS
<1> USE DEF Inv
<1> DEFINE Same == UNCHANGED <<def, counts, followed>>
<1>1. Same => Counted'
  BY DEF Counted, Deciding, Limit, GlobalLimit, Number, Pair
<1>2. ASSUME CallNext PROVE Inv'
  BY <1>1, <1>2 DEF CallNext, MayCall, WalkerTypeOK, LastAsked, Protocol
<1>3. ASSUME ReportError PROVE Inv'
  <2>1. cmd' \in Commands /\ pc' = "host" /\ cmd'.type = "fail"
    BY <1>3, ReturnTypes DEF ReportError, Final, Reasons
  <2> QED
    BY <1>1, <1>3, <2>1
    DEF ReportError, WalkerTypeOK, LastAsked, Protocol, Asking
<1>4. ASSUME Exhaust \/ FailHere \/ Complete \/ FailToChoose PROVE Inv'
  <2>1. Ends /\ UNCHANGED counts
    BY <1>4, ReturnTypes DEF Exhaust, FailHere, Complete, FailToChoose, Ends, Final, Reasons
  <2> QED
    BY <2>1, EndsKeeps DEF WalkerTypeOK
<1>5. ASSUME RefuseEdge PROVE Inv'
  <2>1. PICK e \in Choice : counts' = [counts EXCEPT ![Pair(def, e)] = @ + 1]
    BY <1>5 DEF RefuseEdge
  <2>2. Pair(def, e) \in Ids \X Ids
    BY EdgeTypes DEF Choice, Foremost, Stoppers, OutEdges
  <2>3. Ends
    BY <1>5, ReturnTypes DEF RefuseEdge, Ends, Final, Reasons
  <2>4. counts' \in [Ids \X Ids -> Nat] /\ \A p \in Ids \X Ids : counts[p] <= counts'[p]
    BY <2>1, <2>2 DEF WalkerTypeOK
  <2> QED BY <2>3, <2>4, EndsKeeps
<1>6. ASSUME FollowEdge PROVE Inv'
  BY <1>6, FollowKeeps
<1>7. ASSUME Panic PROVE Inv'
  BY <1>1, <1>7 DEF Panic, At, Iterating, WalkerTypeOK, LastAsked, Protocol
<1>8. ASSUME AskToExecute PROVE Inv'
  <2>1. cmd' \in Commands /\ pc' = "host" /\ cmd'.node = cursor
    BY <1>8, ReturnTypes DEF AskToExecute, Asking, Final, Reasons
  <2> QED
    BY <1>1, <1>8, <2>1
    DEF AskToExecute, At, Iterating, WalkerTypeOK, LastAsked, Protocol
<1>9. ASSUME AskHost PROVE Inv'
  <2>1. cmd' \in Commands /\ pc' = "host" /\ cmd'.node = cursor
    BY <1>9, ReturnTypes DEF AskHost, Asking
  <2> QED
    BY <1>1, <1>9, <2>1
    DEF AskHost, At, Iterating, WalkerTypeOK, LastAsked, Protocol
<1>10. ASSUME ResolveError PROVE Inv'
  BY <1>1, <1>10
  DEF ResolveError, MayResolve, Resolved, WalkerTypeOK, Commands, LastAsked, Protocol, Asking
<1>11. CASE UNCHANGED vars
  BY <1>1, <1>11 DEF vars, WalkerTypeOK, LastAsked, Protocol
<1> QED
  BY <1>2, <1>3, <1>4, <1>5, <1>6, <1>7, <1>8, <1>9, <1>10, <1>11, ResolveKeeps
  DEF Next, Step, Resolve

LEMMA Invariance == Spec => []Inv
  BY InitInv, InvStep, PTL DEF Spec

\* Type correctness of the walker.
THEOREM TypeCorrect == Spec => []WalkerTypeOK
  BY Invariance, PTL DEF Inv

\* However the host calls the walker, a decision follows no edge more often
\* than the limit of the edge, or else of the definition, allows.
THEOREM LimitsKept == Spec => []EdgeLimits
<1>1. Inv => EdgeLimits
  BY DEF Inv, Counted, Deciding, EdgeLimits
<1> QED BY <1>1, Invariance, PTL

\* With a host that keeps to the protocol Resolve is always about the node the
\* cursor is at, and so the cursor only moves along the graph.
THEOREM NeverJumps == ASSUME Disciplined PROVE Spec => FollowsGraph
<1> DEFINE Move == \/ \E i \in OutEdges(def, cursor) : cursor' = def.edges[i].to
                   \/ def.type[cursor] = "fork" /\ cursor' = def.join[cursor]
<1>1. ASSUME Inv, [Next]_vars, cursor' # cursor PROVE Move
  <2>1. CASE FollowEdge
    BY <2>1 DEF FollowEdge, Choice, Foremost, Stoppers
  <2>2. ASSUME NEW update, NEW signalled, ResolveOk(update, signalled) PROVE Move
    <3>1. cmd.type \in Asking /\ lastNode = cursor /\ lastNode \in def.nodes
      BY <1>1, <2>2, NoneAssumption
      DEF ResolveOk, MayResolve, Inv, Protocol, LastAsked, WalkerTypeOK
    <3>2. cursor' \in Destinations(signalled)
      BY <2>2, <3>1 DEF ResolveOk
    <3>3. CASE cursor' \in Join
      BY <3>1, <3>3 DEF Join
    <3>4. CASE cursor' \notin Join
      BY <1>1, <3>1, <3>2, <3>4 DEF Destinations, Way, FirstEdge
    <3> QED BY <3>3, <3>4
  <2> QED
    BY <1>1, <2>1, <2>2
    DEF Next, Step, Resolve, ResolveError, CallNext, ReportError, Exhaust, FailHere, Complete,
        RefuseEdge, FailToChoose, Panic, AskToExecute, AskHost, vars
<1>2. Inv /\ [Next]_vars => [cursor' # cursor => Move]_vars
  BY <1>1
<1> QED
  BY <1>2, Invariance, PTL DEF Spec, FollowsGraph

\* Whatever the host does, an answer applies to the node last asked about, and
\* nothing but decisions is passed between where it leads to and the cursor.
THEOREM AnswersSkipNothing == Spec => []NoNodeSkipped
<1>1. Init => NoNodeSkipped
  BY DEF Init, NewWalker, NoNodeSkipped, AnswerLeads
<1>2. Inv /\ NoNodeSkipped /\ [Next]_vars => NoNodeSkipped'
  <2> SUFFICES ASSUME Inv, NoNodeSkipped, [Next]_vars,
                      NEW S \in SUBSET Ids, AnswerLeads(lastNode)' \subseteq S, DecidedWithin(S)'
               PROVE  cursor' \in S
    BY DEF NoNodeSkipped
  <2>1. def' = def
    BY DEF vars, Next, Step, Resolve, ResolveOk, ResolveError, CallNext, ReportError,
       Exhaust, FailHere, Complete, FollowEdge, RefuseEdge, FailToChoose, Panic,
       AskToExecute, AskHost
  <2>2. DecidedWithin(S)
    BY <2>1 DEF DecidedWithin
  <2>3. lastNode' = lastNode => AnswerLeads(lastNode) \subseteq S /\ cursor \in S
    BY <2>1, <2>2 DEF NoNodeSkipped, AnswerLeads
  <2>4. ASSUME AskToExecute \/ AskHost PROVE cursor' \in S
    <3>1. cursor' = cursor /\ lastNode' = cursor /\ cursor # None
      BY <2>4, NoneAssumption DEF AskToExecute, AskHost, Inv, WalkerTypeOK
    <3> QED BY <2>1, <3>1 DEF AnswerLeads
  <2>5. ASSUME FollowEdge PROVE cursor' \in S
    <3>1. lastNode' = lastNode /\ cursor \in def.nodes /\ def.type[cursor] \in {"decision", "terminal"}
      BY <2>5 DEF FollowEdge, Choosing, At
    <3>2. PICK i \in DOMAIN def.edges : def.edges[i].from = cursor /\ cursor' = def.edges[i].to
      BY <2>5 DEF FollowEdge, Choice, Foremost, Stoppers, OutEdges
    <3> QED BY <2>2, <2>3, <3>1, <3>2 DEF DecidedWithin
  <2>6. ASSUME NEW update, NEW signalled, ResolveOk(update, signalled) PROVE cursor' \in S
    <3>1. lastNode' = lastNode
      BY <2>6 DEF ResolveOk
    <3>2. CASE lastNode \in def.nodes
      <4>1. cursor' \in Destinations(signalled) /\ lastNode # None
        BY <2>6, <3>2, DefinitionTypes, NoneAssumption DEF ResolveOk, Inv
      <4>2. Join \cup {def.edges[i].to : i \in Way(signalled)} \subseteq AnswerLeads(lastNode)
        BY <4>1 DEF Join, Way, AnswerLeads
      <4> QED BY <2>3, <3>1, <4>1, <4>2 DEF Destinations
    <3> QED BY <2>3, <2>6, <3>1, <3>2 DEF ResolveOk
  <2>7. ASSUME CallNext \/ ReportError \/ Exhaust \/ FailHere \/ Complete \/ RefuseEdge
               \/ FailToChoose \/ Panic \/ ResolveError \/ UNCHANGED vars
        PROVE  cursor' \in S
    BY <2>3, <2>7 DEF CallNext, ReportError, Exhaust, FailHere, Complete, RefuseEdge,
       FailToChoose, Panic, ResolveError, vars
  <2> QED BY <2>4, <2>5, <2>6, <2>7 DEF Next, Step, Resolve
<1> QED BY <1>1, <1>2, Invariance, PTL DEF Spec

------------------------------------------------------------------------------
\* A valid definition and the walker: where an edge, a join or the entry leads
\* to is a node, and a node has a known type.
LEMMA SoundInit == Init => SoundWhenValid
<1> SUFFICES ASSUME Init, Valid(def) PROVE SoundWhenValid
  BY DEF SoundWhenValid
<1>1. def.entry \in def.nodes
  BY ValidParts, DefinitionAssumption DEF Init
<1> QED BY <1>1 DEF Init, NewWalker, SoundWhenValid

LEMMA SoundStep == Inv /\ SoundWhenValid /\ [Next]_vars => SoundWhenValid'
<1> SUFFICES ASSUME Inv, SoundWhenValid, [Next]_vars, Valid(def), def' = def
             PROVE  SoundWhenValid'
  <2>1. ASSUME [Next]_vars PROVE def' = def
    BY <2>1 DEF vars, Next, Step, Resolve, ResolveOk, ResolveError, CallNext, ReportError,
       Exhaust, FailHere, Complete, FollowEdge, RefuseEdge, FailToChoose, Panic,
       AskToExecute, AskHost
  <2> QED BY <2>1 DEF SoundWhenValid
<1> DEFINE InTime == (Reasons \ {"missing", "unknown type"}) \cup {None}
           Fine == cmd'.reason \in InTime
<1>1. /\ cursor \in def.nodes /\ pc # "panicked"
      /\ cmd.reason \in InTime
  BY DEF SoundWhenValid
<1>2. IsDefinition(def)
  BY DefinitionAssumption DEF Inv, WalkerTypeOK
<1>3. /\ def.type[cursor] \in NodeTypes
      /\ \A i \in DOMAIN def.edges : def.edges[i].to \in def.nodes
      /\ def.type[cursor] = "decision" => OutEdges(def, cursor) # {}
      /\ \A n \in def.nodes : def.type[n] = "fork" => def.join[n] \in def.nodes
  BY <1>1, <1>2, ValidParts DEF OfType
<1>4. cursor' = cursor /\ pc' # "panicked" /\ Fine => SoundWhenValid'
  BY <1>1 DEF SoundWhenValid
<1>5. ASSUME UNCHANGED <<cursor, cmd>>, pc' # "panicked" PROVE SoundWhenValid'
  BY <1>1, <1>4, <1>5
<1>6. ASSUME NEW type, NEW reason \in InTime,
             Return(type, reason), cursor' = cursor
      PROVE  SoundWhenValid'
  BY <1>4, <1>6 DEF Return
<1>7. ASSUME ReportError \/ Exhaust \/ Complete \/ RefuseEdge \/ FailToChoose PROVE SoundWhenValid'
  BY <1>6, <1>7 DEF ReportError, Exhaust, Complete, RefuseEdge, FailToChoose, Reasons
<1>8. ASSUME FailHere \/ Panic PROVE FALSE
  BY <1>1, <1>3, <1>8 DEF FailHere, Panic, At, NodeTypes
<1>9. ASSUME CallNext PROVE SoundWhenValid'
  BY <1>5, <1>9 DEF CallNext
<1>10. ASSUME AskToExecute PROVE SoundWhenValid'
  BY <1>6, <1>10 DEF AskToExecute, Reasons
<1>11. ASSUME AskHost PROVE SoundWhenValid'
  BY <1>6, <1>11 DEF AskHost, Reasons
<1>12. ASSUME FollowEdge PROVE SoundWhenValid'
  <2>1. cursor' \in def.nodes
    BY <1>3, <1>12 DEF FollowEdge, Choice, Foremost, Stoppers, OutEdges
  <2> QED BY <1>1, <1>12, <2>1 DEF FollowEdge, SoundWhenValid
<1>13. ASSUME ResolveError PROVE SoundWhenValid'
  <2>1. Fine
    BY <1>13 DEF ResolveError, Resolved, Inv, WalkerTypeOK, Commands
  <2> QED BY <1>1, <1>4, <1>13, <2>1 DEF ResolveError
<1>14. ASSUME NEW update, NEW signalled, ResolveOk(update, signalled) PROVE SoundWhenValid'
  <2>1. Fine
    BY <1>14 DEF ResolveOk, Resolved, Inv, WalkerTypeOK, Commands
  <2>2. cursor' \in def.nodes
    <3>1. CASE lastNode \notin def.nodes
      BY <1>1, <1>14, <3>1 DEF ResolveOk
    <3>2. CASE lastNode \in def.nodes
      <4>1. cursor' \in Destinations(signalled)
        BY <1>14, <3>2 DEF ResolveOk
      <4>2. Join \subseteq def.nodes
        BY <1>3, <3>2 DEF Join
      <4>3. Way(signalled) \subseteq DOMAIN def.edges
        BY DEF Way, FirstEdge, OutEdges
      <4> QED BY <1>1, <1>3, <4>1, <4>2, <4>3 DEF Destinations
    <3> QED BY <3>1, <3>2
  <2> QED BY <1>1, <1>14, <2>1, <2>2 DEF ResolveOk, SoundWhenValid
<1>15. CASE UNCHANGED vars
  BY <1>1, <1>5, <1>15 DEF vars
<1> QED
  BY <1>7, <1>8, <1>9, <1>10, <1>11, <1>12, <1>13, <1>14, <1>15 DEF Next, Step, Resolve

\* A definition that the TypeScript validator accepts fails for its form in no
\* Go walker, whatever the host does with it.
THEOREM ValidIsSoundInGo == Spec => []SoundWhenValid
  BY SoundInit, SoundStep, Invariance, PTL DEF Spec
==============================================================================
