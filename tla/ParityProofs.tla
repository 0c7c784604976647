----------------------------- MODULE ParityProofs -----------------------------
(***************************************************************************)
(* The two walkers part only for the reasons WalkerParity names, for every  *)
(* set of definitions.                                                      *)
(*                                                                         *)
(* While they are together they are at the same node, and when they asked   *)
(* the host, the Go walker noted this node (Asked).  Their loop guards need *)
(* not agree, but they do for the edges that leave decisions (Tallied): so  *)
(* both choose the same edge (SameChoice) and allow it alike (SameLimit).   *)
(* The proof has two parts.  A step after which they agree keeps this       *)
(* invariant, whatever reasons there were to part (AgreeKeeps); and without *)
(* a reason they agree after each step that both take (BothAgree).          *)
(***************************************************************************)
EXTENDS WalkerParity, TsWalkerProofs, FiniteSetTheorems

GoCommands == [type : Asking \cup Final \cup {"none"}, node : Ids \cup {None},
               reason : Reasons \cup {"exhausted", None}]

GoTypeOK ==
  /\ goCmd \in GoCommands
  /\ goCounts \in [Ids \X Ids -> Nat]
  /\ goIter \in Nat

\* The type of node that each question is about.
Questioner(type) ==
  CASE type = "execute_action" -> "action"
    [] type = "execute_workflow" -> "workflow"
    [] type = "fork" -> "fork"
    [] OTHER -> "gate"

Asked == cmd.type \in Asking =>
  /\ goLastNode = cursor /\ cursor \in def.nodes
  /\ def.type[cursor] = Questioner(cmd.type)

Tallied == \A p \in Ids \X Ids :
  p[1] \in def.nodes /\ def.type[p[1]] = "decision" => goCounts[p] = counts[p]

Together ==
  /\ GoTypeOK /\ Agree /\ Asked
  /\ cmd.type \notin Final => Tallied
  /\ stop = None
  /\ pendingErr # None => pendingErr = "resolved" /\ pc = "host" /\ cmd.type = "none"
  /\ pc = "walking" => cmd.type \in {"new", "none"}

PairInv == Inv /\ (together => Together)

Reason ==
  \/ LoopBound \/ GuardsAdvance \/ GateTimesOut \/ LimitNotPositive \/ CountsDiffer
  \/ UnstableTies \/ IllFormed

------------------------------------------------------------------------------
\* The two walkers read definitions alike.
LEMMA SameGraph ==
  /\ \A d, n : GoWalker!OutEdges(d, n) = OutEdges(d, n)
  /\ \A d, n : GoWalker!FirstEdge(d, n) = FirstEdge(d, n)
  /\ \A d, i : GoWalker!Pair(d, i) = Pair(d, i)
  /\ \A d, E : GoWalker!Foremost(d, E) = Foremost(d, E)
  /\ \A c, f, l : GoWalker!Evaluate(c, f, l) = Evaluate(c, f, l)
  /\ \A e, f : GoWalker!InputFails(e, f) = InputFails(e, f)
  /\ \A S : GoWalker!Cardinality(S) = Cardinality(S)
<1>1. \A d, n : GoWalker!OutEdges(d, n) = OutEdges(d, n)
  BY DEF GoWalker!OutEdges, OutEdges
<1>2. \A d, n : GoWalker!FirstEdge(d, n) = FirstEdge(d, n)
  BY <1>1 DEF GoWalker!FirstEdge, FirstEdge
<1>3. \A d, i : GoWalker!Pair(d, i) = Pair(d, i)
  BY DEF GoWalker!Pair, Pair
<1>4. \A d, E : GoWalker!Foremost(d, E) = Foremost(d, E)
  BY DEF GoWalker!Foremost, Foremost, GoWalker!Precedes, Precedes
<1>5. \A c, f, l : GoWalker!Evaluate(c, f, l) = Evaluate(c, f, l)
  BY DEF GoWalker!Evaluate, Evaluate
<1>6. \A e, f : GoWalker!InputFails(e, f) = InputFails(e, f)
  BY DEF GoWalker!InputFails, InputFails
<1>7. \A S : GoWalker!Cardinality(S) = Cardinality(S)
  BY DEF GoWalker!Cardinality, Cardinality, GoWalker!IsFiniteSet, IsFiniteSet
<1> QED BY <1>1, <1>2, <1>3, <1>4, <1>5, <1>6, <1>7

LEMMA OutEdgeTypes ==
  ASSUME def \in Definitions, NEW i \in OutEdges(def, cursor)
  PROVE  /\ i \in Nat /\ i \in DOMAIN def.edges /\ def.edges[i].from = cursor
         /\ def.edges[i].priority \in Int
         /\ def.edges[i].limit \in Optional
         /\ def.edges[i].when \in Conditions
<1>1. PICK ids \in SUBSET Ids : def \in NodeMaps(ids)
  BY DefinitionAssumption DEF IsDefinition
<1>2. def.edges \in Seq(Edges) /\ i \in DOMAIN def.edges /\ def.edges[i].from = cursor
  BY <1>1 DEF NodeMaps, OutEdges
<1>3. i \in Nat /\ def.edges[i] \in Edges
  BY <1>2
<1> QED BY <1>2, <1>3 DEF Edges

LEMMA OutEdgesFinite == ASSUME def \in Definitions PROVE Cardinality(OutEdges(def, cursor)) \in Nat
<1>1. PICK ids \in SUBSET Ids : def \in NodeMaps(ids)
  BY DefinitionAssumption DEF IsDefinition
<1>2. def.edges \in Seq(Edges)
  BY <1>1 DEF NodeMaps
<1>3. DOMAIN def.edges = 1..Len(def.edges) /\ Len(def.edges) \in Nat
  BY <1>2
<1>4. OutEdges(def, cursor) \subseteq 1..Len(def.edges)
  BY <1>3 DEF OutEdges
<1>5. IsFiniteSet(1..Len(def.edges))
  BY <1>3, FS_Interval
<1> QED BY <1>4, <1>5, FS_Subset, FS_CardinalityType

\* Unless counts that a condition reads differ, each condition evaluates to
\* the same.
LEMMA SameVerdict ==
  ASSUME ~CountsDiffer, At({"decision"}), NEW i \in OutEdges(def, cursor)
  PROVE  Evaluate(def.edges[i].when, flag, goCounts) = Evaluate(def.edges[i].when, flag, counts)
<1>1. def.edges[i].when.kind = "below"
        => counts[def.edges[i].when.pair] = goCounts[def.edges[i].when.pair]
  BY DEF CountsDiffer
<1> QED BY <1>1 DEF Evaluate

\* And unless priorities tie among many edges, both choose the same edge.
LEMMA SameChoice ==
  ASSUME def \in Definitions, goCursor = cursor, At({"decision"}), ~CountsDiffer, ~UnstableTies
  PROVE  GoWalker!Choice = Choice
<1> DEFINE E == Stoppers(def, cursor, flag, counts)
<1>1. GoWalker!Stoppers(def, cursor, flag, goCounts) = E
  BY SameGraph, SameVerdict DEF GoWalker!Stoppers, Stoppers
<1>2. CASE Cardinality(OutEdges(def, cursor)) <= StableUpTo
  <2>1. GoWalker!OutEdges(def, goCursor) = OutEdges(def, cursor)
        /\ GoWalker!Stoppers(def, goCursor, flag, goCounts) = E
        /\ GoWalker!Cardinality(OutEdges(def, cursor)) = Cardinality(OutEdges(def, cursor))
    BY <1>1, SameGraph
  <2> HIDE DEF E
  <2>2. GoWalker!Choice = GoWalker!Foremost(def, E)
    BY <1>2, <2>1 DEF GoWalker!Choice
  <2> QED BY <2>2, SameGraph DEF Choice, E
<1>3. CASE ~(Cardinality(OutEdges(def, cursor)) <= StableUpTo)
  <2>1. \A i, j \in OutEdges(def, cursor) :
          i # j => def.edges[i].priority # def.edges[j].priority
    BY <1>3, OutEdgesFinite, StableAssumption DEF UnstableTies
  <2>2. \A i, j \in E : Precedes(def, i, j) <=> def.edges[i].priority <= def.edges[j].priority
    BY <2>1, OutEdgeTypes DEF Stoppers, Precedes
  <2>3. GoWalker!Choice = {i \in E : \A j \in E : def.edges[i].priority <= def.edges[j].priority}
    <3>1. GoWalker!OutEdges(def, goCursor) = OutEdges(def, cursor)
          /\ GoWalker!Stoppers(def, goCursor, flag, goCounts) = E
          /\ GoWalker!Cardinality(OutEdges(def, cursor)) = Cardinality(OutEdges(def, cursor))
      BY <1>1, SameGraph
    <3> HIDE DEF E
    <3> QED BY <1>3, <3>1 DEF GoWalker!Choice
  <2> QED BY <2>2, <2>3 DEF Choice, Foremost
<1> QED BY <1>2, <1>3

\* There is one edge to choose at most, and one first edge.
LEMMA OneChoice ==
  ASSUME def \in Definitions
  PROVE  /\ \A i, j \in Choice : i = j
         /\ \A i, j \in FirstEdge(def, cursor) : i = j
         /\ Choice \subseteq OutEdges(def, cursor)
         /\ FirstEdge(def, cursor) \subseteq OutEdges(def, cursor)
<1>1. Choice \subseteq OutEdges(def, cursor) /\ FirstEdge(def, cursor) \subseteq OutEdges(def, cursor)
  <2>1. Choice \subseteq Stoppers(def, cursor, flag, counts)
    BY DEF Choice, Foremost
  <2>2. Stoppers(def, cursor, flag, counts) \subseteq OutEdges(def, cursor)
    BY DEF Stoppers
  <2> QED BY <2>1, <2>2 DEF FirstEdge
<1>2. \A i, j \in FirstEdge(def, cursor) : i = j
  BY <1>1, OutEdgeTypes DEF FirstEdge
<1>3. ASSUME NEW i \in Choice, NEW j \in Choice PROVE i = j
  <2>1. Precedes(def, i, j) /\ Precedes(def, j, i)
    BY DEF Choice, Foremost
  <2> QED BY <1>1, <2>1, OutEdgeTypes DEF Precedes
<1> QED BY <1>1, <1>2, <1>3

\* While the Go walker's loop runs, positive limits are the same.
LEMMA SameLimit ==
  ASSUME def \in Definitions, goIter \in Nat, GoWalker!Iterating,
         NEW i \in OutEdges(def, cursor), def.edges[i].limit = None \/ def.edges[i].limit > 0
  PROVE  GoWalker!Limit(i) = Limit(i)
<1>1. def.max \in Optional /\ def.edges[i].limit \in Optional
  BY DefinitionTypes, OutEdgeTypes
<1>2. def.max # None /\ def.max \in Int /\ def.max > 0
  BY <1>1 DEF GoWalker!Iterating, GoWalker!Number, Optional
<1>3. GoWalker!GlobalLimit = def.max
  BY <1>2 DEF GoWalker!GlobalLimit, GoWalker!Number
<1>4. CASE def.edges[i].limit = None
  BY <1>2, <1>3, <1>4 DEF GoWalker!Limit, GoWalker!Number, Limit
<1>5. CASE def.edges[i].limit # None
  <2>1. def.edges[i].limit \in Int /\ def.edges[i].limit > 0
    BY <1>1, <1>5 DEF Optional
  <2> QED BY <1>5, <2>1 DEF GoWalker!Limit, GoWalker!Number, Limit
<1> QED BY <1>4, <1>5

\* What follows if the definition is well formed at the cursor.
LEMMA WellFormed ==
  ASSUME ~IllFormed, cursor \in def.nodes
  PROVE  /\ At({"decision"}) => OutEdges(def, cursor) # {}
         /\ At({"terminal"}) => OutEdges(def, cursor) = {}
         /\ cmd.type = "fork" /\ def.type[cursor] = "fork" => def.join[cursor] # None
<1>1. CASE Valid(def)
  <2>1. DegreeOK(def, cursor) /\ SchemaOK(def)
    BY <1>1 DEF Valid, ValidGraph
  <2> QED BY <2>1 DEF DegreeOK, SchemaOK, OfType, At
<1>2. CASE ~Valid(def)
  BY <1>2 DEF IllFormed
<1> QED BY <1>1, <1>2

------------------------------------------------------------------------------
(* As long as they agree, they remain together. *)

LEMMA Walking ==
  ASSUME PairInv, together, pc = "walking"
  PROVE  Tallied /\ pendingErr = None /\ cmd.type \notin Asking \cup Final
BY DEF PairInv, Together, Asking, Final

LEMMA Answering ==
  ASSUME PairInv, together, cmd.type \in Asking
  PROVE  Tallied /\ pendingErr = None
BY DEF PairInv, Together, Asking, Final

LEMMA CallBoth ==
  ASSUME PairInv, together, CallNext, GoWalker!CallNext, UNCHANGED stray
  PROVE  Together'
<1>1. stray \in Nat
  BY StrayAssumption DEF PairInv, Inv, TsWalkerTypeOK
<1>2. cmd.type \in {"new", "none"}
  BY <1>1 DEF CallNext, CallsNext, Call, NextInTurn
<1> QED
  BY <1>2
  DEF PairInv, Together, GoTypeOK, Agree, Asked, Tallied, CallNext, CallsNext, GoWalker!CallNext,
      Final

LEMMA ReportBoth ==
  ASSUME PairInv, together, ReportError, GoWalker!ReportError
  PROVE  Together'
<1>1. cmd' = [type |-> "fail", node |-> cursor, reason |-> "resolved"]
  BY DEF PairInv, Together, ReportError, ReportsError, Return
<1>2. goCmd' = [type |-> "fail", node |-> cursor, reason |-> "resolved"]
  BY DEF PairInv, Together, Agree, GoWalker!ReportError, GoWalker!Return
<1>3. goCmd' \in GoCommands
  BY <1>2 DEF GoCommands, Final, Reasons, RunTimeReasons, PairInv, Inv, TsWalkerTypeOK
<1>4. /\ UNCHANGED <<def, cursor, stop, counts>> /\ pendingErr' = None /\ pc' = "host"
      /\ UNCHANGED <<goCursor, goCounts, goIter>> /\ goPendingErr' = FALSE /\ goPc' = "host"
  BY DEF ReportError, ReportsError, Return, GoWalker!ReportError, GoWalker!Return
<1>5. Agree'
  BY <1>1, <1>2, <1>4 DEF PairInv, Together, Agree
<1>6. Asked' /\ cmd'.type \in Final
  BY <1>1 DEF Asked, Asking, Final
<1> QED
  BY <1>3, <1>4, <1>5, <1>6 DEF PairInv, Together, GoTypeOK

LEMMA ErrorBoth ==
  ASSUME PairInv, together, ResolvesError(ResolveInTurn), GoWalker!ResolveError
  PROVE  Together'
<1>1. cmd' = [cmd EXCEPT !.type = "none", !.reason = None]
      /\ goCmd' = [goCmd EXCEPT !.type = "none", !.reason = None]
  BY DEF ResolvesError, Resolved, GoWalker!ResolveError, GoWalker!Resolved
<1>2. cmd'.type = "none" /\ cmd'.reason = None
  BY <1>1 DEF PairInv, Inv, TsWalkerTypeOK, Commands
<1>3. goCmd' \in GoCommands /\ goCmd'.type = "none" /\ goCmd'.reason = None
  BY <1>1 DEF PairInv, Together, GoTypeOK, GoCommands
<1>4. /\ UNCHANGED <<def, cursor, stop, counts, goCursor, goCounts, goIter>>
      /\ pendingErr' = "resolved" /\ goPendingErr' = TRUE /\ pc' = "host" /\ goPc' = "host"
  BY DEF ResolvesError, Call, GoWalker!ResolveError, GoWalker!MayResolve
<1>w. Tallied
  <2>1. cmd.type \in Asking
    BY DEF PairInv, Together, Agree, GoWalker!ResolveError, GoWalker!MayResolve, GoWalker!Asking,
       Asking
  <2> QED BY <2>1, Answering
<1>5. None # "resolved"
  BY ReasonAssumption DEF Reasons, RunTimeReasons
<1> QED
  BY <1>2, <1>3, <1>4, <1>5, <1>w DEF PairInv, Together, GoTypeOK, Agree, Asked, Tallied, Asking

\* One counted the traversal as the other did.
LEMMA CountBoth ==
  ASSUME PairInv, together, pc = "walking", NEW i \in OutEdges(def, cursor), Count(i), UNCHANGED def,
         goCounts' = [goCounts EXCEPT ![Pair(def, i)] = @ + 1]
  PROVE  Tallied'
<1>1. i \in DOMAIN def.edges /\ Pair(def, i) \in Ids \X Ids
  BY EdgeTypes DEF PairInv, Inv, TsWalkerTypeOK, OutEdges
<1>2. \A p \in Ids \X Ids : counts'[p] = IF p = Pair(def, i) THEN counts[p] + 1 ELSE counts[p]
  BY <1>1, CountTypes DEF PairInv, Inv
<1>3. /\ goCounts' \in [Ids \X Ids -> Nat]
      /\ \A p \in Ids \X Ids :
           goCounts'[p] = IF p = Pair(def, i) THEN goCounts[p] + 1 ELSE goCounts[p]
  BY <1>1 DEF PairInv, Together, GoTypeOK
<1> QED BY <1>2, <1>3, Walking DEF Tallied

\* A turn of the loop after which they agree.
LEMMA StepKeeps ==
  ASSUME PairInv, together, Step, GoWalker!Step, Agree'
  PROVE  Together'
<1>1. /\ goCursor = cursor /\ cursor \in Ids \cup {None} /\ def \in Definitions
      /\ goCounts \in [Ids \X Ids -> Nat] /\ goIter \in Nat /\ goCmd \in GoCommands
      /\ goPc' = pc' /\ goCursor' = cursor'
  BY DEF PairInv, Inv, TsWalkerTypeOK, Together, GoTypeOK, Agree
<1>2. pc = "walking" /\ Tallied /\ pendingErr = None /\ cmd.type \notin Asking \cup Final
  BY Walking DEF Step, Complete, FailHere, FollowEdge, RefuseEdge, FailToChoose, AskToExecute,
     AskHost, At, AtStop
<1>3. UNCHANGED <<def, stop, pendingErr>>
  BY DEF Step, Complete, FailHere, FollowEdge, RefuseEdge, FailToChoose, AskToExecute, AskHost, Ended
<1>4. goIter' \in Nat
  <2>1. GoWalker!FollowEdge => goIter' = goIter + 1
    BY DEF GoWalker!FollowEdge
  <2>2. ~GoWalker!FollowEdge => UNCHANGED goIter
    BY DEF GoWalker!Step, GoWalker!Exhaust, GoWalker!FailHere, GoWalker!Complete,
       GoWalker!RefuseEdge, GoWalker!FailToChoose, GoWalker!Panic,
       GoWalker!AskToExecute, GoWalker!AskHost
  <2> QED BY <1>1, <2>1, <2>2
<1>5. \/ UNCHANGED goCounts
      \/ \E p : goCounts' = [goCounts EXCEPT ![p] = @ + 1]
  BY DEF GoWalker!Step, GoWalker!Exhaust, GoWalker!FailHere, GoWalker!Complete,
     GoWalker!FollowEdge, GoWalker!RefuseEdge, GoWalker!FailToChoose, GoWalker!Panic,
     GoWalker!AskToExecute, GoWalker!AskHost
<1>6. goCounts' \in [Ids \X Ids -> Nat]
  BY <1>1, <1>5
<1>7. \/ UNCHANGED <<goCmd, goPc>> /\ GoWalker!FollowEdge
      \/ goPc' = "panicked"
      \/ /\ goPc' = "host"
         /\ \E type \in Final, reason \in Reasons \cup {"exhausted", None} :
              GoWalker!Return(type, reason)
      \/ /\ goPc' = "host" /\ goLastNode' = cursor /\ UNCHANGED goCounts
         /\ \E type \in Asking : GoWalker!Return(type, None)
  BY <1>1 DEF GoWalker!Step, GoWalker!Exhaust, GoWalker!FailHere, GoWalker!Complete,
     GoWalker!FollowEdge, GoWalker!RefuseEdge, GoWalker!FailToChoose, GoWalker!Panic,
     GoWalker!AskToExecute, GoWalker!AskHost, GoWalker!Return, Final, Asking, Reasons, RunTimeReasons
<1>8. \/ UNCHANGED <<cmd, pc>> /\ FollowEdge
      \/ pc' = "host" /\ cmd'.type \in Final
      \/ /\ pc' = "host" /\ UNCHANGED <<cursor, counts>> /\ cursor \in def.nodes
         /\ cmd'.type \in Asking /\ def.type[cursor] = Questioner(cmd'.type)
  <2>1. CASE FollowEdge
    BY <2>1 DEF FollowEdge
  <2>2. CASE Complete \/ FailHere \/ RefuseEdge \/ FailToChoose
    <3>1. \E type \in Final, reason \in Reasons \cup {None} : Return(type, reason)
      BY <2>2 DEF Complete, FailHere, RefuseEdge, FailToChoose, Ended, Final, Reasons, RunTimeReasons
    <3> QED BY <3>1 DEF Return
  <2>3. CASE AskToExecute
    BY <2>3 DEF AskToExecute, Ended, Return, At, Final, Asking, Questioner
  <2>4. CASE AskHost
    BY <2>4 DEF AskHost, Ended, Return, At, Asking, Questioner
  <2> QED BY <2>1, <2>2, <2>3, <2>4 DEF Step
<1>9. GoTypeOK'
  <2>1. goCmd' \in GoCommands
    BY <1>1, <1>2, <1>7, <1>8 DEF GoWalker!Return, GoCommands
  <2> QED BY <1>4, <1>6, <2>1 DEF GoTypeOK
<1>10. CASE UNCHANGED <<cmd, pc>> /\ FollowEdge
  <2>1. GoWalker!FollowEdge
    BY <1>1, <1>2, <1>7, <1>10
  <2>2. PICK i \in Choice : Go(i)
    BY <1>10 DEF FollowEdge
  <2>3. PICK j \in GoWalker!Choice :
          /\ goCounts' = [goCounts EXCEPT ![Pair(def, j)] = @ + 1]
          /\ goCursor' = def.edges[j].to
    BY <2>1, SameGraph DEF GoWalker!FollowEdge
  <2>4. def.edges[i].from = cursor /\ def.edges[j].from = cursor /\ i \in OutEdges(def, cursor)
    <3>1. j \in GoWalker!Stoppers(def, goCursor, flag, goCounts)
      BY DEF GoWalker!Choice, GoWalker!Foremost
    <3>2. j \in OutEdges(def, cursor)
      BY <1>1, <3>1, SameGraph DEF GoWalker!Stoppers
    <3> QED BY <1>1, <3>2, OneChoice DEF OutEdges
  <2>5. Pair(def, i) = Pair(def, j)
    BY <1>1, <2>2, <2>3, <2>4 DEF Pair, Go
  <2>6. Tallied'
    BY <1>2, <1>3, <2>2, <2>3, <2>4, <2>5, CountBoth DEF Go
  <2> QED BY <1>2, <1>3, <1>9, <1>10, <2>6 DEF Together, PairInv, Asked
<1>11. CASE pc' = "host" /\ cmd'.type \in Final
  BY <1>2, <1>3, <1>9, <1>11 DEF Together, PairInv, Asked, Final, Asking
<1>12. CASE /\ pc' = "host" /\ UNCHANGED <<cursor, counts>> /\ cursor \in def.nodes
            /\ cmd'.type \in Asking /\ def.type[cursor] = Questioner(cmd'.type)
  <2>1. goCmd'.type \in Asking
    BY <1>12 DEF Agree, Asking
  <2>2. goLastNode' = cursor /\ UNCHANGED goCounts
    <3>1. ~UNCHANGED goCmd
      BY <1>1, <1>2, <1>12, <2>1 DEF PairInv, Together, Agree, Asking
    <3>2. \A type \in Final : \A reason : ~GoWalker!Return(type, reason)
      BY <2>1 DEF GoWalker!Return, Final, Asking
    <3> QED BY <1>1, <1>7, <1>12, <3>1, <3>2
  <2>3. Asked' /\ Tallied'
    BY <1>2, <1>3, <1>12, <2>2 DEF Asked, Tallied
  <2> QED BY <1>2, <1>3, <1>9, <1>12, <2>3 DEF Together, PairInv
<1> QED BY <1>8, <1>10, <1>11, <1>12

\* A result after which they agree.
LEMMA OkKeeps ==
  ASSUME PairInv, together, NEW update \in Updates, NEW signalled \in BOOLEAN,
         ResolvesOk(ResolveInTurn, update, signalled), GoWalker!ResolveOk(update, signalled), Agree'
  PROVE  Together'
<1>1. cmd.type \in Asking
  BY DEF PairInv, Together, Agree, GoWalker!ResolveOk, GoWalker!MayResolve, GoWalker!Asking, Asking
<1>2. Tallied /\ pendingErr = None
  BY <1>1, Answering
<1>3. /\ goLastNode = cursor /\ cursor \in def.nodes
      /\ def.type[cursor] = Questioner(cmd.type) /\ def \in Definitions
  BY <1>1 DEF PairInv, Inv, TsWalkerTypeOK, Together, Asked
<1>4. UNCHANGED <<def, stop, pc, goCounts, goIter, goPendingErr>> /\ pc = "host"
  BY <1>3 DEF ResolvesOk, Call, GoWalker!ResolveOk
<1>5. goCmd' \in GoCommands /\ goCmd'.type = "none"
  BY DEF GoWalker!ResolveOk, GoWalker!Resolved, PairInv, Together, GoTypeOK, GoCommands
<1>6. pendingErr' = None
  BY <1>2, <1>4 DEF PairInv, Together, Agree
<1>7. cmd'.type \notin Asking
  BY <1>5 DEF Agree, Asking
<1>8. Tallied'
  <2>1. CASE UNCHANGED counts
    BY <1>2, <1>4, <2>1 DEF Tallied
  <2>2. CASE Advance(signalled)
    <3>1. UNCHANGED counts \/ \E i \in FirstEdge(def, cursor) : Count(i)
      BY <2>2 DEF Advance, Go
    <3>2. SUFFICES ASSUME NEW i \in FirstEdge(def, cursor), Count(i) PROVE Tallied'
      BY <2>1, <3>1
    <3>3. i \in DOMAIN def.edges /\ Pair(def, i)[1] = cursor
      BY <1>3, OneChoice, OutEdgeTypes DEF Pair
    <3>4. \A p \in Ids \X Ids : p # Pair(def, i) => counts'[p] = counts[p]
      BY <3>2, <3>3, CountTypes DEF PairInv, Inv
    <3>5. def.type[cursor] # "decision"
      BY <1>1, <1>3 DEF Questioner
    <3> QED BY <1>2, <1>4, <3>3, <3>4, <3>5 DEF Tallied
  <2> QED BY <2>1, <2>2 DEF ResolvesOk, Throw, TakeTimeout, TakeJoin
<1> QED BY <1>4, <1>5, <1>6, <1>7, <1>8 DEF PairInv, Together, GoTypeOK, Asked

\* Whatever both do, if they agree then they stay together.
LEMMA AgreeKeeps == ASSUME PairInv, together, Both, Agree' PROVE Together'
BY CallBoth, ReportBoth, ErrorBoth, StepKeeps, OkKeeps DEF Both, SameResult

------------------------------------------------------------------------------
(* Unless there is a reason, they agree. *)

\* Both return the same.
LEMMA ReturnBoth ==
  ASSUME PairInv, together, NEW type \in Asking \cup Final, NEW reason \in Reasons \cup {None},
         Return(type, reason), GoWalker!Return(type, reason),
         UNCHANGED <<cursor, pendingErr, goCursor, goPendingErr>>
  PROVE  Agree'
<1>1. type # "new"
  BY DEF Asking, Final
<1> QED BY <1>1 DEF PairInv, Together, Agree, Return, GoWalker!Return

\* The same edge is chosen, with the same verdict, and if it is to be followed
\* with the same permission.
LEMMA DecideBoth ==
  ASSUME PairInv, together, At({"decision"}), GoWalker!Choosing, ~Reason,
         FollowEdge \/ RefuseEdge \/ FailToChoose
  PROVE  /\ GoWalker!Choice = Choice
         /\ \A i \in Choice : /\ i \in OutEdges(def, cursor)
                              /\ GoWalker!Verdict(i) = Verdict(i)
                              /\ Verdict(i) = "true" => (GoWalker!Allowed(i) <=> Allowed(i))
                              /\ GoWalker!Pair(def, i) = Pair(def, i)
<1>1. /\ def \in Definitions /\ goCursor = cursor /\ goIter \in Nat /\ GoWalker!Iterating
      /\ ~CountsDiffer /\ ~UnstableTies /\ ~LimitNotPositive
      /\ cursor \in def.nodes /\ def.type[cursor] = "decision"
  BY DEF PairInv, Inv, TsWalkerTypeOK, Together, GoTypeOK, Agree, Reason, At, GoWalker!Choosing,
     GoWalker!At
<1>2. GoWalker!Choice = Choice
  BY <1>1, SameChoice
<1>3. ASSUME NEW i \in Choice
      PROVE  /\ i \in OutEdges(def, cursor) /\ GoWalker!Verdict(i) = Verdict(i)
             /\ Verdict(i) = "true" => (GoWalker!Allowed(i) <=> Allowed(i))
  <2>1. i \in OutEdges(def, cursor)
    BY <1>1, OneChoice
  <2>2. GoWalker!Verdict(i) = Verdict(i)
    <3>1. GoWalker!Evaluate(def.edges[i].when, flag, goCounts)
            = Evaluate(def.edges[i].when, flag, goCounts)
      BY SameGraph
    <3> QED BY <1>1, <2>1, <3>1, SameVerdict DEF GoWalker!Verdict, Verdict
  <2>3. Verdict(i) = "true" => GoWalker!Limit(i) = Limit(i)
    <3>1. SUFFICES ASSUME Verdict(i) = "true", def.edges[i].limit # None, ~(def.edges[i].limit > 0)
                   PROVE  FALSE
      BY <1>1, <2>1, SameLimit
    <3>2. def.edges[i].limit \in Int /\ def.edges[i].limit <= 0
      BY <1>1, <2>1, <3>1, OutEdgeTypes DEF Optional
    <3>3. ~Allowed(i)
      <4>1. Pair(def, i) \in Ids \X Ids
        BY <1>1, <2>1, EdgeTypes, OutEdgeTypes
      <4>2. counts[Pair(def, i)] \in Nat
        BY <4>1 DEF PairInv, Inv, TsWalkerTypeOK
      <4> QED BY <3>1, <3>2, <4>2 DEF Allowed, Limit
    <3>4. \A j \in Choice : j = i
      BY <1>1, OneChoice
    <3>5. RefuseEdge
      BY <1>3, <3>1, <3>3, <3>4 DEF FollowEdge, Go, FailToChoose
    <3>6. cmd'.reason = "limit"
      BY <3>5 DEF RefuseEdge, Return
    <3> QED BY <1>1, <1>3, <3>1, <3>2, <3>6 DEF LimitNotPositive
  <2>4. Pair(def, i) \in Ids \X Ids /\ Pair(def, i)[1] = cursor
    BY <1>1, <2>1, EdgeTypes, OutEdgeTypes DEF Pair
  <2>5. goCounts[Pair(def, i)] = counts[Pair(def, i)]
    BY <1>1, <2>4, Walking DEF At, Tallied
  <2>6. GoWalker!Pair(def, i) = Pair(def, i)
    BY SameGraph
  <2> QED BY <2>1, <2>2, <2>3, <2>5, <2>6 DEF GoWalker!Allowed, Allowed
<1> QED BY <1>2, <1>3, SameGraph

\* Each turn of the loop that is a decision.
LEMMA DecisionAgrees ==
  ASSUME PairInv, together, At({"decision"}), ~Reason,
         FollowEdge \/ RefuseEdge \/ FailToChoose,
         GoWalker!FollowEdge \/ GoWalker!RefuseEdge \/ GoWalker!FailToChoose
  PROVE  Agree'
<1>1. /\ GoWalker!Choice = Choice
      /\ \A i \in Choice : /\ i \in OutEdges(def, cursor)
                           /\ GoWalker!Verdict(i) = Verdict(i)
                           /\ Verdict(i) = "true" => (GoWalker!Allowed(i) <=> Allowed(i))
                           /\ GoWalker!Pair(def, i) = Pair(def, i)
  BY DecideBoth DEF GoWalker!FollowEdge, GoWalker!RefuseEdge, GoWalker!FailToChoose
<1>2. \A i, j \in Choice : i = j
  BY OneChoice DEF PairInv, Inv, TsWalkerTypeOK
<1>3. CASE FollowEdge
  <2>1. PICK e \in Choice : Verdict(e) = "true" /\ Go(e)
    BY <1>3 DEF FollowEdge
  <2>2. GoWalker!FollowEdge
    BY <1>1, <1>2, <2>1 DEF Go, GoWalker!RefuseEdge, GoWalker!FailToChoose
  <2>3. goCursor' = def.edges[e].to /\ UNCHANGED <<goPendingErr, goPc, goCmd>>
    BY <1>1, <1>2, <2>1, <2>2 DEF GoWalker!FollowEdge
  <2>4. cursor' = def.edges[e].to /\ UNCHANGED <<pendingErr, pc, cmd>>
    BY <1>3, <2>1 DEF FollowEdge, Go
  <2> QED
    BY <2>3, <2>4 DEF PairInv, Together, Agree
<1>4. CASE RefuseEdge
  <2>1. PICK e \in Choice : Verdict(e) = "true" /\ ~Allowed(e)
    BY <1>4 DEF RefuseEdge
  <2>2. GoWalker!RefuseEdge
    BY <1>1, <1>2, <2>1 DEF GoWalker!FollowEdge, GoWalker!FailToChoose
  <2> QED
    BY <1>4, <2>2, ReturnBoth
    DEF RefuseEdge, GoWalker!RefuseEdge, Asking, Final, Reasons, RunTimeReasons
<1>5. CASE FailToChoose
  <2>1. PICK reason \in {"no match", "condition"} :
          /\ Return("fail", reason) /\ GoWalker!Return("fail", reason)
          /\ UNCHANGED <<cursor, pendingErr, goCursor, goPendingErr>>
    BY <1>1, <1>2, <1>5
    DEF FailToChoose, Ended, GoWalker!FailToChoose, GoWalker!FollowEdge, GoWalker!RefuseEdge
  <2> QED
    BY <2>1, ReturnBoth DEF Asking, Final, Reasons, RunTimeReasons
<1> QED BY <1>3, <1>4, <1>5

\* Each turn of the loop.
LEMMA StepAgrees ==
  ASSUME PairInv, together, Step, GoWalker!Step, ~Reason
  PROVE  Agree'
<1>1. /\ goCursor = cursor /\ ~AtStop /\ ~GoWalker!Exhaust
      /\ ~IllFormed
  BY DEF PairInv, Together, Agree, AtStop, Reason, LoopBound, GoWalker!Exhaust, GoWalker!Return
<1>2. \A n : GoWalker!OutEdges(def, n) = OutEdges(def, n)
  BY SameGraph
<1>3. ASSUME NEW type \in Asking \cup Final, NEW reason \in Reasons \cup {None},
             Ended(type, reason), GoWalker!Return(type, reason), UNCHANGED <<goCursor, goPendingErr>>
      PROVE  Agree'
  BY <1>3, ReturnBoth DEF Ended
<1>4. CASE cursor \notin def.nodes
  <2>1. Ended("fail", "missing")
    BY <1>1, <1>4 DEF Step, Complete, FailHere, FollowEdge, RefuseEdge, FailToChoose, AskToExecute,
       AskHost, At
  <2>2. GoWalker!FailHere /\ GoWalker!Return("fail", "missing")
    BY <1>1, <1>4 DEF GoWalker!Step, GoWalker!FailHere, GoWalker!Complete, GoWalker!FollowEdge,
       GoWalker!RefuseEdge, GoWalker!FailToChoose, GoWalker!Panic, GoWalker!AskToExecute,
       GoWalker!AskHost, GoWalker!Choosing, GoWalker!At
  <2> QED BY <1>3, <2>1, <2>2 DEF GoWalker!FailHere, Final, Reasons
<1>5. CASE cursor \in def.nodes /\ def.type[cursor] = "other"
  <2>1. Ended("fail", "unknown type")
    BY <1>1, <1>5 DEF Step, Complete, FailHere, FollowEdge, RefuseEdge, FailToChoose, AskToExecute,
       AskHost, At
  <2>2. GoWalker!FailHere /\ GoWalker!Return("fail", "unknown type")
    BY <1>1, <1>5 DEF GoWalker!Step, GoWalker!FailHere, GoWalker!Complete, GoWalker!FollowEdge,
       GoWalker!RefuseEdge, GoWalker!FailToChoose, GoWalker!Panic, GoWalker!AskToExecute,
       GoWalker!AskHost, GoWalker!Choosing, GoWalker!At
  <2> QED BY <1>3, <2>1, <2>2 DEF GoWalker!FailHere, Final, Reasons
<1>6. CASE cursor \in def.nodes /\ def.type[cursor] = "terminal"
  <2>1. Ended("complete", None)
    BY <1>1, <1>6 DEF Step, Complete, FailHere, FollowEdge, RefuseEdge, FailToChoose, AskToExecute,
       AskHost, At
  <2>2. OutEdges(def, cursor) = {}
    <3>1. At({"terminal"})
      BY <1>1, <1>6 DEF Step, Complete, FailHere, FollowEdge, RefuseEdge, FailToChoose,
         AskToExecute, AskHost, At
    <3> QED BY <1>1, <1>6, <3>1, WellFormed
  <2>3. GoWalker!Complete
    BY <1>1, <1>2, <1>6, <2>2 DEF GoWalker!Step, GoWalker!FailHere, GoWalker!Complete,
       GoWalker!FollowEdge,
       GoWalker!RefuseEdge, GoWalker!FailToChoose, GoWalker!Panic, GoWalker!AskToExecute,
       GoWalker!AskHost, GoWalker!Choosing, GoWalker!At
  <2> QED BY <1>3, <2>1, <2>3 DEF GoWalker!Complete, Final
<1>7. CASE cursor \in def.nodes /\ def.type[cursor] = "decision"
  <2>1. At({"decision"}) /\ (FollowEdge \/ RefuseEdge \/ FailToChoose)
    BY <1>1, <1>7 DEF Step, Complete, FailHere, FollowEdge, RefuseEdge, FailToChoose, AskToExecute,
       AskHost, At
  <2>2. OutEdges(def, cursor) # {}
    BY <1>1, <1>7, <2>1, WellFormed
  <2>3. GoWalker!FollowEdge \/ GoWalker!RefuseEdge \/ GoWalker!FailToChoose
    BY <1>1, <1>2, <1>7, <2>2 DEF GoWalker!Step, GoWalker!FailHere, GoWalker!Complete,
       GoWalker!Panic, GoWalker!AskToExecute, GoWalker!AskHost, GoWalker!At
  <2> QED BY <2>1, <2>3, DecisionAgrees
<1>8. CASE cursor \in def.nodes /\ def.type[cursor] \in {"action", "workflow"}
  <2>1. AskToExecute
    BY <1>1, <1>8 DEF Step, Complete, FailHere, FollowEdge, RefuseEdge, FailToChoose, AskHost, At
  <2>2. GoWalker!AskToExecute
    BY <1>1, <1>8 DEF GoWalker!Step, GoWalker!FailHere, GoWalker!Complete, GoWalker!FollowEdge,
       GoWalker!RefuseEdge, GoWalker!FailToChoose, GoWalker!Panic,
       GoWalker!AskHost, GoWalker!Choosing, GoWalker!At
  <2>3. GoWalker!InputFails(def.input[cursor], flag) = InputFails(def.input[cursor], flag)
    BY SameGraph
  <2>4. UNCHANGED <<goCursor, goPendingErr>>
    BY <2>2 DEF GoWalker!AskToExecute
  <2>5. CASE InputFails(def.input[cursor], flag)
    <3>1. Ended("fail", "input") /\ GoWalker!Return("fail", "input")
      BY <1>1, <2>1, <2>2, <2>3, <2>5 DEF AskToExecute, GoWalker!AskToExecute
    <3> QED BY <1>3, <2>4, <3>1 DEF Final, Reasons, RunTimeReasons
  <2>6. CASE ~InputFails(def.input[cursor], flag)
    <3> DEFINE type == IF def.type[cursor] = "action" THEN "execute_action" ELSE "execute_workflow"
    <3>1. Ended(type, None) /\ GoWalker!Return(type, None)
      BY <1>1, <2>1, <2>2, <2>3, <2>6 DEF AskToExecute, GoWalker!AskToExecute
    <3> QED BY <1>3, <2>4, <3>1 DEF Asking
  <2> QED BY <2>5, <2>6
<1>9. CASE cursor \in def.nodes /\ def.type[cursor] \in {"fork", "gate"}
  <2>1. AskHost
    BY <1>1, <1>9 DEF Step, Complete, FailHere, FollowEdge, RefuseEdge, FailToChoose, AskToExecute, At
  <2>2. GoWalker!AskHost
    BY <1>1, <1>9 DEF GoWalker!Step, GoWalker!FailHere, GoWalker!Complete, GoWalker!FollowEdge,
       GoWalker!RefuseEdge, GoWalker!FailToChoose, GoWalker!Panic,
       GoWalker!AskToExecute, GoWalker!Choosing, GoWalker!At
  <2> DEFINE type == IF def.type[cursor] = "fork" THEN "fork" ELSE "wait_for_signal"
  <2>3. Ended(type, None) /\ GoWalker!Return(type, None) /\ UNCHANGED <<goCursor, goPendingErr>>
    BY <1>1, <2>1, <2>2 DEF AskHost, GoWalker!AskHost
  <2> QED BY <1>3, <2>3 DEF Asking
<1>10. cursor \in def.nodes => def.type[cursor] \in NodeTypes \cup {"other"}
  BY DefinitionTypes DEF PairInv, Inv, TsWalkerTypeOK
<1> QED BY <1>4, <1>5, <1>6, <1>7, <1>8, <1>9, <1>10 DEF NodeTypes

\* A result.
LEMMA OkAgrees ==
  ASSUME PairInv, together, NEW update \in Updates, NEW signalled \in BOOLEAN,
         ResolvesOk(ResolveInTurn, update, signalled), GoWalker!ResolveOk(update, signalled), ~Reason
  PROVE  Agree'
<1>1. cmd.type \in Asking
  BY DEF PairInv, Together, Agree, GoWalker!ResolveOk, GoWalker!MayResolve, GoWalker!Asking, Asking
<1>2. /\ goLastNode = cursor /\ cursor \in def.nodes
      /\ def.type[cursor] = Questioner(cmd.type)
      /\ goCursor = cursor /\ def \in Definitions
      /\ ~GuardsAdvance /\ ~GateTimesOut /\ ~IllFormed
  BY <1>1 DEF PairInv, Inv, TsWalkerTypeOK, Together, Asked, Agree, Reason
<1>3. /\ UNCHANGED <<pc, goPc, goPendingErr>>
      /\ goCursor' \in GoWalker!Destinations(signalled)
  BY <1>2 DEF ResolvesOk, GoWalker!ResolveOk
<1>4. goCmd'.type = "none" /\ goCmd'.reason = None
  BY DEF GoWalker!ResolveOk, GoWalker!Resolved, PairInv, Together, GoTypeOK, GoCommands
<1>5. ASSUME cursor' = goCursor', UNCHANGED pendingErr, Resolved("none")
      PROVE  Agree'
  <2>1. cmd'.type = "none" /\ cmd'.reason = None
    BY <1>5 DEF Resolved, PairInv, Inv, TsWalkerTypeOK, Commands
  <2> QED BY <1>3, <1>4, <1>5, <2>1 DEF PairInv, Together, Agree
<1>6. ~Throw
  BY <1>2 DEF Throw
<1>7. ~TakeTimeout(signalled)
  <2>1. SUFFICES ASSUME TakeTimeout(signalled) PROVE FALSE
    OBVIOUS
  <2>2. signalled = FALSE /\ def.type[cursor] = "gate"
    BY <2>1 DEF TakeTimeout, Waits
  <2>3. cmd.type = "wait_for_signal"
    BY <1>1, <1>2, <2>2 DEF Questioner, Asking
  <2>4. GoWalker!Way(FALSE) = {} /\ GoWalker!Join = {}
    BY <1>2, <2>2 DEF GoWalker!Way, GoWalker!Join
  <2>5. GoWalker!Destinations(signalled) = {goCursor}
    BY <2>2, <2>4 DEF GoWalker!Destinations
  <2> QED BY <1>2, <1>3, <2>2, <2>3, <2>5 DEF GateTimesOut
<1>8. CASE TakeJoin
  <2>1. def.type[cursor] = "fork" /\ def.join[cursor] # None
    BY <1>1, <1>2, <1>8, WellFormed DEF TakeJoin, Questioner, Asking
  <2>2. GoWalker!Way(signalled) = {} /\ GoWalker!Join = {def.join[cursor]}
    BY <1>2, <2>1 DEF GoWalker!Way, GoWalker!Join
  <2>3. GoWalker!Destinations(signalled) = {def.join[cursor]}
    BY <2>2 DEF GoWalker!Destinations
  <2> QED BY <1>3, <1>5, <1>8, <2>3 DEF TakeJoin
<1>9. CASE Advance(signalled)
  <2>1. def.type[cursor] # "fork" /\ ~Waits(signalled) /\ Resolved("none")
    BY <1>9 DEF Advance
  <2>3. GoWalker!Way(signalled) = FirstEdge(def, cursor) /\ GoWalker!Join = {}
    BY <1>2, <2>1, SameGraph DEF GoWalker!Way, GoWalker!Join, Waits
  <2>4. CASE FirstEdge(def, cursor) = {} /\ UNCHANGED <<cursor, counts, pendingErr, followed>>
    <3>1. GoWalker!Destinations(signalled) = {cursor}
      BY <1>2, <2>3, <2>4 DEF GoWalker!Destinations
    <3> QED BY <1>3, <1>5, <2>1, <2>4, <3>1
  <2>5. CASE \E i \in FirstEdge(def, cursor) : Go(i) /\ UNCHANGED pendingErr
    <3>1. PICK i \in FirstEdge(def, cursor) : Go(i) /\ UNCHANGED pendingErr
      BY <2>5
    <3>2. FirstEdge(def, cursor) = {i}
      BY <1>2, <3>1, OneChoice
    <3>3. {def.edges[j].to : j \in GoWalker!Way(signalled)} = {def.edges[i].to}
      BY <2>3, <3>2
    <3>4. GoWalker!Destinations(signalled) = {def.edges[i].to}
      BY <2>3, <3>3 DEF GoWalker!Destinations
    <3> QED BY <1>3, <1>5, <2>1, <3>1, <3>4 DEF Go
  <2> QED BY <1>2, <1>9, <2>4, <2>5 DEF Advance, GuardsAdvance
<1> QED BY <1>6, <1>7, <1>8, <1>9 DEF ResolvesOk

LEMMA BothAgree == ASSUME PairInv, together, Both, ~Reason PROVE Agree'
BY CallBoth, ReportBoth, ErrorBoth, StepAgrees, OkAgrees DEF Both, SameResult, Together

------------------------------------------------------------------------------
\* Each step of the pair is one of the TypeScript walker.
LEMMA PairStep == [PairNext]_pairVars => [Next]_vars
  BY DEF PairNext, pairVars, Both, Unmatched, SameResult, Next, Resolve, Resolves

LEMMA PairInitInv == PairInit => PairInv
<1> SUFFICES ASSUME PairInit PROVE PairInv
  OBVIOUS
<1>1. Inv
  BY InitInv DEF PairInit
<1>2. goCmd = [type |-> "none", node |-> def.entry, reason |-> None]
      /\ cmd = [type |-> "new", node |-> def.entry, reason |-> None]
      /\ def.entry \in Ids
  BY DefinitionTypes DEF PairInit, Init, GoWalker!NewWalker
<1>3. GoTypeOK
  BY <1>2 DEF PairInit, GoWalker!NewWalker, GoTypeOK, GoCommands
<1>4. Agree
  <2>1. goPendingErr = (pendingErr # None)
    BY Zenon DEF PairInit, Init, GoWalker!NewWalker
  <2>2. goPc = pc /\ goCursor = cursor
    BY DEF PairInit, Init, GoWalker!NewWalker
  <2> QED BY <1>2, <2>1, <2>2 DEF Agree
<1>5. Asked
  BY <1>2 DEF Asked, Asking
<1>6. Tallied
  BY DEF PairInit, Init, GoWalker!NewWalker, Tallied
<1> QED BY <1>1, <1>3, <1>4, <1>5, <1>6 DEF PairInit, Init, PairInv, Together

LEMMA PairInvStep == PairInv /\ [PairNext]_pairVars => PairInv'
<1> SUFFICES ASSUME PairInv, [PairNext]_pairVars PROVE PairInv'
  OBVIOUS
<1>1. Inv'
  BY PairStep, InvStep DEF PairInv
<1>2. ASSUME together' PROVE Together'
  <2>1. CASE UNCHANGED pairVars
    BY <1>2, <2>1
    DEF pairVars, vars, goVars, PairInv, Together, GoTypeOK, Agree, Asked, Tallied
  <2>2. CASE PairNext
    <3>1. together /\ Both /\ Agree'
      BY <1>2, <2>2 DEF PairNext
    <3> QED BY <3>1, AgreeKeeps
  <2> QED BY <2>1, <2>2
<1> QED BY <1>1, <1>2 DEF PairInv

\* The invariant of the pair, by which the walkers are together only where they
\* note the same node and count the same traversals.
LEMMA PairInvariance == PairSpec => []PairInv
  BY PairInitInv, PairInvStep, PTL DEF PairSpec

\* The pair takes no step that the TypeScript walker alone does not take.
THEOREM PairIsTsWalker == PairSpec => Spec
<1>1. PairInit => Init
  BY DEF PairInit
<1> QED BY <1>1, PairStep, PTL DEF PairSpec, Spec

\* So what was proved of the TypeScript walker holds of the pair.
THEOREM PairKeepsPromises ==
  PairSpec => []TsWalkerTypeOK /\ []EdgeLimits /\ []SoundWhenValid /\ MovesSpend
  BY PairIsTsWalker, TypeCorrect, LimitsKept, ValidIsSound, EveryMoveSpends, PTL

\* For every definition and every host, the Go walker parts from the TypeScript
\* walker only for the reasons named.
THEOREM PartsForReasons == PairSpec => PartsOnlyWhere
<1>1. ASSUME PairInv, [PairNext]_pairVars, together, ~together'
      PROVE  Unmatched \/ Reason
  <2>1. (Both /\ together' = Agree') \/ Unmatched
    BY <1>1 DEF PairNext, pairVars
  <2> QED BY <1>1, <2>1, BothAgree
<1>2. PairInv /\ [PairNext]_pairVars =>
        [together /\ ~together' =>
           \/ Unmatched
           \/ LoopBound \/ GuardsAdvance \/ GateTimesOut \/ LimitNotPositive \/ CountsDiffer
           \/ UnstableTies \/ IllFormed]_pairVars
  BY <1>1 DEF Reason
<1> QED BY <1>2, PairInvariance, PTL DEF PairSpec, PartsOnlyWhere
==============================================================================
