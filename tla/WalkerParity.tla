----------------------------- MODULE WalkerParity -----------------------------
(***************************************************************************)
(* The Go walker as a port of the TypeScript walker.  Both walk the same    *)
(* definition for the same host, which gives them the same results; the Go  *)
(* walker keeps step for as long as the two say the same.  When they part   *)
(* it stays where it is, and the TypeScript walker goes on.                 *)
(***************************************************************************)
EXTENDS TsWalker, FiniteSets

CONSTANT StableUpTo
ASSUME StableAssumption == StableUpTo \in Nat
ASSUME ReasonAssumption == None \notin Reasons

VARIABLES goCursor, goLastNode, goCounts, goPendingErr, goPc, goIter, goCmd, goFollowed,
          together  \* whether the two have said the same so far

goVars == <<goCursor, goLastNode, goCounts, goPendingErr, goPc, goIter, goCmd, goFollowed>>
pairVars == <<vars, goVars, together>>

GoWalker == INSTANCE Walker WITH
  cursor <- goCursor, lastNode <- goLastNode, counts <- goCounts,
  pendingErr <- goPendingErr, pc <- goPc, iter <- goIter, cmd <- goCmd,
  followed <- goFollowed, Disciplined <- TRUE

\* The host sees no difference, and cannot come to see one by what it knows.
Agree ==
  /\ goPc = pc
  /\ goCursor = cursor
  /\ goPendingErr = (pendingErr # None)
  /\ goCmd.type = (IF cmd.type = "new" THEN "none" ELSE cmd.type)
  /\ goCmd.reason = cmd.reason

PairInit == Init /\ GoWalker!NewWalker /\ together = TRUE

\* A call that only the TypeScript walker has, or one out of turn.
Unmatched == SetBounds \/ ((CallNext \/ ReportError \/ Resolve) /\ stray' # stray)

SameResult ==
  \/ ResolvesError(ResolveInTurn) /\ GoWalker!ResolveError
  \/ \E update \in Updates, signalled \in BOOLEAN :
       ResolvesOk(ResolveInTurn, update, signalled) /\ GoWalker!ResolveOk(update, signalled)

Both ==
  /\ \/ CallNext /\ GoWalker!CallNext
     \/ ReportError /\ GoWalker!ReportError
     \/ Step /\ GoWalker!Step
     \/ SameResult
  /\ UNCHANGED stray

PairNext ==
  \/ together /\ Both /\ together' = Agree'
  \/ together /\ Unmatched /\ UNCHANGED goVars /\ together' = FALSE
  \/ ~together /\ Next /\ UNCHANGED <<goVars, together>>

\* Both walkers take their steps under the fairness of the one that goes on.
PairSpec == PairInit /\ [][PairNext]_pairVars /\ Fairness


------------------------------------------------------------------------------
(* Why the two part. *)

\* The Go walker's own loop bound, the definition's maxIterations.
LoopBound == goCmd'.reason = "exhausted"

\* The TypeScript walker asks its loop guard for the edge of an action, a child
\* workflow or a signalled gate.
GuardsAdvance == pendingErr' = "limit"

\* A gate gets no signal: the TypeScript walker takes the timeoutEdge, or fails,
\* and the Go walker stays at the gate.
GateTimesOut ==
  /\ cmd.type = "wait_for_signal"
  /\ \E update \in Updates : ResolvesOk(ResolveInTurn, update, FALSE)
  /\ UNCHANGED <<goCursor, goPendingErr>>

\* The TypeScript walker refuses an edge whose limit is 0 or negative; to the
\* Go walker this is no limit.
LimitNotPositive ==
  /\ At({"decision"}) /\ cmd'.reason = "limit"
  /\ \E i \in Choice : def.edges[i].limit # None /\ def.edges[i].limit <= 0

\* A condition counts the traversals of an edge that no decision takes: the
\* TypeScript walker counts them, the Go walker does not.
CountsDiffer ==
  At({"decision"}) /\ \E i \in OutEdges(def, cursor) :
    /\ def.edges[i].when.kind = "below"
    /\ counts[def.edges[i].when.pair] # goCounts[def.edges[i].when.pair]

\* Among many edges the Go walker may try two of equal priority in either order.
UnstableTies ==
  /\ At({"decision"}) /\ Cardinality(OutEdges(def, cursor)) > StableUpTo
  /\ \E i, j \in OutEdges(def, cursor) : i # j /\ def.edges[i].priority = def.edges[j].priority

\* A decision or a terminal node with a number of edges it should not have, or
\* a fork without a joinNode.
IllFormed ==
  /\ ~Valid(def)
  /\ \/ At({"decision"}) /\ OutEdges(def, cursor) = {}
     \/ At({"terminal"}) /\ OutEdges(def, cursor) # {}
     \/ cmd.type = "fork" /\ def.join[cursor] = None

\* The Go walker gives the same commands as the TypeScript walker for the same
\* results, and parts from it only for these reasons.
PartsOnlyWhere ==
  [][together /\ ~together' =>
       \/ Unmatched
       \/ LoopBound \/ GuardsAdvance \/ GateTimesOut \/ LimitNotPositive \/ CountsDiffer
       \/ UnstableTies \/ IllFormed]_pairVars
==============================================================================
