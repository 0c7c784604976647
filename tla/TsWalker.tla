------------------------------ MODULE TsWalker ------------------------------
(***************************************************************************)
(* The graph walker of the TypeScript library, the one the Go walker was    *)
(* ported from.  next yields a command, resolve takes the result of the     *)
(* last one; the while loop in next is modelled one turn at a time.         *)
(*                                                                         *)
(* A host drives a walker of its own for each branch of a fork: it gives it *)
(* bounds, the branch to start at and the joinNode to stop at.  A host that *)
(* keeps to the protocol calls next, then resolve, until the walker         *)
(* completes or fails.  At most MaxStray calls are made out of turn.        *)
(***************************************************************************)
EXTENDS Validation

CONSTANTS Definitions,  \* the workflow definitions a walker may be made for
          MaxStray      \* how many calls are out of turn

ASSUME DefinitionAssumption == \A d \in Definitions : IsDefinition(d)
ASSUME NoneAssumption == None \notin Ids
ASSUME StrayAssumption == MaxStray \in Nat

VARIABLES
  def,         \* the definition
  flag,        \* the workflow context, one key of it
  cursor,      \* cursorNodeId; None when it is undefined
  stop,        \* stopNodeId
  counts,      \* the loop guard: traversals by from and to, refused ones too
  pendingErr,  \* why the next call of next fails, None if it need not
  pc,          \* "host", or "walking" in the loop of next
  cmd,         \* what next returned last; "none" when it was resolved, "new"
               \* before the first call, "threw" after a TypeError
  stray,       \* calls made out of turn
  followed     \* history: how often each edge was followed

vars == <<def, flag, cursor, stop, counts, pendingErr, pc, cmd, stray, followed>>

Asking == {"execute_action", "execute_workflow", "fork", "wait_for_signal"}
Final == {"complete", "fail"}
RunTimeReasons == {"resolved", "no match", "condition", "limit", "input", "timed out"}
Reasons == RunTimeReasons \cup {"missing", "unknown type"}
Commands == [type : Asking \cup Final \cup {"new", "none", "threw"},
             node : Ids \cup {None}, reason : Reasons \cup {None}]

TsWalkerTypeOK ==
  /\ def \in Definitions
  /\ flag \in Flags
  /\ cursor \in Ids \cup {None}
  /\ stop \in Ids \cup {None}
  /\ counts \in [Ids \X Ids -> Nat]
  /\ pendingErr \in RunTimeReasons \cup {None}
  /\ pc \in {"host", "walking"}
  /\ cmd \in Commands
  /\ stray \in 0..MaxStray
  /\ followed \in [DOMAIN def.edges -> Nat]

Init ==
  /\ def \in Definitions
  /\ flag \in Flags
  /\ cursor = def.entry
  /\ stop = None
  /\ counts = [p \in Ids \X Ids |-> 0]
  /\ pendingErr = None
  /\ pc = "host"
  /\ cmd = [type |-> "new", node |-> def.entry, reason |-> None]
  /\ stray = 0
  /\ followed = [i \in DOMAIN def.edges |-> 0]

\* The host calls: in turn, or as one of the stray calls.
Call(inTurn) ==
  /\ pc = "host"
  /\ IF inTurn THEN UNCHANGED stray ELSE stray < MaxStray /\ stray' = stray + 1

\* The walker of a branch is bounded before it is used.
SetBounds ==
  /\ Call(cmd.type = "new")
  /\ \E fork \in OfType(def, "fork") :
       /\ cursor' \in Range(def.branches[fork])
       /\ stop' = def.join[fork]
  /\ cmd' = [cmd EXCEPT !.type = "none", !.reason = None]
  /\ UNCHANGED <<def, flag, counts, pendingErr, pc, followed>>

------------------------------------------------------------------------------
(* The loop guard. *)

\* What is absent is replaced by what is more general; 0 is a limit.
Limit(i) ==
  IF def.edges[i].limit # None THEN def.edges[i].limit
  ELSE IF def.max # None THEN def.max ELSE 100

\* Mutant: check compares before it counts.
AllowedBeforeCounting(i) == counts[Pair(def, i)] <= Limit(i)

\* check counts the traversal, then compares.
Allowed(i) == counts[Pair(def, i)] + 1 <= Limit(i)

\* Mutant: an edge that was not counted before counts as undefined plus one.
CountFromUndefined(i) ==
  counts' = [counts EXCEPT ![Pair(def, i)] = IF @ = 0 THEN None ELSE @ + 1]

Count(i) == counts' = [counts EXCEPT ![Pair(def, i)] = @ + 1]

Go(i) ==
  /\ Allowed(i) /\ Count(i)
  /\ cursor' = def.edges[i].to
  /\ followed' = [followed EXCEPT ![i] = @ + 1]

------------------------------------------------------------------------------
(* next *)

Return(type, reason) ==
  /\ pc' = "host"
  /\ cmd' = [type |-> type, node |-> cursor, reason |-> reason]

CallsNext(inTurn) ==
  /\ Call(inTurn) /\ pendingErr = None
  /\ pc' = "walking"
  /\ UNCHANGED <<def, flag, cursor, stop, counts, pendingErr, cmd, followed>>

\* A pending error is reported once.
ReportsError(inTurn) ==
  /\ Call(inTurn) /\ pendingErr # None
  /\ pendingErr' = None
  /\ Return("fail", pendingErr)
  /\ UNCHANGED <<def, flag, cursor, stop, counts, followed>>

NextInTurn == cmd.type \in {"new", "none"}
CallNext == CallsNext(NextInTurn)
ReportError == ReportsError(NextInTurn)

AtStop == pc = "walking" /\ stop # None /\ cursor = stop
At(types) ==
  pc = "walking" /\ ~AtStop /\ cursor \in def.nodes /\ def.type[cursor] \in types

Ended(type, reason) ==
  /\ Return(type, reason)
  /\ UNCHANGED <<def, flag, cursor, stop, counts, pendingErr, stray, followed>>

\* A terminal node completes the workflow, and the walker of a branch too,
\* whether it has come to its joinNode or not.
Complete == (AtStop \/ At({"terminal"})) /\ Ended("complete", None)

FailHere ==
  \/ /\ pc = "walking" /\ ~AtStop /\ cursor \notin def.nodes
     /\ Ended("fail", "missing")
  \/ At({"other"}) /\ Ended("fail", "unknown type")

Choice == Foremost(def, Stoppers(def, cursor, flag, counts))
Verdict(i) == Evaluate(def.edges[i].when, flag, counts)

\* Mutant: the loop guard looks at its count and does not move it.
FollowEdgeUncounted ==
  /\ At({"decision"})
  /\ \E i \in Choice :
       /\ Verdict(i) = "true" /\ Allowed(i)
       /\ cursor' = def.edges[i].to
  /\ UNCHANGED <<def, flag, stop, counts, pendingErr, pc, cmd, stray, followed>>

FollowEdge ==
  /\ At({"decision"})
  /\ \E i \in Choice : Verdict(i) = "true" /\ Go(i)
  /\ UNCHANGED <<def, flag, stop, pendingErr, pc, cmd, stray>>

RefuseEdge ==
  /\ At({"decision"})
  /\ \E i \in Choice : Verdict(i) = "true" /\ ~Allowed(i) /\ Count(i)
  /\ Return("fail", "limit")
  /\ UNCHANGED <<def, flag, cursor, stop, pendingErr, stray, followed>>

FailToChoose ==
  /\ At({"decision"})
  /\ \/ Choice = {} /\ Ended("fail", "no match")
     \/ (\E i \in Choice : Verdict(i) = "error") /\ Ended("fail", "condition")

AskToExecute ==
  /\ At({"action", "workflow"})
  /\ IF InputFails(def.input[cursor], flag) THEN Ended("fail", "input")
     ELSE Ended(IF def.type[cursor] = "action" THEN "execute_action"
                ELSE "execute_workflow", None)

AskHost ==
  /\ At({"fork", "gate"})
  /\ Ended(IF def.type[cursor] = "fork" THEN "fork" ELSE "wait_for_signal", None)

Step == \/ Complete \/ FailHere \/ FollowEdge \/ RefuseEdge \/ FailToChoose
        \/ AskToExecute \/ AskHost

------------------------------------------------------------------------------
(* resolve *)

Resolved(type) == cmd' = [cmd EXCEPT !.type = type, !.reason = None]
ResolveInTurn == cmd.type \in Asking

ResolvesError(inTurn) ==
  /\ Call(inTurn)
  /\ pendingErr' = "resolved"
  /\ Resolved("none")
  /\ UNCHANGED <<def, flag, cursor, stop, counts, pc, followed>>

\* The answer is for the node at the cursor; without that node reading its
\* type is a TypeError.
Throw ==
  /\ cursor \notin def.nodes
  /\ Resolved("threw")
  /\ UNCHANGED <<cursor, counts, pendingErr, followed>>

Waits(signalled) == def.type[cursor] = "gate" /\ ~signalled

TakeTimeout(signalled) ==
  /\ cursor \in def.nodes /\ Waits(signalled)
  /\ IF def.timeout[cursor] # None
     THEN cursor' = def.timeout[cursor] /\ UNCHANGED pendingErr
     ELSE pendingErr' = "timed out" /\ UNCHANGED cursor
  /\ Resolved("none")
  /\ UNCHANGED <<counts, followed>>

TakeJoin ==
  /\ cursor \in def.nodes /\ def.type[cursor] = "fork"
  /\ cursor' = def.join[cursor]
  /\ Resolved("none")
  /\ UNCHANGED <<counts, pendingErr, followed>>

\* Mutant: the only edge is taken without asking the loop guard.
AdvanceUnguarded(signalled) ==
  /\ cursor \in def.nodes /\ def.type[cursor] # "fork" /\ ~Waits(signalled)
  /\ \/ \E i \in FirstEdge(def, cursor) :
          /\ cursor' = def.edges[i].to
          /\ followed' = [followed EXCEPT ![i] = IF @ <= Limit(i) THEN @ + 1 ELSE @]
          /\ UNCHANGED <<counts, pendingErr>>
     \/ FirstEdge(def, cursor) = {} /\ UNCHANGED <<cursor, counts, pendingErr, followed>>
  /\ Resolved("none")

\* advanceToNextEdge: along the first edge if the loop guard allows it; without
\* an edge the cursor stays.
Advance(signalled) ==
  /\ cursor \in def.nodes /\ def.type[cursor] # "fork" /\ ~Waits(signalled)
  /\ \/ \E i \in FirstEdge(def, cursor) : Go(i) /\ UNCHANGED pendingErr
     \/ /\ \E i \in FirstEdge(def, cursor) : ~Allowed(i) /\ Count(i)
        /\ pendingErr' = "limit"
        /\ UNCHANGED <<cursor, followed>>
     \/ FirstEdge(def, cursor) = {} /\ UNCHANGED <<cursor, counts, pendingErr, followed>>
  /\ Resolved("none")

ResolvesOk(inTurn, update, signalled) ==
  /\ Call(inTurn)
  /\ flag' = update
  /\ Throw \/ TakeTimeout(signalled) \/ TakeJoin \/ Advance(signalled)
  /\ UNCHANGED <<def, stop, pc>>

\* A key of the context is set or replaced, never removed.
Updates == {flag, "true", "false"}
Resolves(inTurn) ==
  \/ ResolvesError(inTurn)
  \/ \E update \in Updates, signalled \in BOOLEAN : ResolvesOk(inTurn, update, signalled)
Resolve == Resolves(ResolveInTurn)

Next == SetBounds \/ CallNext \/ ReportError \/ Step \/ Resolve

Spec == Init /\ [][Next]_vars

\* The loop runs on, and the host goes on calling in turn.
Fairness ==
  /\ WF_vars(NextInTurn /\ (CallNext \/ ReportError))
  /\ WF_vars(Step)
  /\ WF_vars(ResolveInTurn /\ Resolve)

------------------------------------------------------------------------------
\* No edge is followed more often than its limit allows, those that leave
\* actions and signalled gates and parallel ones that share a counter
\* included, whatever the host does; a limit of 0 or less allows none.
EdgeLimits == \A i \in DOMAIN def.edges : followed[i] > 0 => followed[i] <= Limit(i)

\* A definition that was validated does not fail for its form, whatever the
\* host does: the cursor stays on its nodes, in a branch too, next finds each
\* node and knows its type, and resolve does not throw.
SoundWhenValid ==
  Valid(def) =>
    /\ cursor \in def.nodes
    /\ cmd.type # "threw"
    /\ cmd.reason \in RunTimeReasons \cup {None}

\* next always returns, however its decisions are wired into cycles: the while
\* loop has no bound of its own.
NextReturns == pc = "walking" ~> pc = "host"

\* Where resolve can move the cursor from n without asking the loop guard.
MovesFreely(n) ==
  CASE def.type[n] = "gate" ->
         ({def.timeout[n]} \ {None}) \cup (IF OutEdges(def, n) = {} THEN {n} ELSE {})
    [] def.type[n] = "fork" -> {def.join[n]} \ {None}
    [] def.type[n] \in {"action", "workflow"} -> IF OutEdges(def, n) = {} THEN {n} ELSE {}
    [] OTHER -> {}

\* How often the edges may still be followed, one element for each time.
Credit == UNION {{i} \X ((followed[i] + 1)..Limit(i)) : i \in DOMAIN def.edges}

\* Each turn of the loop that does not return spends credit, and so does each
\* answer that moves the cursor but those that it moves freely; nothing, a call
\* out of turn neither, gives credit back.  The loop then has no more turns than
\* there is credit, however its decisions are wired into cycles.
MovesSpend ==
  [][/\ Credit' \subseteq Credit
     /\ pc = "walking" /\ pc' = "walking" => Credit' # Credit
     /\ cursor' # cursor /\ UNCHANGED stray =>
          \/ Credit' # Credit
          \/ cursor' \in MovesFreely(cursor) \cup {None}
          \/ cmd.type = "new"]_vars

\* No cycle is walked without asking the loop guard: timeoutEdges, joinNodes
\* and nodes without edges make none.
Guarded ==
  ~\E S \in SUBSET def.nodes :
     S # {} /\ \A n \in S : MovesFreely(n) \cap S # {}

\* Such a workflow completes or fails, whatever its conditions evaluate to and
\* its actions return, as long as the host goes on calling.
Finishes == Guarded ~> cmd.type \in Final \cup {"threw"}
==============================================================================
