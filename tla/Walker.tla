------------------------------- MODULE Walker -------------------------------
(***************************************************************************)
(* The Go graph walker (internal/graph): Next yields the next command of a  *)
(* workflow, Resolve takes the result of the last one.  The walker runs in  *)
(* one goroutine; the loop in Next is modelled one iteration at a time.     *)
(*                                                                         *)
(* No Go code drives the walker yet.  Its tests and the design document     *)
(* say how it is meant to be driven: Next, then the Resolve of what it      *)
(* asked for, until it completes or fails.  With Disciplined = FALSE the    *)
(* host may also call either function at any time.                          *)
(*                                                                         *)
(* sort.Slice keeps the order of edges of equal priority only as long as it *)
(* sorts by insertion, which it does for up to 12 edges (StableUpTo).       *)
(***************************************************************************)
EXTENDS Validation, FiniteSets

CONSTANTS Definitions,  \* the workflow definitions a walker may be made for
          Disciplined,  \* whether the host keeps to the protocol
          StableUpTo    \* how many edges the sort keeps in order

ASSUME DefinitionAssumption == \A d \in Definitions : IsDefinition(d)
ASSUME NoneAssumption == None \notin Ids
ASSUME DisciplinedAssumption == Disciplined \in BOOLEAN

VARIABLES
  def,         \* the definition
  flag,        \* the workflow context, one key of it
  cursor,      \* the node to look at next
  lastNode,    \* the node of the last command that asked for something
  counts,      \* the loop guard: traversals by from and to, refused ones too
  pendingErr,  \* an error given to Resolve and not yet reported
  pc,          \* "host", "walking" in the loop of Next, or "panicked"
  iter,        \* i of that loop
  cmd,         \* what Next returned last; "none" when it was resolved
  followed     \* history: how often each edge was followed (see Tally)

vars == <<def, flag, cursor, lastNode, counts, pendingErr, pc, iter, cmd, followed>>

Asking == {"execute_action", "execute_workflow", "fork", "wait_for_signal"}
Final == {"complete", "fail"}
Reasons == {"resolved", "missing", "no match", "condition", "limit",
            "input", "unknown type", "exhausted"}
Commands == [type : Asking \cup Final \cup {"none"}, node : Ids, reason : Reasons \cup {None}]

WalkerTypeOK ==
  /\ def \in Definitions
  /\ flag \in Flags
  /\ cursor \in Ids
  /\ lastNode \in Ids \cup {None}
  /\ counts \in [Ids \X Ids -> Nat]
  /\ pendingErr \in BOOLEAN
  /\ pc \in {"host", "walking", "panicked"}
  /\ iter \in Nat
  /\ cmd \in Commands
  /\ followed \in [DOMAIN def.edges -> Nat]

\* What NewWalker makes of a definition and the parameters of the workflow.
NewWalker ==
  /\ cursor = def.entry
  /\ lastNode = None
  /\ counts = [p \in Ids \X Ids |-> 0]
  /\ pendingErr = FALSE
  /\ pc = "host"
  /\ iter = 0
  /\ cmd = [type |-> "none", node |-> def.entry, reason |-> None]
  /\ followed = [i \in DOMAIN def.edges |-> 0]

Init == def \in Definitions /\ flag \in Flags /\ NewWalker

------------------------------------------------------------------------------
(* The loop guard. *)

\* Decoding an absent number leaves a Go int zero.
Number(n) == IF n = None THEN 0 ELSE n

GlobalLimit == IF Number(def.max) <= 0 THEN 100 ELSE def.max
Limit(i) == IF Number(def.edges[i].limit) > 0 THEN def.edges[i].limit ELSE GlobalLimit

\* Mutant: Check compares before it counts.
AllowedBeforeCounting(i) == counts[Pair(def, i)] <= Limit(i)

\* Check counts the traversal, then compares.
Allowed(i) == counts[Pair(def, i)] + 1 <= Limit(i)

\* History: the edges in E are followed.  It stops counting one above the
\* limit, so that it is finite where the code does not count at all.
Tally(E) == followed' = [i \in DOMAIN followed |->
  IF i \in E /\ followed[i] <= Limit(i) THEN followed[i] + 1 ELSE followed[i]]

------------------------------------------------------------------------------
(* Next. *)

Return(type, reason) ==
  /\ pc' = "host"
  /\ cmd' = [type |-> type, node |-> cursor, reason |-> reason]

MayCall == pc = "host" /\ (Disciplined => cmd.type = "none")

CallNext ==
  /\ MayCall /\ ~pendingErr
  /\ pc' = "walking"
  /\ iter' = 0
  /\ UNCHANGED <<def, flag, cursor, lastNode, counts, pendingErr, cmd, followed>>

\* The error of the last Resolve is reported once.
ReportError ==
  /\ MayCall /\ pendingErr
  /\ pendingErr' = FALSE
  /\ Return("fail", "resolved")
  /\ UNCHANGED <<def, flag, cursor, lastNode, counts, iter, followed>>

\* The bound of the loop is the definition's own number, not the loop guard's.
Iterating == pc = "walking" /\ iter < Number(def.max)

Exhaust ==
  /\ pc = "walking" /\ iter >= Number(def.max)
  /\ Return("fail", "exhausted")
  /\ UNCHANGED <<def, flag, cursor, lastNode, counts, pendingErr, iter, followed>>

At(types) == Iterating /\ cursor \in def.nodes /\ def.type[cursor] \in types

FailHere ==
  /\ Iterating
  /\ \/ /\ cursor \notin def.nodes
        /\ Return("fail", "missing")
     \/ /\ At({"other"})
        /\ Return("fail", "unknown type")
  /\ UNCHANGED <<def, flag, cursor, lastNode, counts, pendingErr, iter, followed>>

Complete ==
  /\ At({"terminal"}) /\ OutEdges(def, cursor) = {}
  /\ Return("complete", None)
  /\ UNCHANGED <<def, flag, cursor, lastNode, counts, pendingErr, iter, followed>>

\* A decision, or a terminal node that has edges and so serves as an
\* entrypoint, looks for an edge to follow.
Choosing == At({"decision", "terminal"}) /\ OutEdges(def, cursor) # {}
Choice ==
  LET E == Stoppers(def, cursor, flag, counts)
  IN IF Cardinality(OutEdges(def, cursor)) <= StableUpTo THEN Foremost(def, E)
     ELSE {i \in E : \A j \in E : def.edges[i].priority <= def.edges[j].priority}
Verdict(i) == Evaluate(def.edges[i].when, flag, counts)

\* Mutant: the loop guard looks at its count and does not move it.
FollowEdgeUncounted ==
  /\ Choosing
  /\ \E i \in Choice :
       /\ Verdict(i) = "true" /\ Allowed(i)
       /\ Tally({i})
       /\ cursor' = def.edges[i].to
  /\ iter' = iter + 1
  /\ UNCHANGED <<def, flag, lastNode, counts, pendingErr, pc, cmd>>

FollowEdge ==
  /\ Choosing
  /\ \E i \in Choice :
       /\ Verdict(i) = "true" /\ Allowed(i)
       /\ counts' = [counts EXCEPT ![Pair(def, i)] = @ + 1]
       /\ Tally({i})
       /\ cursor' = def.edges[i].to
  /\ iter' = iter + 1
  /\ UNCHANGED <<def, flag, lastNode, pendingErr, pc, cmd>>

RefuseEdge ==
  /\ Choosing
  /\ \E i \in Choice :
       /\ Verdict(i) = "true" /\ ~Allowed(i)
       /\ counts' = [counts EXCEPT ![Pair(def, i)] = @ + 1]
  /\ Return("fail", "limit")
  /\ UNCHANGED <<def, flag, cursor, lastNode, pendingErr, iter, followed>>

FailToChoose ==
  /\ Choosing
  /\ \/ /\ Choice = {}
        /\ Return("fail", "no match")
     \/ /\ \E i \in Choice : Verdict(i) = "error"
        /\ Return("fail", "condition")
  /\ UNCHANGED <<def, flag, cursor, lastNode, counts, pendingErr, iter, followed>>

\* followEdge names the node in its error message as edges[0].From: with no
\* edges at all the index is out of range.
Panic ==
  /\ At({"decision"}) /\ OutEdges(def, cursor) = {}
  /\ pc' = "panicked"
  /\ UNCHANGED <<def, flag, cursor, lastNode, counts, pendingErr, iter, cmd, followed>>

\* An action or a child workflow: its input is evaluated after the node is
\* noted as the last one.
AskToExecute ==
  /\ At({"action", "workflow"})
  /\ lastNode' = cursor
  /\ IF InputFails(def.input[cursor], flag) THEN Return("fail", "input")
     ELSE Return(IF def.type[cursor] = "action" THEN "execute_action"
                 ELSE "execute_workflow", None)
  /\ UNCHANGED <<def, flag, cursor, counts, pendingErr, iter, followed>>

AskHost ==
  /\ At({"fork", "gate"})
  /\ lastNode' = cursor
  /\ Return(IF def.type[cursor] = "fork" THEN "fork" ELSE "wait_for_signal", None)
  /\ UNCHANGED <<def, flag, cursor, counts, pendingErr, iter, followed>>

Step == \/ Exhaust \/ FailHere \/ Complete \/ FollowEdge \/ RefuseEdge
        \/ FailToChoose \/ Panic \/ AskToExecute \/ AskHost

------------------------------------------------------------------------------
(* Resolve. *)

MayResolve == pc = "host" /\ (Disciplined => cmd.type \in Asking)
Resolved == cmd' = [cmd EXCEPT !.type = "none", !.reason = None]

ResolveError ==
  /\ MayResolve
  /\ pendingErr' = TRUE
  /\ Resolved
  /\ UNCHANGED <<def, flag, cursor, lastNode, counts, pc, iter, followed>>

\* Mutant: the answer is applied at the cursor, wherever that has come to.
WayFromCursor(signalled) ==
  IF \/ cursor \notin def.nodes
     \/ def.type[cursor] = "gate" /\ ~signalled
     \/ def.type[cursor] = "fork" /\ def.join[cursor] # None
  THEN {} ELSE FirstEdge(def, cursor)

\* Mutant: a signal does not release a gate.
WayKeepingGates(signalled) ==
  IF \/ def.type[lastNode] = "gate"
     \/ def.type[lastNode] = "fork" /\ def.join[lastNode] # None
  THEN {} ELSE FirstEdge(def, lastNode)

\* The edge a successful Resolve goes along: none from a gate that was not
\* signalled (its timeoutEdge is not looked at) or a fork with a joinNode,
\* else, in advanceCursor, the first edge of the last node if it has one.  The
\* loop guard is not asked.
Way(signalled) ==
  IF \/ def.type[lastNode] = "gate" /\ ~signalled
     \/ def.type[lastNode] = "fork" /\ def.join[lastNode] # None
  THEN {} ELSE FirstEdge(def, lastNode)

\* Mutant: a fork goes to its joinNode even if it has none.
JoinBlindly == IF def.type[lastNode] = "fork" THEN {def.join[lastNode]} ELSE {}

\* Mutant: any node that names a joinNode goes to it.
JoinAnywhere == {def.join[lastNode]} \ {None}

Join == IF def.type[lastNode] = "fork" /\ def.join[lastNode] # None
        THEN {def.join[lastNode]} ELSE {}

\* Where it leads; with no way to go the cursor stays.
Destinations(signalled) ==
  LET ahead == Join \cup {def.edges[i].to : i \in Way(signalled)}
  IN IF ahead = {} THEN {cursor} ELSE ahead

ResolveOk(update, signalled) ==
  /\ MayResolve
  /\ flag' = update
  /\ IF lastNode \in def.nodes
     THEN /\ cursor' \in Destinations(signalled)
          /\ Tally(Way(signalled))
          /\ UNCHANGED pendingErr
     ELSE /\ pendingErr' = TRUE
          /\ UNCHANGED <<cursor, followed>>
  /\ Resolved
  /\ UNCHANGED <<def, lastNode, counts, pc, iter>>

\* A key of the context is set or replaced, never removed.
Resolve ==
  \/ ResolveError
  \/ \E update \in {flag, "true", "false"}, signalled \in BOOLEAN : ResolveOk(update, signalled)

Next == CallNext \/ ReportError \/ Step \/ Resolve

Spec == Init /\ [][Next]_vars

\* The loop runs on, and the host keeps calling and resolving.
Fairness == WF_vars(CallNext \/ ReportError) /\ WF_vars(Step) /\ WF_vars(Resolve)
FairSpec == Spec /\ Fairness

------------------------------------------------------------------------------
\* No edge that a decision follows is followed more often than its limit
\* allows, whatever the host does and although parallel edges share a counter:
\* the loops of a workflow that pass a decision are finite.
EdgeLimits ==
  \A i \in DOMAIN def.edges :
    /\ def.edges[i].from \in def.nodes
    /\ def.type[def.edges[i].from] \in {"decision", "terminal"}
    => followed[i] <= Limit(i)

\* A definition that the TypeScript validator accepts does not fail for its form
\* in the Go walker either, whatever the host does: the cursor stays on its
\* nodes, each is found and has a known type, and no decision panics.
SoundWhenValid ==
  Valid(def) =>
    /\ cursor \in def.nodes
    /\ pc # "panicked"
    /\ cmd.reason \in (Reasons \ {"missing", "unknown type"}) \cup {None}

\* The node last asked about and where its answer leads to; the entry before
\* the first question.
AnswerLeads(n) ==
  IF n = None THEN {def.entry}
  ELSE {n} \cup (IF def.type[n] = "fork" /\ def.join[n] # None THEN {def.join[n]}
                 ELSE {def.edges[i].to : i \in FirstEdge(def, n)})

\* S has with each decision all that the decision may choose.
DecidedWithin(S) ==
  \A i \in DOMAIN def.edges :
    /\ def.edges[i].from \in S \cap def.nodes
    /\ def.type[def.edges[i].from] \in {"decision", "terminal"}
    => def.edges[i].to \in S

\* In whatever order the host calls Next and Resolve, only decisions lie between
\* where the last answer leads to and the cursor: an answer that comes late,
\* twice or to no question carries the walker past no node it should ask about.
NoNodeSkipped ==
  \A S \in SUBSET Ids :
    AnswerLeads(lastNode) \subseteq S /\ DecidedWithin(S) => cursor \in S

\* A workflow never jumps: from one node to another the cursor goes along an
\* edge, or from a fork to its joinNode.
FollowsGraph ==
  [][cursor' # cursor =>
       \/ \E i \in OutEdges(def, cursor) : cursor' = def.edges[i].to
       \/ def.type[cursor] = "fork" /\ cursor' = def.join[cursor]]_vars

\* Where Resolve can move the cursor from n; a gate without a signal and a
\* node without edges stay.
ResolvesTo(n) ==
  (IF def.type[n] = "gate" \/ OutEdges(def, n) = {} THEN {n} ELSE {})
    \cup (IF def.type[n] = "fork" /\ def.join[n] # None THEN {def.join[n]}
          ELSE {def.edges[i].to : i \in FirstEdge(def, n)})

\* No cycle consists of nodes that only Resolve leaves: advanceCursor does not
\* ask the loop guard.
Guarded ==
  ~\E S \in SUBSET def.nodes :
     /\ S # {}
     /\ \A n \in S : /\ def.type[n] \in {"action", "workflow", "fork", "gate"}
                     /\ ResolvesTo(n) \cap S # {}

\* Such a workflow completes or fails, whatever its conditions evaluate to and
\* its actions return, as long as the host goes on calling.
Finishes == Guarded ~> cmd.type \in Final \/ pc = "panicked"

------------------------------------------------------------------------------
(* What the design document says, and the code does not do. *)

\* "maxIterations ... default 100": a workflow that does not set it may take
\* 100 steps.
DefaultIsHundred == cmd.reason = "exhausted" => iter >= GlobalLimit

\* "Back-edges exceeding their limit emit a fail command", those that leave an
\* action too: no edge is followed more often than its limit allows.
EveryEdgeLimited == \A i \in DOMAIN def.edges : followed[i] <= Limit(i)

\* The walker "uses ... timeoutEdge when the gate times out".
TimeoutEdgeUsed ==
  [][cmd.type = "wait_for_signal" /\ cmd'.type = "none" /\ ~pendingErr'
       => cursor' # cursor]_vars

\* "The counter is incremented before edge.when evaluation, so ...
\* _loop[...] < 3 allows 3 total traversals": such a condition can be evaluated.
LoopConditionUsable ==
  cmd.reason = "condition" =>
    \E i \in OutEdges(def, cursor) : def.edges[i].when.kind \in {"flag", "unless", "bad"}
==============================================================================
