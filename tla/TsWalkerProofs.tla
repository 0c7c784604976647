---------------------------- MODULE TsWalkerProofs ----------------------------
(***************************************************************************)
(* Theorems about the TypeScript walker for every set of definitions and    *)
(* any number of calls out of turn.                                         *)
(*                                                                         *)
(* Every traversal goes through the loop guard, which has counted at least  *)
(* as many as the history (Counted).  That a valid definition does not fail *)
(* for its form needs the joinNode at which a branch stops to be one of its *)
(* nodes, and so to be typed (Sound).                                       *)
(***************************************************************************)
EXTENDS TsWalker, ValidationProofs

Counted == \A i \in DOMAIN def.edges :
  followed[i] <= counts[Pair(def, i)] /\ (followed[i] > 0 => followed[i] <= Limit(i))

Inv == TsWalkerTypeOK /\ Counted /\ SoundWhenValid

------------------------------------------------------------------------------
\* The parts of a definition have the types the walker relies on.
LEMMA DefinitionTypes ==
  ASSUME def \in Definitions
  PROVE  /\ def.nodes \subseteq Ids /\ None \notin def.nodes
         /\ def.entry \in Ids /\ def.max \in Optional
         /\ def.type \in [def.nodes -> NodeTypes \cup {"other"}]
         /\ def.join \in [def.nodes -> Ids \cup {None}]
         /\ def.timeout \in [def.nodes -> Ids \cup {None}]
         /\ \A n \in def.nodes : Range(def.branches[n]) \subseteq Ids
         /\ \A i \in DOMAIN def.edges : def.edges[i] \in Edges
<1>1. PICK ids \in SUBSET Ids : def \in NodeMaps(ids)
  BY DefinitionAssumption DEF IsDefinition
<1>2. /\ def.nodes = ids /\ def.entry \in Ids /\ def.max \in Optional
      /\ def.edges \in Seq(Edges)
      /\ def.type \in [ids -> NodeTypes \cup {"other"}]
      /\ def.join \in [ids -> Ids \cup {None}]
      /\ def.timeout \in [ids -> Ids \cup {None}]
      /\ def.branches \in [ids -> Seq(Ids)]
  BY <1>1 DEF NodeMaps
<1>3. \A i \in DOMAIN def.edges : def.edges[i] \in Edges
  BY <1>2
<1>4. ASSUME NEW n \in def.nodes PROVE Range(def.branches[n]) \subseteq Ids
  <2>1. def.branches[n] \in Seq(Ids)
    BY <1>2
  <2> QED BY <2>1 DEF Range
<1> QED BY <1>2, <1>3, <1>4, NoneAssumption

\* What Pair and Limit yield for an edge.
LEMMA EdgeTypes ==
  ASSUME def \in Definitions, NEW i \in DOMAIN def.edges
  PROVE  /\ def.edges[i].to \in Ids
         /\ Pair(def, i) \in Ids \X Ids /\ Limit(i) \in Int
<1>1. def.edges[i] \in Edges /\ def.max \in Optional
  BY DefinitionTypes
<1>2. /\ def.edges[i].from \in Ids /\ def.edges[i].to \in Ids
      /\ def.edges[i].limit \in Optional
  BY <1>1 DEF Edges
<1> QED BY <1>1, <1>2 DEF Pair, Limit, Optional

\* What a valid definition refers to is there.
LEMMA ValidHere ==
  ASSUME def \in Definitions, Valid(def)
  PROVE  /\ def.entry \in def.nodes
         /\ \A n \in def.nodes : def.type[n] # "other"
         /\ \A i \in DOMAIN def.edges : def.edges[i].to \in def.nodes
         /\ \A n \in OfType(def, "fork") :
              Range(def.branches[n]) \subseteq def.nodes /\ def.join[n] \in def.nodes
         /\ \A n \in OfType(def, "gate") : def.timeout[n] \in def.nodes \cup {None}
  BY ValidParts, DefinitionAssumption DEF NodeTypes

\* The edges among which a node chooses, and its first one.
LEMMA ChoiceTypes ==
  /\ Choice \subseteq DOMAIN def.edges
  /\ \A n : FirstEdge(def, n) \subseteq DOMAIN def.edges
BY DEF Choice, Foremost, Stoppers, FirstEdge, OutEdges

LEMMA CountTypes ==
  ASSUME TsWalkerTypeOK, NEW i \in DOMAIN def.edges, Count(i)
  PROVE  /\ counts' \in [Ids \X Ids -> Nat]
         /\ \A p \in Ids \X Ids : counts'[p] = IF p = Pair(def, i) THEN counts[p] + 1 ELSE counts[p]
<1>1. Pair(def, i) \in Ids \X Ids
  BY EdgeTypes DEF TsWalkerTypeOK
<1> QED BY <1>1 DEF Count, TsWalkerTypeOK

\* A step that follows no edge keeps the history in bounds.
LEMMA CountedStays ==
  ASSUME Inv, UNCHANGED <<def, followed>>,
         UNCHANGED counts \/ \E i \in DOMAIN def.edges : Count(i)
  PROVE  Counted' /\ counts' \in [Ids \X Ids -> Nat]
<1> USE DEF Inv
<1>1. /\ counts' \in [Ids \X Ids -> Nat]
      /\ \A p \in Ids \X Ids : counts[p] <= counts'[p]
  BY CountTypes DEF TsWalkerTypeOK
<1>2. ASSUME NEW i \in DOMAIN def.edges
      PROVE  followed[i] <= counts'[Pair(def, i)] /\ (followed[i] > 0 => followed[i] <= Limit(i))
  <2>1. Pair(def, i) \in Ids \X Ids
    BY EdgeTypes DEF TsWalkerTypeOK
  <2>2. followed[i] <= counts[Pair(def, i)] /\ (followed[i] > 0 => followed[i] <= Limit(i))
    BY DEF Counted
  <2>3. followed[i] \in Nat /\ counts[Pair(def, i)] \in Nat /\ counts'[Pair(def, i)] \in Nat
    BY <1>1, <2>1 DEF TsWalkerTypeOK
  <2> QED BY <1>1, <2>1, <2>2, <2>3
<1> QED BY <1>1, <1>2 DEF Counted, Pair, Limit

\* Nor does one along an edge that the loop guard allows.
LEMMA GoKeeps ==
  ASSUME Inv, NEW e \in DOMAIN def.edges, Go(e), UNCHANGED def
  PROVE  /\ Counted' /\ counts' \in [Ids \X Ids -> Nat]
         /\ followed' \in [DOMAIN def.edges -> Nat]
         /\ cursor' = def.edges[e].to /\ cursor' \in Ids
<1> USE DEF Inv
<1>1. /\ counts' \in [Ids \X Ids -> Nat]
      /\ \A p \in Ids \X Ids : counts'[p] = IF p = Pair(def, e) THEN counts[p] + 1 ELSE counts[p]
  BY CountTypes DEF Go
<1>2. /\ followed' \in [DOMAIN def.edges -> Nat]
      /\ \A i \in DOMAIN def.edges : followed'[i] = IF i = e THEN followed[i] + 1 ELSE followed[i]
  BY DEF Go, TsWalkerTypeOK
<1>3. cursor' = def.edges[e].to /\ cursor' \in Ids
  BY EdgeTypes DEF Go, TsWalkerTypeOK
<1>4. ASSUME NEW i \in DOMAIN def.edges
      PROVE  followed'[i] <= counts'[Pair(def, i)] /\ (followed'[i] > 0 => followed'[i] <= Limit(i))
  <2>1. Pair(def, i) \in Ids \X Ids /\ Limit(i) \in Int
    BY EdgeTypes DEF TsWalkerTypeOK
  <2>2. followed[i] <= counts[Pair(def, i)] /\ (followed[i] > 0 => followed[i] <= Limit(i))
    BY DEF Counted
  <2>3. followed[i] \in Nat /\ counts[Pair(def, i)] \in Nat
    BY <2>1 DEF TsWalkerTypeOK
  <2>4. counts[Pair(def, e)] + 1 <= Limit(e)
    BY DEF Go, Allowed
  <2>5. CASE i = e
    BY <1>1, <1>2, <2>1, <2>2, <2>3, <2>4, <2>5
  <2>6. CASE i # e
    BY <1>1, <1>2, <2>1, <2>2, <2>3, <2>6
  <2> QED BY <2>5, <2>6
<1> QED BY <1>1, <1>2, <1>3, <1>4 DEF Counted, Pair, Limit

LEMMA CallTypes ==
  ASSUME TsWalkerTypeOK, UNCHANGED stray \/ (stray < MaxStray /\ stray' = stray + 1)
  PROVE  stray' \in 0..MaxStray
  BY StrayAssumption DEF TsWalkerTypeOK

LEMMA ReturnTypes ==
  ASSUME TsWalkerTypeOK, NEW type \in Asking \cup Final, NEW reason \in Reasons \cup {None},
         Return(type, reason)
  PROVE  cmd' \in Commands /\ pc' = "host" /\ cmd'.type = type /\ cmd'.reason = reason
  BY DEF Return, Commands, TsWalkerTypeOK

LEMMA ResolvedTypes ==
  ASSUME TsWalkerTypeOK, NEW type \in {"none", "threw"}, Resolved(type)
  PROVE  cmd' \in Commands /\ cmd'.type = type /\ cmd'.reason = None
  BY DEF Resolved, Commands, TsWalkerTypeOK

\* A step of the loop that stays at its node and returns.
Ends(type, reason) ==
  /\ Return(type, reason)
  /\ UNCHANGED <<def, flag, cursor, stop, pendingErr, stray, followed>>
  /\ UNCHANGED counts \/ \E i \in DOMAIN def.edges : Count(i)

LEMMA EndsKeeps ==
  ASSUME Inv, NEW type \in Asking \cup Final, NEW reason \in Reasons \cup {None},
         Ends(type, reason), Valid(def) => reason \in RunTimeReasons \cup {None}
  PROVE  Inv'
<1> USE DEF Inv, Ends
<1>1. cmd' \in Commands /\ pc' = "host" /\ cmd'.type = type /\ cmd'.reason = reason
  BY ReturnTypes
<1>2. Counted' /\ counts' \in [Ids \X Ids -> Nat]
  BY CountedStays
<1>3. TsWalkerTypeOK'
  BY <1>1, <1>2 DEF TsWalkerTypeOK
<1>4. type # "threw"
  BY DEF Asking, Final
<1>5. SoundWhenValid'
  BY <1>1, <1>4 DEF SoundWhenValid
<1> QED BY <1>2, <1>3, <1>5

------------------------------------------------------------------------------
(* The steps. *)

LEMMA InitInv == Init => Inv
<1> SUFFICES ASSUME Init PROVE Inv
  OBVIOUS
<1>1. TsWalkerTypeOK
  BY DefinitionTypes, StrayAssumption DEF Init, TsWalkerTypeOK, Commands
<1>2. ASSUME NEW i \in DOMAIN def.edges
      PROVE  followed[i] <= counts[Pair(def, i)] /\ (followed[i] > 0 => followed[i] <= Limit(i))
  <2>1. Pair(def, i) \in Ids \X Ids /\ Limit(i) \in Int
    BY EdgeTypes DEF Init
  <2> QED BY <2>1 DEF Init
<1>3. SoundWhenValid
  BY ValidHere DEF Init, SoundWhenValid
<1> QED BY <1>1, <1>2, <1>3 DEF Inv, Counted

LEMMA SetBoundsKeeps == ASSUME Inv, SetBounds PROVE Inv'
<1> USE DEF Inv
<1>1. PICK fork \in OfType(def, "fork") : cursor' \in Range(def.branches[fork]) /\ stop' = def.join[fork]
  BY DEF SetBounds
<1>2. def \in Definitions /\ fork \in def.nodes
  BY DEF TsWalkerTypeOK, OfType
<1>3. cursor' \in Ids /\ stop' \in Ids \cup {None}
  BY <1>1, <1>2, DefinitionTypes
<1>4. cmd' \in Commands /\ cmd'.type = "none" /\ cmd'.reason = None
  BY DEF SetBounds, TsWalkerTypeOK, Commands
<1>5. stray' \in 0..MaxStray
  BY CallTypes DEF SetBounds, Call
<1>6. Counted'
  BY CountedStays DEF SetBounds
<1>7. TsWalkerTypeOK'
  BY <1>3, <1>4, <1>5 DEF SetBounds, TsWalkerTypeOK
<1>8. SoundWhenValid'
  BY <1>1, <1>2, <1>4, ValidHere DEF SetBounds, SoundWhenValid
<1> QED BY <1>6, <1>7, <1>8

LEMMA CallNextKeeps == ASSUME Inv, CallNext PROVE Inv'
<1> USE DEF Inv
<1>1. stray' \in 0..MaxStray
  BY CallTypes DEF CallNext, CallsNext, NextInTurn, Call
<1>2. Counted'
  BY CountedStays DEF CallNext, CallsNext
<1> QED BY <1>1, <1>2 DEF CallNext, CallsNext, TsWalkerTypeOK, SoundWhenValid

LEMMA ReportErrorKeeps == ASSUME Inv, ReportError PROVE Inv'
<1> USE DEF Inv
<1>1. stray' \in 0..MaxStray
  BY CallTypes DEF ReportError, ReportsError, NextInTurn, Call
<1>2. pendingErr \in RunTimeReasons
  BY DEF ReportError, ReportsError, TsWalkerTypeOK
<1>3. cmd' \in Commands /\ pc' = "host" /\ cmd'.type = "fail" /\ cmd'.reason = pendingErr
  BY <1>2, ReturnTypes DEF ReportError, ReportsError, Final, Reasons
<1>4. Counted'
  BY CountedStays DEF ReportError, ReportsError
<1> QED BY <1>1, <1>2, <1>3, <1>4 DEF ReportError, ReportsError, TsWalkerTypeOK, SoundWhenValid

LEMMA FollowKeeps == ASSUME Inv, FollowEdge PROVE Inv'
<1> USE DEF Inv
<1>1. PICK e \in Choice : Go(e)
  BY DEF FollowEdge
<1>2. /\ Counted' /\ counts' \in [Ids \X Ids -> Nat]
      /\ followed' \in [DOMAIN def.edges -> Nat]
      /\ cursor' = def.edges[e].to /\ cursor' \in Ids /\ e \in DOMAIN def.edges
  BY <1>1, ChoiceTypes, GoKeeps DEF FollowEdge
<1>3. TsWalkerTypeOK'
  BY <1>2 DEF FollowEdge, TsWalkerTypeOK
<1>4. SoundWhenValid'
  BY <1>2, ValidHere DEF FollowEdge, SoundWhenValid, TsWalkerTypeOK
<1> QED BY <1>2, <1>3, <1>4

LEMMA OtherStepsKeep == ASSUME Inv, Step, ~FollowEdge PROVE Inv'
<1> USE DEF Inv
<1>1. ASSUME Complete PROVE Inv'
  BY <1>1, EndsKeeps DEF Complete, Ended, Ends, Final
<1>2. ASSUME FailHere PROVE Inv'
  <2>1. PICK reason \in {"missing", "unknown type"} : Ended("fail", reason)
    BY <1>2 DEF FailHere
  <2>2. ~Valid(def)
    BY <1>2, ValidHere DEF FailHere, At, SoundWhenValid, TsWalkerTypeOK
  <2> QED BY <2>1, <2>2, EndsKeeps DEF Ended, Ends, Final, Reasons
<1>3. ASSUME RefuseEdge PROVE Inv'
  <2>1. \E i \in DOMAIN def.edges : Count(i)
    BY <1>3, ChoiceTypes DEF RefuseEdge
  <2> QED BY <1>3, <2>1, EndsKeeps DEF RefuseEdge, Ends, Final, Reasons, RunTimeReasons
<1>4. ASSUME FailToChoose PROVE Inv'
  <2>1. PICK reason \in {"no match", "condition"} : Ended("fail", reason)
    BY <1>4 DEF FailToChoose
  <2> QED BY <2>1, EndsKeeps DEF Ended, Ends, Final, Reasons, RunTimeReasons
<1>5. ASSUME AskToExecute PROVE Inv'
  <2>1. \/ Ended("fail", "input")
        \/ \E type \in Asking : Ended(type, None)
    BY <1>5 DEF AskToExecute, Asking
  <2> QED BY <2>1, EndsKeeps DEF Ended, Ends, Final, Reasons, RunTimeReasons
<1>6. ASSUME AskHost PROVE Inv'
  <2>1. \E type \in Asking : Ended(type, None)
    BY <1>6 DEF AskHost, Asking
  <2> QED BY <2>1, EndsKeeps DEF Ended, Ends
<1> QED BY <1>1, <1>2, <1>3, <1>4, <1>5, <1>6 DEF Step

LEMMA ResolvesErrorKeeps == ASSUME Inv, ResolvesError(ResolveInTurn) PROVE Inv'
<1> USE DEF Inv
<1>1. stray' \in 0..MaxStray
  BY CallTypes DEF ResolvesError, ResolveInTurn, Call
<1>2. cmd' \in Commands /\ cmd'.type = "none" /\ cmd'.reason = None
  BY ResolvedTypes DEF ResolvesError
<1>3. Counted'
  BY CountedStays DEF ResolvesError
<1> QED
  BY <1>1, <1>2, <1>3 DEF ResolvesError, TsWalkerTypeOK, SoundWhenValid, RunTimeReasons

LEMMA ResolvesOkKeeps ==
  ASSUME Inv, NEW update \in Updates, NEW signalled \in BOOLEAN,
         ResolvesOk(ResolveInTurn, update, signalled)
  PROVE  Inv'
<1> USE DEF Inv
<1>1. stray' \in 0..MaxStray
  BY CallTypes DEF ResolvesOk, ResolveInTurn, Call
<1>2. flag' \in Flags /\ UNCHANGED <<def, stop, pc>> /\ def \in Definitions
  BY DEF ResolvesOk, Updates, Flags, TsWalkerTypeOK
<1> DEFINE Fine ==
      /\ Counted' /\ counts' \in [Ids \X Ids -> Nat]
      /\ followed' \in [DOMAIN def.edges -> Nat]
      /\ cursor' \in Ids \cup {None}
      /\ pendingErr' \in RunTimeReasons \cup {None}
      /\ cmd' \in Commands /\ cmd'.reason = None
      /\ Valid(def) => cursor' \in def.nodes /\ cmd'.type # "threw"
<1>3. Fine => Inv'
  BY <1>1, <1>2 DEF TsWalkerTypeOK, SoundWhenValid
<1>4. ASSUME Throw PROVE Fine
  <2>1. ~Valid(def)
    BY <1>4 DEF Throw, SoundWhenValid
  <2>2. Counted'
    BY <1>2, <1>4, CountedStays DEF Throw
  <2> QED BY <1>2, <1>4, <2>1, <2>2, ResolvedTypes DEF Throw, TsWalkerTypeOK
<1>5. ASSUME TakeTimeout(signalled) PROVE Fine
  <2>1. Counted'
    BY <1>2, <1>5, CountedStays DEF TakeTimeout
  <2>2. cmd' \in Commands /\ cmd'.type = "none" /\ cmd'.reason = None
    BY <1>5, ResolvedTypes DEF TakeTimeout
  <2>3. cursor \in OfType(def, "gate")
    BY <1>5 DEF TakeTimeout, Waits, OfType
  <2>4. /\ def.timeout[cursor] \in Ids \cup {None}
        /\ Valid(def) => def.timeout[cursor] \in def.nodes \cup {None}
    BY <1>2, <2>3, DefinitionTypes, ValidHere DEF OfType
  <2>5. /\ cursor' \in Ids \cup {None} /\ pendingErr' \in RunTimeReasons \cup {None}
        /\ Valid(def) => cursor' \in def.nodes
    BY <1>5, <2>4 DEF TakeTimeout, TsWalkerTypeOK, SoundWhenValid, RunTimeReasons
  <2> QED BY <1>2, <1>5, <2>1, <2>2, <2>5 DEF TakeTimeout, TsWalkerTypeOK
<1>6. ASSUME TakeJoin PROVE Fine
  <2>1. Counted'
    BY <1>2, <1>6, CountedStays DEF TakeJoin
  <2>2. cmd' \in Commands /\ cmd'.type = "none" /\ cmd'.reason = None
    BY <1>6, ResolvedTypes DEF TakeJoin
  <2>3. cursor \in OfType(def, "fork")
    BY <1>6 DEF TakeJoin, OfType
  <2>4. cursor' \in Ids \cup {None} /\ (Valid(def) => cursor' \in def.nodes)
    BY <1>2, <1>6, <2>3, DefinitionTypes, ValidHere DEF TakeJoin, OfType
  <2> QED BY <1>2, <1>6, <2>1, <2>2, <2>4 DEF TakeJoin, TsWalkerTypeOK
<1>7. ASSUME Advance(signalled) PROVE Fine
  <2>1. cmd' \in Commands /\ cmd'.type = "none" /\ cmd'.reason = None
    BY <1>7, ResolvedTypes DEF Advance
  <2>2. CASE \E i \in FirstEdge(def, cursor) : Go(i) /\ UNCHANGED pendingErr
    <3>1. PICK i \in FirstEdge(def, cursor) : Go(i) /\ UNCHANGED pendingErr
      BY <2>2
    <3>2. i \in DOMAIN def.edges
      BY <3>1, ChoiceTypes
    <3>3. /\ Counted' /\ counts' \in [Ids \X Ids -> Nat]
          /\ followed' \in [DOMAIN def.edges -> Nat]
          /\ cursor' = def.edges[i].to /\ cursor' \in Ids
      BY <1>2, <3>1, <3>2, GoKeeps
    <3> QED BY <1>2, <2>1, <3>1, <3>2, <3>3, ValidHere DEF TsWalkerTypeOK
  <2>3. CASE /\ \E i \in FirstEdge(def, cursor) : ~Allowed(i) /\ Count(i)
             /\ pendingErr' = "limit"
             /\ UNCHANGED <<cursor, followed>>
    <3>1. Counted' /\ counts' \in [Ids \X Ids -> Nat]
      BY <1>2, <2>3, ChoiceTypes, CountedStays
    <3> QED BY <1>2, <2>1, <2>3, <3>1 DEF TsWalkerTypeOK, SoundWhenValid, RunTimeReasons
  <2>4. CASE UNCHANGED <<cursor, counts, pendingErr, followed>>
    <3>1. Counted'
      BY <1>2, <2>4, CountedStays
    <3> QED BY <1>2, <2>1, <2>4, <3>1 DEF TsWalkerTypeOK, SoundWhenValid
  <2> QED BY <1>7, <2>2, <2>3, <2>4 DEF Advance
<1> QED BY <1>3, <1>4, <1>5, <1>6, <1>7 DEF ResolvesOk

LEMMA InvStep == Inv /\ [Next]_vars => Inv'
<1> SUFFICES ASSUME Inv, [Next]_vars PROVE Inv'
  OBVIOUS
<1>1. CASE UNCHANGED vars
  BY <1>1 DEF vars, Inv, TsWalkerTypeOK, Counted, Pair, Limit, SoundWhenValid
<1> QED
  BY <1>1, SetBoundsKeeps, CallNextKeeps, ReportErrorKeeps, FollowKeeps, OtherStepsKeep,
     ResolvesErrorKeeps, ResolvesOkKeeps
  DEF Next, Resolve, Resolves

LEMMA Invariance == Spec => []Inv
  BY InitInv, InvStep, PTL DEF Spec

------------------------------------------------------------------------------
\* Type correctness of the walker.
THEOREM TypeCorrect == Spec => []TsWalkerTypeOK
  BY Invariance, PTL DEF Inv

\* However the host calls the walker, and whatever node an edge leaves, it is
\* not followed more often than its limit allows.
THEOREM LimitsKept == Spec => []EdgeLimits
<1>1. Inv => EdgeLimits
  BY DEF Inv, Counted, EdgeLimits
<1> QED BY <1>1, Invariance, PTL

\* What the validator accepts, the walker never fails for its form.
THEOREM ValidIsSound == Spec => []SoundWhenValid
  BY Invariance, PTL DEF Inv
------------------------------------------------------------------------------
(* The loop of next comes to an end: each turn of it either returns or spends *)
(* credit (MovesSpend), the credit is finite (CreditIsFinite), and a decision *)
(* is never at a loss (DecisionsDecide).                                      *)

\* A traversal that the loop guard allows spends credit.
LEMMA GoSpends ==
  ASSUME Inv, NEW e \in DOMAIN def.edges, Go(e), UNCHANGED def
  PROVE  Credit' \subseteq Credit /\ Credit' # Credit
<1> USE DEF Inv
<1> DEFINE Left(i) == (followed[i] + 1)..Limit(i)
<1>1. /\ Pair(def, e) \in Ids \X Ids /\ \A i \in DOMAIN def.edges : Limit(i) \in Int /\ followed[i] \in Nat
      /\ followed[e] <= counts[Pair(def, e)] /\ counts[Pair(def, e)] + 1 <= Limit(e)
      /\ counts[Pair(def, e)] \in Nat
  BY EdgeTypes DEF TsWalkerTypeOK, Go, Allowed, Counted
<1>2. \A i \in DOMAIN def.edges : followed'[i] = IF i = e THEN followed[i] + 1 ELSE followed[i]
  BY DEF Go, TsWalkerTypeOK
<1>3. \A i \in DOMAIN def.edges : Limit(i)' = Limit(i)
  BY DEF Limit
<1>4. ASSUME NEW i \in DOMAIN def.edges
      PROVE  Left(i)' \subseteq Left(i) /\ (followed[e] + 1 \in Left(e) /\ followed[e] + 1 \notin Left(e)')
  <2>1. Left(i)' = (followed'[i] + 1)..Limit(i) /\ Left(e)' = (followed'[e] + 1)..Limit(e)
    BY <1>3
  <2>2. /\ followed[i] \in Nat /\ Limit(i) \in Int /\ followed[e] \in Nat /\ Limit(e) \in Int
        /\ followed[e] + 1 <= Limit(e) /\ followed'[e] = followed[e] + 1
        /\ followed'[i] \in {followed[i], followed[i] + 1}
    BY <1>1, <1>2
  <2>3. Left(i)' \subseteq Left(i)
    <3>1. \A m, n \in Nat, l \in Int : n \in {m, m + 1} => (n + 1)..l \subseteq (m + 1)..l
      OBVIOUS
    <3>2. followed'[i] \in Nat
      BY <2>2
    <3> QED BY <2>1, <2>2, <3>1, <3>2
  <2>4. followed[e] + 1 \in Left(e) /\ followed[e] + 1 \notin Left(e)'
    BY <2>1, <2>2
  <2> QED BY <2>3, <2>4
<1>5. /\ Credit = UNION {{i} \X Left(i) : i \in DOMAIN def.edges}
      /\ Credit' = UNION {{i} \X Left(i)' : i \in DOMAIN def.edges}
  BY DEF Credit
<1> HIDE DEF Left
<1>6. <<e, followed[e] + 1>> \in Credit /\ <<e, followed[e] + 1>> \notin Credit'
  BY <1>4, <1>5
<1>7. Credit' \subseteq Credit
  BY <1>4, <1>5
<1> QED BY <1>6, <1>7

LEMMA CreditIsFinite == ASSUME TsWalkerTypeOK PROVE IsFiniteSet(Credit)
<1> DEFINE D == DOMAIN def.edges
           f == [i \in D |-> {i} \X ((followed[i] + 1)..Limit(i))]
           T == {f[i] : i \in D}
<1>1. IsFiniteSet(D)
  <2>1. PICK ids \in SUBSET Ids : def \in NodeMaps(ids)
    BY DefinitionAssumption DEF TsWalkerTypeOK, IsDefinition
  <2>2. def.edges \in Seq(Edges)
    BY <2>1 DEF NodeMaps
  <2>3. D = 1..Len(def.edges) /\ Len(def.edges) \in Nat
    BY <2>2
  <2> QED BY <2>3, FS_Interval
<1>2. IsFiniteSet(T)
  <2>1. f \in Surjection(D, T)
    BY DEF Surjection
  <2> HIDE DEF f, T, D
  <2> QED BY <1>1, <2>1, FS_Surjection
<1>3. ASSUME NEW i \in D PROVE IsFiniteSet(f[i])
  <2>1. followed[i] + 1 \in Int /\ Limit(i) \in Int
    BY EdgeTypes DEF TsWalkerTypeOK
  <2>2. IsFiniteSet((followed[i] + 1)..Limit(i)) /\ IsFiniteSet({i})
    BY <2>1, FS_Interval, FS_Singleton
  <2> QED BY <2>2, FS_Product
<1>4. IsFiniteSet(UNION T)
  <2> HIDE DEF f
  <2>1. \A t \in T : IsFiniteSet(t)
    BY <1>3
  <2> HIDE DEF T
  <2> QED BY <1>2, <2>1, FS_UNION
<1>5. Credit = UNION T
  BY DEF Credit
<1> QED BY <1>4, <1>5

LEMMA CreditStays == ASSUME UNCHANGED <<def, followed>> PROVE Credit' = Credit
  BY DEF Credit, Limit
\* Where an answer in turn moves the cursor without spending credit.
LEMMA AnswerSpends ==
  ASSUME Inv, NEW update \in Updates, NEW signalled \in BOOLEAN,
         ResolvesOk(ResolveInTurn, update, signalled)
  PROVE  /\ Credit' \subseteq Credit
         /\ cursor' # cursor => Credit' # Credit \/ cursor' \in MovesFreely(cursor) \cup {None}
<1>1. UNCHANGED def
  BY DEF ResolvesOk
<1>2. CASE \E i \in FirstEdge(def, cursor) : Go(i)
  BY <1>1, <1>2, ChoiceTypes, GoSpends
<1>3. CASE Advance(signalled) /\ ~(\E i \in FirstEdge(def, cursor) : Go(i))
  BY <1>1, <1>3, CreditStays DEF Advance
<1>4. CASE Throw
  BY <1>1, <1>4, CreditStays DEF Throw
<1>5. CASE TakeTimeout(signalled)
  <2>1. cursor' # cursor => cursor' \in MovesFreely(cursor) \cup {None}
    BY <1>5 DEF TakeTimeout, Waits, MovesFreely
  <2> QED BY <1>1, <1>5, <2>1, CreditStays DEF TakeTimeout
<1>6. CASE TakeJoin
  <2>1. cursor' \in MovesFreely(cursor) \cup {None}
    BY <1>6 DEF TakeJoin, MovesFreely
  <2> QED BY <1>1, <1>6, <2>1, CreditStays DEF TakeJoin
<1> QED BY <1>2, <1>3, <1>4, <1>5, <1>6 DEF ResolvesOk

\* What a turn of the loop, an answer or any other call spends.
THEOREM EveryMoveSpends == Spec => MovesSpend
<1> DEFINE Spends ==
      /\ Credit' \subseteq Credit
      /\ pc = "walking" /\ pc' = "walking" => Credit' # Credit
      /\ cursor' # cursor /\ UNCHANGED stray =>
           \/ Credit' # Credit
           \/ cursor' \in MovesFreely(cursor) \cup {None}
           \/ cmd.type = "new"
<1>1. ASSUME Inv, Next PROVE Spends
  <2>1. CASE FollowEdge
    <3>1. PICK e \in DOMAIN def.edges : Go(e)
      BY <2>1, ChoiceTypes DEF FollowEdge
    <3> QED BY <1>1, <2>1, <3>1, GoSpends DEF FollowEdge
  <2>2. CASE Complete \/ FailHere \/ RefuseEdge \/ FailToChoose \/ AskToExecute \/ AskHost
    <3>1. pc' = "host" /\ UNCHANGED <<def, cursor, followed>>
      BY <2>2 DEF Complete, FailHere, RefuseEdge, FailToChoose, AskToExecute, AskHost, Ended, Return
    <3> QED BY <3>1, CreditStays
  <2>3. CASE CallNext \/ ReportError
    <3>1. pc = "host" /\ UNCHANGED <<def, cursor, followed>>
      BY <2>3 DEF CallNext, ReportError, CallsNext, ReportsError, Call
    <3> QED BY <3>1, CreditStays
  <2>4. CASE SetBounds
    <3>1. pc = "host" /\ UNCHANGED <<def, followed>>
      BY <2>4 DEF SetBounds, Call
    <3>2. stray \in Nat /\ (UNCHANGED stray => cmd.type = "new")
      BY <1>1, <2>4 DEF SetBounds, Call, Inv, TsWalkerTypeOK
    <3> QED BY <3>1, <3>2, CreditStays
  <2>5. CASE ResolvesError(ResolveInTurn)
    <3>1. pc = "host" /\ UNCHANGED <<def, cursor, followed>>
      BY <2>5 DEF ResolvesError, Call
    <3> QED BY <3>1, CreditStays
  <2>6. ASSUME NEW update \in Updates, NEW signalled \in BOOLEAN,
               ResolvesOk(ResolveInTurn, update, signalled)
        PROVE  Spends
    <3>1. pc = "host"
      BY <2>6 DEF ResolvesOk, Call
    <3> QED BY <1>1, <2>6, <3>1, AnswerSpends
  <2> QED BY <1>1, <2>1, <2>2, <2>3, <2>4, <2>5, <2>6 DEF Next, Step, Resolve, Resolves
<1>2. Inv /\ [Next]_vars => [Spends]_vars
  BY <1>1
<1> QED BY <1>2, Invariance, PTL DEF Spec, MovesSpend

\* And there is only so much of it: with EveryMoveSpends the loop of next has
\* finitely many turns.
THEOREM CreditRunsOut == Spec => []IsFiniteSet(Credit)
<1>1. Inv => IsFiniteSet(Credit)
  BY CreditIsFinite DEF Inv
<1> QED BY <1>1, Invariance, PTL

\* A decision comes to one verdict: it finds no edge, or one that it follows,
\* refuses or fails on.
THEOREM DecisionsDecide ==
  Spec => [](At({"decision"}) =>
    Choice = {} \/ \E i \in OutEdges(def, cursor) : Choice = {i} /\ Verdict(i) \in {"true", "error"})
<1>1. ASSUME Inv PROVE Choice = {} \/ \E i \in OutEdges(def, cursor) :
                         Choice = {i} /\ Verdict(i) \in {"true", "error"}
  <2> DEFINE S == Stoppers(def, cursor, flag, counts)
  <2>1. def \in Definitions /\ flag \in Flags
    BY <1>1 DEF Inv, TsWalkerTypeOK
  <2>2. CASE S = {}
    BY <2>2 DEF Choice, Foremost
  <2>3. CASE S # {}
    <3>1. PICK i \in S : Choice = {i}
      <4>1. S \subseteq DOMAIN def.edges
        BY DEF Stoppers, OutEdges
      <4> QED BY <2>1, <2>3, <4>1, DecisionTotal, DefinitionAssumption DEF Choice
    <3>2. i \in OutEdges(def, cursor) /\ Verdict(i) # "false"
      BY <3>1 DEF Stoppers, Verdict
    <3>3. Verdict(i) \in {"true", "false", "error"}
      BY <2>1 DEF Verdict, Evaluate, Flags
    <3> QED BY <3>1, <3>2, <3>3
  <2> QED BY <2>2, <2>3
<1> QED BY <1>1, Invariance, PTL
==============================================================================
