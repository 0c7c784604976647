---------------------------- MODULE StrandedProofs ----------------------------
(***************************************************************************)
(* A fault strands one task at most, for any number of workers and faults.  *)
(*                                                                         *)
(* A fault need not strand its task at once: a cancelled worker runs its    *)
(* handler to the end, a call its client gave up still claims a row, and a  *)
(* revoked key is noticed when the result is refused.  Until then the       *)
(* worker is endangered.  The inductive invariant pays for both: there are  *)
(* no more stranded tasks and endangered workers together than faults.      *)
(***************************************************************************)
EXTENDS DispatchProofs

Serving == {"sent", "admitted", "claiming"}

\* Worker w runs a task, or its call may still bring it one or report one.
Busy(w) ==
  \/ proc[w] = "running"
  \/ proc[w] \in Listening /\ stage[w] \in Serving
  \/ proc[w] = "getting" /\ stage[w] = "replied" /\ reply[w] \in Tasks

\* A fault that hit w has yet to strand a task, if it will.
Endangered(w) ==
  \/ w \in cancelled /\ Busy(w)
  \/ proc[w] \notin Listening /\ stage[w] \in Serving
  \/ w \notin keys /\ Busy(w) /\ ~(req[w] = "get" /\ stage[w] = "sent")

AtRisk == {w \in Workers : Endangered(w)}

Debt ==
  /\ IsFiniteSet(Stranded)
  /\ Cardinality(Stranded) + Cardinality(AtRisk) <= faults

InHand(w, t) == Working(w, t) \/ Offered(w, t)

------------------------------------------------------------------------------
(* What a step may do to the debt. *)

\* No task but t leaves the hands it is in while it stays claimed, and none is
\* claimed for nobody.
Strands(t) == \A u \in Tasks \ {t} :
  status'[u] = "claimed" =>
    \/ \E v \in Workers : InHand(v, u)'
    \/ status[u] = "claimed" /\ \A v \in Workers : ~InHand(v, u)

\* No worker but w comes to be endangered.
Endangers(w) == \A v \in Workers \ {w} : Endangered(v)' => Endangered(v)

Calm == Strands(None) /\ Endangers(None) /\ faults' = faults
Risk(w) == Strands(None) /\ Endangers(w) /\ faults' = faults + 1
Harm(w, t) ==
  /\ Strands(t) /\ Endangers(w) /\ ~Endangered(w)'
  /\ faults' = faults + 1 \/ (Endangered(w) /\ faults' = faults)

LEMMA StrandsBound ==
  ASSUME NEW t, Strands(t)
  PROVE  Stranded' \subseteq Stranded \cup {t} /\ (t \notin Tasks => Stranded' \subseteq Stranded)
<1>1. ASSUME NEW u \in Stranded', u # t PROVE u \in Stranded
  BY <1>1 DEF Stranded, Strands, InHand
<1>2. Stranded' \subseteq Tasks
  BY DEF Stranded
<1> QED BY <1>1, <1>2

LEMMA NoneIsNobody == None \notin Tasks /\ None \notin Workers
  BY NoneAssumption

LEMMA RiskFinite == /\ IsFiniteSet(AtRisk) /\ Cardinality(AtRisk) \in Nat
                    /\ IsFiniteSet(AtRisk') /\ Cardinality(AtRisk') \in Nat
<1>1. IsFiniteSet(Workers) /\ AtRisk \subseteq Workers /\ AtRisk' \subseteq Workers
  BY WorkerAssumption DEF AtRisk
<1> QED BY <1>1, FS_Subset, FS_CardinalityType

LEMMA UnionBound ==
  ASSUME NEW S, NEW T, NEW U, IsFiniteSet(S), IsFiniteSet(T), U \subseteq S \cup T
  PROVE  /\ IsFiniteSet(U) /\ Cardinality(U) <= Cardinality(S) + Cardinality(T)
         /\ Cardinality(U) \in Nat /\ Cardinality(S) \in Nat
<1>1. /\ IsFiniteSet(S \cup T)
      /\ Cardinality(S \cup T) = Cardinality(S) + Cardinality(T) - Cardinality(S \cap T)
  BY FS_Union
<1>2. IsFiniteSet(U) /\ Cardinality(U) <= Cardinality(S \cup T) /\ IsFiniteSet(S \cap T)
  BY <1>1, FS_Subset
<1>3. /\ Cardinality(S) \in Nat /\ Cardinality(T) \in Nat /\ Cardinality(U) \in Nat
      /\ Cardinality(S \cap T) \in Nat
  BY <1>2, FS_CardinalityType
<1> QED BY <1>1, <1>2, <1>3

LEMMA CalmKeeps == ASSUME Debt, faults \in Nat, Calm PROVE Debt'
<1>1. Stranded' \subseteq Stranded
  BY StrandsBound, NoneIsNobody DEF Calm
<1>2. AtRisk' \subseteq AtRisk
  BY NoneIsNobody DEF Calm, Endangers, AtRisk
<1>3. /\ IsFiniteSet(Stranded') /\ Cardinality(Stranded') <= Cardinality(Stranded)
      /\ Cardinality(AtRisk') <= Cardinality(AtRisk)
  BY <1>1, <1>2, FS_Subset, RiskFinite DEF Debt
<1>4. Cardinality(Stranded) \in Nat /\ Cardinality(Stranded') \in Nat
  BY <1>3, FS_CardinalityType DEF Debt
<1> QED BY <1>3, <1>4, RiskFinite DEF Debt, Calm

LEMMA RiskKeeps == ASSUME Debt, faults \in Nat, NEW w \in Workers, Risk(w) PROVE Debt'
<1>1. Stranded' \subseteq Stranded
  BY StrandsBound, NoneIsNobody DEF Risk
<1>2. AtRisk' \subseteq AtRisk \cup {w}
  BY DEF Risk, Endangers, AtRisk
<1>3. IsFiniteSet(Stranded') /\ Cardinality(Stranded') <= Cardinality(Stranded)
  BY <1>1, FS_Subset DEF Debt
<1>4. Cardinality(Stranded) \in Nat /\ Cardinality(Stranded') \in Nat
  BY <1>3, FS_CardinalityType DEF Debt
<1>5. Cardinality(AtRisk') <= Cardinality(AtRisk) + 1
  <2>1. /\ IsFiniteSet(AtRisk \cup {w})
        /\ Cardinality(AtRisk \cup {w}) =
             IF w \in AtRisk THEN Cardinality(AtRisk) ELSE Cardinality(AtRisk) + 1
    BY RiskFinite, FS_AddElement
  <2>2. Cardinality(AtRisk') <= Cardinality(AtRisk \cup {w})
    BY <1>2, <2>1, FS_Subset
  <2> QED BY <2>1, <2>2, RiskFinite
<1> QED BY <1>3, <1>4, <1>5, RiskFinite DEF Debt, Risk

LEMMA HarmKeeps == ASSUME Debt, faults \in Nat, NEW w \in Workers, NEW t, Harm(w, t) PROVE Debt'
<1>1. Stranded' \subseteq Stranded \cup {t}
  BY StrandsBound DEF Harm
<1>2. AtRisk' \subseteq AtRisk \ {w}
  BY DEF Harm, Endangers, AtRisk
<1>3. IsFiniteSet(Stranded') /\ Cardinality(Stranded') <= Cardinality(Stranded) + 1
      /\ Cardinality(Stranded) \in Nat /\ Cardinality(Stranded') \in Nat
  <2>1. /\ IsFiniteSet(Stranded \cup {t})
        /\ Cardinality(Stranded \cup {t}) =
             IF t \in Stranded THEN Cardinality(Stranded) ELSE Cardinality(Stranded) + 1
    BY FS_AddElement DEF Debt
  <2>2. IsFiniteSet(Stranded') /\ Cardinality(Stranded') <= Cardinality(Stranded \cup {t})
    BY <1>1, <2>1, FS_Subset
  <2>3. Cardinality(Stranded) \in Nat /\ Cardinality(Stranded') \in Nat
    BY <2>2, FS_CardinalityType DEF Debt
  <2> QED BY <2>1, <2>2, <2>3
<1>4. Cardinality(AtRisk') <= IF w \in AtRisk THEN Cardinality(AtRisk) - 1 ELSE Cardinality(AtRisk)
  <2>1. /\ IsFiniteSet(AtRisk \ {w})
        /\ Cardinality(AtRisk \ {w}) =
             IF w \in AtRisk THEN Cardinality(AtRisk) - 1 ELSE Cardinality(AtRisk)
    BY RiskFinite, FS_RemoveElement
  <2>2. Cardinality(AtRisk') <= Cardinality(AtRisk \ {w})
    BY <1>2, <2>1, FS_Subset
  <2> QED BY <2>1, <2>2
<1>5. faults' = faults + 1 \/ (w \in AtRisk /\ faults' = faults)
  BY DEF Harm, AtRisk
<1> QED BY <1>3, <1>4, <1>5, RiskFinite DEF Debt

------------------------------------------------------------------------------
(* What each step does to it. *)

\* A worker that is cancelled strands the task it would report.
LEMMA SubmitSteps ==
  ASSUME DispatchInv, NEW w \in Workers, NEW t \in Tasks, NEW a \in Outcomes, Submit(w, t, a),
         \/ proc[w] = "running" /\ hold[w] = t
         \/ proc[w] = "getting" /\ stage[w] = "replied" /\ reply[w] = t,
         UNCHANGED <<status, keys, faults>>
  PROVE  Calm \/ Harm(w, t)
<1> USE NoneAssumption, NamesAssumption
    DEF DispatchInv, CallsInv, DispatchTypeOK, Calls, Listening, Serving, Calm, Strands, Endangers,
        Endangered, Busy, InHand, Working, Offered, storeVars, workerVars, callVars, histVars,
        tableVars, timeVars, scanVars
<1>1. CASE w \in cancelled
  <2>1. Drop(w, "idle") /\ EndCalls({w})
    BY <1>1 DEF Submit
  <2>2. Strands(t)
    BY <2>1 DEF Drop, EndCalls
  <2>3. Endangers(w) /\ ~Endangered(w)'
    BY <2>1 DEF Drop, EndCalls
  <2>4. Endangered(w) /\ faults' = faults
    BY <1>1
  <2> QED BY <2>2, <2>3, <2>4 DEF Harm
<1>2. CASE w \notin cancelled
  BY <1>2 DEF Submit
<1> QED BY <1>1, <1>2

LEMMA ReportSteps ==
  ASSUME DispatchInv, NEW w \in Workers
  PROVE  /\ RejectTask(w) => Calm \/ Harm(w, reply[w])
         /\ (\E a \in Outcomes : FinishHandler(w, a)) => Calm \/ Harm(w, hold[w])
<1>1. ASSUME RejectTask(w) PROVE Calm \/ Harm(w, reply[w])
  <2>1. /\ reply[w] \in Tasks /\ Submit(w, reply[w], "error") /\ "error" \in Outcomes
        /\ proc[w] = "getting" /\ stage[w] = "replied"
        /\ UNCHANGED <<status, keys, faults>>
    BY <1>1 DEF RejectTask, Outcomes, storeVars
  <2> QED BY <2>1, SubmitSteps
<1>2. ASSUME NEW a \in Outcomes, FinishHandler(w, a) PROVE Calm \/ Harm(w, hold[w])
  <2>1. /\ hold[w] \in Tasks /\ Submit(w, hold[w], a) /\ proc[w] = "running"
        /\ UNCHANGED <<status, keys, faults>>
    BY <1>2 DEF FinishHandler, storeVars, DispatchInv, CallsInv, Calls
  <2> QED BY <2>1, SubmitSteps
<1> QED BY <1>1, <1>2

\* Steps of one worker and its call, but for the claim and the report.
LEMMA WorkerSteps ==
  ASSUME DispatchInv, NEW w \in Workers
  PROVE  /\ Start(w) \/ Poll(w) \/ Stop(w) \/ ReceiveNothing(w) => Calm
         /\ ReceiveTask(w) \/ ReceiveSubmitted(w) => Calm
         /\ Admit(w) \/ GetTask(w) \/ Claiming(w) \/ GetTaskEmpty(w) \/ DiscardReply(w) => Calm
         /\ AbandonCall(w) => Calm \/ Harm(w, reply[w])
         /\ Refuse(w) => Calm \/ Harm(w, hold[w])
<1> USE NoneAssumption, NamesAssumption
    DEF DispatchInv, CallsInv, DispatchTypeOK, Calls, Listening, Serving, Calm, Strands, Endangers,
        Endangered, Busy, InHand, Working, Offered, storeVars, workerVars, callVars, histVars,
        tableVars, timeVars, scanVars
<1>1. ASSUME Start(w) PROVE Calm
  BY <1>1 DEF Start
<1>2. ASSUME Poll(w) PROVE Calm
  BY <1>2 DEF Poll, Send
<1>3. ASSUME Stop(w) PROVE Calm
  BY <1>3 DEF Stop
<1>4. ASSUME ReceiveNothing(w) PROVE Calm
  BY <1>4 DEF ReceiveNothing, Drop, EndCalls
<1>5. ASSUME ReceiveTask(w) PROVE Calm
  BY <1>5, WorkerAssumption DEF ReceiveTask, EndCalls
<1>6. ASSUME ReceiveSubmitted(w) PROVE Calm
  BY <1>6 DEF ReceiveSubmitted, Drop, EndCalls
<1>7. ASSUME Admit(w) PROVE Calm
  BY <1>7 DEF Admit, Advance
<1>8. ASSUME GetTask(w) PROVE Calm
  BY <1>8 DEF GetTask, Advance, BeginClaim
<1>9. ASSUME Claiming(w) PROVE Calm
  BY <1>9 DEF Claiming, PassOver, LockRow
<1>10. ASSUME GetTaskEmpty(w) PROVE Calm
  BY <1>10 DEF GetTaskEmpty, Answer, FindNone
<1>11. ASSUME DiscardReply(w) PROVE Calm
  BY <1>11 DEF DiscardReply, Drop, EndCalls
<1>12. ASSUME AbandonCall(w) PROVE Calm \/ Harm(w, reply[w])
  BY <1>12 DEF AbandonCall, LoseCall, Drop, EndCalls, Harm
<1>13. ASSUME Refuse(w) PROVE Calm \/ Harm(w, hold[w])
  BY <1>13 DEF Refuse, Answer, Harm
<1> QED
  BY <1>1, <1>2, <1>3, <1>4, <1>5, <1>6, <1>7, <1>8, <1>9, <1>10, <1>11, <1>12, <1>13

\* A claim that commits finds its client waiting, or the client was given up.
LEMMA ClaimSteps ==
  ASSUME DispatchInv, NEW w \in Workers, GetTaskReply(w)
  PROVE  Calm \/ \E t : Harm(w, t)
<1> USE NoneAssumption, NamesAssumption
    DEF DispatchInv, CallsInv, DispatchTypeOK, TypeOK, Calls, Listening, Serving, Endangers,
        Endangered, Busy, InHand, Working, Offered, storeVars, workerVars, callVars, histVars,
        tableVars, timeVars, scanVars
<1>1. PICK t \in Tasks : t = claim[w]
  BY DEF GetTaskReply, CommitClaim, LockExclusive
<1>2. /\ status' = [status EXCEPT ![t] = "claimed"]
      /\ stage[w] = "claiming" /\ req[w] = "get"
      /\ stage' = [stage EXCEPT ![w] = "replied"]
      /\ reply' = [reply EXCEPT ![w] = t]
      /\ UNCHANGED <<proc, cancelled, hold, req, keys, faults>>
  BY <1>1 DEF GetTaskReply, CommitClaim, Answer
<1>3. \A u \in Tasks \ {t}, v \in Workers : InHand(v, u)' <=> InHand(v, u)
  BY <1>1, <1>2
<1>4. Strands(t)
  BY <1>2, <1>3 DEF Strands
<1>5. Endangers(w)
  BY <1>2
<1>6. CASE proc[w] = "getting"
  <2>1. InHand(w, t)'
    BY <1>2, <1>6
  <2>2. Endangered(w)' => Endangered(w)
    BY <1>2, <1>6
  <2> QED BY <1>2, <1>4, <1>5, <2>1, <2>2 DEF Strands, Calm
<1>7. CASE proc[w] # "getting"
  <2>1. Endangered(w) /\ ~Endangered(w)'
    BY <1>2, <1>7
  <2>2. Harm(w, t)
    BY <1>2, <1>4, <1>5, <2>1 DEF Harm
  <2> QED BY <2>2
<1> QED BY <1>6, <1>7

\* A report settles its task.
LEMMA SettleSteps ==
  ASSUME DispatchInv, NEW w \in Workers, SubmitTaskResult(w)
  PROVE  Calm
<1> USE NoneAssumption, NamesAssumption
    DEF DispatchInv, CallsInv, DispatchTypeOK, TypeOK, Calls, Listening, Serving, Endangers,
        Endangered, Busy, InHand, Working, Offered, storeVars, workerVars, callVars, histVars,
        tableVars, timeVars, scanVars
<1>1. /\ hold[w] \in Tasks /\ status'[hold[w]] # "claimed"
      /\ \A u \in Tasks \ {hold[w]} : status'[u] = status[u]
  BY DEF SubmitTaskResult, CompleteTask, FailTask
<1>2. /\ stage[w] = "admitted" /\ req[w] = "submit"
      /\ stage' = [stage EXCEPT ![w] = "replied"]
      /\ reply' = [reply EXCEPT ![w] = "ok"]
      /\ UNCHANGED <<proc, cancelled, hold, req, keys, faults>>
  BY DEF SubmitTaskResult, Answer
<1>3. \A u \in Tasks \ {hold[w]}, v \in Workers : InHand(v, u)' <=> InHand(v, u)
  BY <1>2
<1>4. Strands(None)
  BY <1>1, <1>3 DEF Strands
<1>5. Endangers(None)
  BY <1>2
<1> QED BY <1>2, <1>4, <1>5 DEF Calm

LEMMA CreateSteps == ASSUME DispatchInv, CreateTask PROVE Calm
<1>1. PICK t \in Tasks : Stamp(t) \/ Insert(t)
  BY DEF CreateTask, Create
<1>2. \A u \in Tasks : status'[u] = "claimed" => status[u] = "claimed"
  BY <1>1 DEF Stamp, Insert, DispatchInv, CallsInv, DispatchTypeOK, TypeOK
<1>3. UNCHANGED <<proc, cancelled, hold, req, stage, reply, keys, faults>>
  BY DEF CreateTask, workerVars, callVars
<1> QED
  BY <1>2, <1>3 DEF Calm, Strands, Endangers, Endangered, Busy, InHand, Working, Offered

------------------------------------------------------------------------------
(* Faults. *)

LEMMA FaultSteps ==
  ASSUME DispatchInv, NEW w \in Workers
  PROVE  /\ Interrupt(w) \/ RevokeKey(w) => Risk(w)
         /\ BreakCall(w) => Risk(w) \/ Harm(w, reply[w])
         /\ LoseRequest(w) => Harm(w, hold[w])
         /\ Crash(w) => Risk(w) \/ Harm(w, hold[w]) \/ Harm(w, reply[w])
         /\ FailCall(w) => Calm \/ Harm(w, hold[w])
<1> USE NoneAssumption, NamesAssumption
    DEF DispatchInv, CallsInv, DispatchTypeOK, Calls, Listening, Serving, Calm, Risk, Harm, Strands,
        Endangers, Endangered, Busy, InHand, Working, Offered, storeVars, workerVars, callVars,
        histVars, tableVars, timeVars, scanVars, Fault
<1>1. ASSUME Interrupt(w) PROVE Risk(w)
  BY <1>1 DEF Interrupt
<1>2. ASSUME RevokeKey(w) PROVE Risk(w)
  BY <1>2 DEF RevokeKey
<1>3. ASSUME BreakCall(w) PROVE Risk(w) \/ Harm(w, reply[w])
  BY <1>3 DEF BreakCall, LoseCall, Drop, EndCalls
<1>4. ASSUME LoseRequest(w) PROVE Harm(w, hold[w])
  BY <1>4 DEF LoseRequest, Drop, EndCalls
<1>5. ASSUME Crash(w) PROVE Risk(w) \/ Harm(w, hold[w]) \/ Harm(w, reply[w])
  BY <1>5 DEF Crash, LoseCall, Drop, EndCalls
<1>6. ASSUME FailCall(w) PROVE Calm \/ Harm(w, hold[w])
  BY <1>6 DEF FailCall, Answer, AbortClaims
<1> QED BY <1>1, <1>2, <1>3, <1>4, <1>5, <1>6

\* A restart costs as many faults as there are calls: it strands the task of a call
\* it ends, and endangers the worker of a call that PostgreSQL goes on with.
LEMMA RestartKeeps ==
  ASSUME DispatchInv, Debt, RestartServer
  PROVE  Debt'
<1> DEFINE served == {w \in Workers : stage[w] # "none"}
<1>1. PICK left \in SUBSET served :
        /\ hold' = [w \in Workers |-> IF w \in served \ left THEN None ELSE hold[w]]
        /\ EndCalls(served \ left)
        /\ UNCHANGED status
        /\ \A w \in left : stage[w] # "replied"
  <2>1. PICK left \in SUBSET {w \in Workers : stage[w] \in {"admitted", "claiming"}},
             open \in SUBSET Workers :
          /\ hold' = [w \in Workers |-> IF w \in served \ left THEN None ELSE hold[w]]
          /\ EndCalls(served \ left)
          /\ IF open = {} THEN UNCHANGED storeVars ELSE AbortClaims(open)
    BY DEF RestartServer
  <2>2. left \in SUBSET served
    OBVIOUS
  <2>3. UNCHANGED status
    BY <2>1 DEF AbortClaims, storeVars, tableVars
  <2> QED BY <2>1, <2>2, <2>3
<1> DEFINE ended == served \ left
           Load(w) == IF hold[w] # None THEN hold[w] ELSE reply[w]
           load == [w \in ended |-> Load(w)]
           Loads == {load[w] : w \in ended}
<1> USE NoneAssumption, NamesAssumption
    DEF DispatchInv, CallsInv, DispatchTypeOK, Calls, Listening, Serving, Endangered, Busy, InHand,
        Working, Offered
<1>2. /\ proc' = [w \in Workers |-> IF proc[w] \in Listening THEN "idle" ELSE proc[w]]
      /\ UNCHANGED <<cancelled, keys>>
      /\ faults' = faults + Cardinality(served)
  BY DEF RestartServer, Fault
<1>3. /\ IsFiniteSet(ended) /\ IsFiniteSet(left)
      /\ Cardinality(ended) \in Nat /\ Cardinality(left) \in Nat
      /\ Cardinality(served) = Cardinality(ended) + Cardinality(left)
  <2>1. IsFiniteSet(served)
    BY WorkerAssumption, FS_Subset
  <2>2. IsFiniteSet(ended) /\ IsFiniteSet(left)
    BY <2>1, FS_Subset
  <2>3. served = ended \cup left /\ ended \cap left = {}
    OBVIOUS
  <2>4. Cardinality(served) = Cardinality(ended) + Cardinality(left) - Cardinality(ended \cap left)
    BY <2>2, <2>3, FS_Union
  <2>5. Cardinality(ended \cap left) = 0
    BY <2>3, FS_EmptySet
  <2>6. Cardinality(ended) \in Nat /\ Cardinality(left) \in Nat
    BY <2>2, FS_CardinalityType
  <2> HIDE DEF ended, served
  <2> QED BY <2>2, <2>4, <2>5, <2>6
<1>4. IsFiniteSet(Loads) /\ Cardinality(Loads) <= Cardinality(ended) /\ Cardinality(Loads) \in Nat
  <2>1. load \in Surjection(ended, Loads)
    BY DEF Surjection
  <2> QED BY <1>3, <2>1, FS_Surjection, FS_CardinalityType
<1>5. Stranded' \subseteq Stranded \cup Loads
  <2> SUFFICES ASSUME NEW u \in Stranded', u \notin Loads PROVE u \in Stranded
    OBVIOUS
  <2>1. u \in Tasks /\ status[u] = "claimed" /\ \A v \in Workers : ~InHand(v, u)'
    BY <1>1 DEF Stranded
  <2>2. ASSUME NEW v \in Workers PROVE ~InHand(v, u)
    <3>1. CASE v \in ended
      <4>1. Load(v) # u
        BY <3>1
      <4>2. hold[v] # None => hold[v] # u
        BY <4>1
      <4>3. hold[v] = None => reply[v] # u
        BY <4>1
      <4> QED BY <2>1, <3>1, <4>2, <4>3
    <3>2. CASE v \in left
      BY <1>1, <1>2, <2>1, <3>2 DEF EndCalls
    <3>3. CASE v \notin served
      BY <1>1, <1>2, <2>1, <3>3 DEF EndCalls
    <3> QED BY <3>1, <3>2, <3>3
  <2> QED BY <2>1, <2>2 DEF Stranded
<1>6. AtRisk' \subseteq AtRisk \cup left
  <2> SUFFICES ASSUME NEW w \in Workers, w \notin left, Endangered(w)' PROVE Endangered(w)
    BY DEF AtRisk
  <2> QED BY <1>1, <1>2 DEF EndCalls
<1> HIDE DEF Loads, ended, served
<1>7. /\ IsFiniteSet(Stranded')
      /\ Cardinality(Stranded') <= Cardinality(Stranded) + Cardinality(Loads)
      /\ Cardinality(Stranded) \in Nat /\ Cardinality(Stranded') \in Nat
  BY <1>4, <1>5, UnionBound DEF Debt
<1>8. Cardinality(AtRisk') <= Cardinality(AtRisk) + Cardinality(left)
  BY <1>3, <1>6, RiskFinite, UnionBound
<1> QED BY <1>2, <1>3, <1>4, <1>7, <1>8, RiskFinite DEF Debt

------------------------------------------------------------------------------
LEMMA DebtInit == DispatchInit => Debt
<1> SUFFICES ASSUME DispatchInit PROVE Debt
  OBVIOUS
<1>1. Stranded = {}
  BY DEF DispatchInit, Init, Stranded
<1>2. AtRisk = {}
  BY DEF DispatchInit, AtRisk, Endangered, Busy, Listening, Serving
<1> QED BY <1>1, <1>2, FS_EmptySet DEF DispatchInit, Debt

LEMMA DebtStep == DispatchInv /\ Debt /\ [DispatchNext]_vars => Debt'
<1> SUFFICES ASSUME DispatchInv, Debt, [DispatchNext]_vars PROVE Debt'
  OBVIOUS
<1>1. faults \in Nat
  BY DEF DispatchInv, CallsInv, DispatchTypeOK
<1>2. Calm => Debt'
  BY <1>1, CalmKeeps
<1>3. ASSUME NEW w \in Workers PROVE Risk(w) => Debt'
  BY <1>1, RiskKeeps
<1>4. ASSUME NEW w \in Workers, NEW t PROVE Harm(w, t) => Debt'
  BY <1>1, HarmKeeps
<1>5. ASSUME NEW w \in Workers, Client(w) PROVE Debt'
  <2>1. Calm \/ \E t : Harm(w, t)
    BY <1>5, WorkerSteps, ReportSteps DEF Client
  <2> QED BY <1>2, <1>4, <2>1
<1>6. ASSUME NEW w \in Workers, Server(w) PROVE Debt'
  <2>1. Calm \/ \E t : Harm(w, t)
    BY <1>6, WorkerSteps, ClaimSteps, SettleSteps DEF Server
  <2> QED BY <1>2, <1>4, <2>1
<1>7. ASSUME NEW w \in Workers, Faulty(w) PROVE Debt'
  <2>1. Calm \/ Risk(w) \/ \E t : Harm(w, t)
    BY <1>7, FaultSteps DEF Faulty
  <2> QED BY <1>2, <1>3, <1>4, <2>1
<1>8. CASE UNCHANGED vars
  <2>1. UNCHANGED <<Stranded, AtRisk, faults>>
    BY <1>8 DEF vars, storeVars, tableVars, workerVars, callVars, Stranded, AtRisk, Endangered,
       Busy, Working, Offered
  <2> QED BY <2>1 DEF Debt
<1> QED
  BY <1>2, <1>5, <1>6, <1>7, <1>8, CreateSteps, RestartKeeps DEF DispatchNext

\* Claimed tasks that nobody will report are no more than the faults so far,
\* however many workers, broken calls and restarts there are.
THEOREM FaultsStrandOneEach == DispatchSpec => []StrandedBound
<1>1. DispatchInit => DispatchInv /\ Debt
  BY DispatchInvInit, DebtInit
<1>2. DispatchInv /\ Debt /\ [DispatchNext]_vars => (DispatchInv /\ Debt)'
  BY DispatchInvStep, DebtStep
<1>3. DispatchInv /\ Debt => StrandedBound
  <2> SUFFICES ASSUME DispatchInv, Debt PROVE StrandedBound
    OBVIOUS
  <2>1. Cardinality(Stranded) \in Nat /\ faults \in Nat
    BY FS_CardinalityType DEF Debt, DispatchInv, CallsInv, DispatchTypeOK
  <2> QED BY <2>1, RiskFinite DEF Debt, StrandedBound
<1> QED BY <1>1, <1>2, <1>3, PTL DEF DispatchSpec

\* As long as no call broke and no process restarted, each claimed task is in the
\* hands of a worker, or on its way to one: the sweeper that the design asks for
\* has nothing to do.
THEOREM NobodyIsMissed ==
  DispatchSpec => [](faults = 0 => \A t \in Tasks :
    status[t] = "claimed" => \E w \in Workers : Working(w, t) \/ Offered(w, t))
<1>1. ASSUME Debt, faults = 0, NEW t \in Tasks, status[t] = "claimed"
      PROVE  \E w \in Workers : Working(w, t) \/ Offered(w, t)
  <2>1. IsFiniteSet(Stranded) /\ Cardinality(Stranded) \in Nat
    BY <1>1, FS_CardinalityType DEF Debt
  <2>2. Cardinality(Stranded) = 0
    BY <1>1, <2>1, RiskFinite DEF Debt
  <2>3. Stranded = {}
    BY <2>1, <2>2, FS_EmptySet
  <2> QED BY <1>1, <2>3 DEF Stranded
<1>2. DispatchInit => DispatchInv /\ Debt
  BY DispatchInvInit, DebtInit
<1>3. DispatchInv /\ Debt /\ [DispatchNext]_vars => (DispatchInv /\ Debt)'
  BY DispatchInvStep, DebtStep
<1>4. Debt => (faults = 0 => \A t \in Tasks :
        status[t] = "claimed" => \E w \in Workers : Working(w, t) \/ Offered(w, t))
  BY <1>1
<1> QED BY <1>2, <1>3, <1>4, PTL DEF DispatchSpec
=============================================================================
