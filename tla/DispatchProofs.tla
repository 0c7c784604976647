---------------------------- MODULE DispatchProofs ----------------------------
(***************************************************************************)
(* Theorems about Dispatch for any number of tasks, workers and faults.     *)
(*                                                                         *)
(* First the calls: which stage of a call goes with which state of its      *)
(* client and of its claim statement (Calls).  Then the protocol as a user  *)
(* of the table: every step is a step of TaskStore, so what TaskStoreProofs *)
(* shows of the table holds here.  Then what a worker may rely on while it  *)
(* has a task (Promise) and what the table records (Record), from which     *)
(* HolderOwnsRow, RunsOnce and RecordsReport follow.  Last, that no step     *)
(* reaches a task that nobody will report.                                  *)
(***************************************************************************)
EXTENDS Dispatch, TaskStoreProofs, FiniteSetTheorems

\* How the states of a worker's process, call and claim statement go together.
Calls == \A w \in Workers :
  /\ stage[w] = "none" <=> req[w] = "none"
  /\ proc[w] = "getting" => req[w] = "get"
  /\ proc[w] = "submitting" => req[w] = "submit"
  /\ proc[w] = "running" => req[w] = "none" /\ hold[w] \in Tasks
  /\ proc[w] # "running" /\ req[w] # "submit" => hold[w] = None
  /\ req[w] = "submit" => hold[w] \in Tasks /\ answer[w] \in Outcomes
  /\ stage[w] = "claiming" <=> phase[w] # "idle"
  /\ stage[w] = "claiming" => req[w] = "get"

CallsInv == DispatchTypeOK /\ LockExclusive /\ Calls

------------------------------------------------------------------------------
\* Every step of the protocol is a step of the table or leaves it alone.
LEMMA StoreStep == CallsInv /\ [DispatchNext]_vars => [Next]_storeVars
<1> SUFFICES ASSUME CallsInv, [DispatchNext]_vars PROVE [Next]_storeVars
  OBVIOUS
<1> USE DEF CallsInv, DispatchTypeOK, Calls
<1>1. ASSUME NEW w \in Workers, GetTask(w) PROVE Next
  <2>1. BeginClaim(w, WorkerTenant[w]) /\ WorkerTenant[w] \in Tenants
    BY <1>1, WorkerAssumption DEF GetTask
  <2> QED
    BY <2>1 DEF Next, Scan
<1>2. ASSUME NEW w \in Workers, Claiming(w) PROVE Next
  BY <1>2 DEF Claiming, Next, Scan
<1>3. ASSUME NEW w \in Workers, GetTaskEmpty(w) PROVE Next
  BY <1>3 DEF GetTaskEmpty, Next, Scan
<1>4. ASSUME NEW w \in Workers, GetTaskReply(w) PROVE Next
  BY <1>4 DEF GetTaskReply, Next, Scan
<1>5. ASSUME NEW w \in Workers, SubmitTaskResult(w) PROVE Next
  <2>1. hold[w] \in Tasks /\ answer[w] \in Outcomes
    BY <1>5 DEF SubmitTaskResult
  <2>2. CASE answer[w] = "error"
    BY <1>5, <2>1, <2>2 DEF SubmitTaskResult, Next, Settle
  <2>3. CASE answer[w] # "error"
    <3>1. answer[w] \in Results
      BY <2>1, <2>3, ResultsAssumption DEF Outcomes
    <3> QED
      BY <1>5, <2>1, <2>3, <3>1 DEF SubmitTaskResult, Next, Settle
  <2> QED
    BY <2>2, <2>3
<1>6. ASSUME NEW w \in Workers, FailCall(w) PROVE [Next]_storeVars
  <2>1. CASE phase[w] = "idle"
    BY <1>6, <2>1 DEF FailCall
  <2>2. CASE phase[w] # "idle"
    <3>1. AbortClaims({w}) /\ {w} \in SUBSET Workers
      BY <1>6, <2>2 DEF FailCall
    <3> QED
      BY <3>1 DEF Next
  <2> QED
    BY <2>1, <2>2
<1>7. ASSUME CreateTask PROVE Next
  BY <1>7 DEF CreateTask, Next
<1>8. ASSUME RestartServer PROVE [Next]_storeVars
  <2>1. PICK open \in SUBSET Workers :
          IF open = {} THEN UNCHANGED storeVars ELSE AbortClaims(open)
    BY <1>8 DEF RestartServer
  <2>2. CASE open = {}
    BY <2>1, <2>2
  <2>3. CASE open # {}
    <3>1. AbortClaims(open)
      BY <2>1, <2>3
    <3> QED
      BY <3>1 DEF Next
  <2> QED
    BY <2>2, <2>3
<1>9. ASSUME NEW w \in Workers,
             \/ Start(w) \/ Poll(w) \/ Stop(w) \/ ReceiveNothing(w) \/ ReceiveTask(w)
             \/ RejectTask(w) \/ ReceiveSubmitted(w) \/ AbandonCall(w) \/ Admit(w) \/ Refuse(w)
             \/ DiscardReply(w) \/ Interrupt(w) \/ BreakCall(w) \/ LoseRequest(w) \/ Crash(w)
             \/ RevokeKey(w)
    PROVE UNCHANGED storeVars
  BY <1>9 DEF Start, Poll, Stop, ReceiveNothing, ReceiveTask, RejectTask,
     ReceiveSubmitted, AbandonCall, Admit, Refuse, DiscardReply, Interrupt,
     BreakCall, LoseRequest, Crash, RevokeKey
<1>10. ASSUME NEW w \in Workers, NEW a \in Outcomes, FinishHandler(w, a) PROVE UNCHANGED storeVars
  BY <1>10 DEF FinishHandler
<1>11. CASE UNCHANGED vars
  BY <1>11 DEF vars
<1> QED
  BY <1>1, <1>2, <1>3, <1>4, <1>5, <1>6, <1>7, <1>8, <1>9, <1>10, <1>11
  DEF DispatchNext, Client, Server, Faulty

------------------------------------------------------------------------------
\* The types of workers and calls are kept; those of the table by TypeStep.
LEMMA DispatchTypeStep == CallsInv /\ [DispatchNext]_vars => DispatchTypeOK'
<1> SUFFICES ASSUME CallsInv, [DispatchNext]_vars PROVE DispatchTypeOK'
  OBVIOUS
<1> USE WorkerAssumption, ResultsAssumption
    DEF CallsInv, DispatchTypeOK, Calls, Outcomes, Listening,
        storeVars, workerVars, callVars, histVars
<1>0. TypeOK'
  BY StoreStep, TypeStep
<1>1. ASSUME NEW w \in Workers, Start(w) PROVE DispatchTypeOK'
  BY <1>1, <1>0 DEF Start
<1>2. ASSUME NEW w \in Workers, Poll(w) PROVE DispatchTypeOK'
  BY <1>2, <1>0 DEF Poll, Send
<1>3. ASSUME NEW w \in Workers, Stop(w) PROVE DispatchTypeOK'
  BY <1>3, <1>0 DEF Stop
<1>4. ASSUME NEW w \in Workers, ReceiveNothing(w) PROVE DispatchTypeOK'
  BY <1>4, <1>0 DEF ReceiveNothing, Drop, EndCalls
<1>5. ASSUME NEW w \in Workers, ReceiveTask(w) PROVE DispatchTypeOK'
  BY <1>5, <1>0 DEF ReceiveTask, EndCalls
<1>6. ASSUME NEW w \in Workers, RejectTask(w) PROVE DispatchTypeOK'
  <2>1. /\ reply[w] \in Tasks /\ Submit(w, reply[w], "error")
        /\ UNCHANGED <<keys, faults, ran>>
    BY <1>6 DEF RejectTask
  <2>2. outcome' \in [Tasks -> Outcomes \cup {None}]
    BY <2>1 DEF Submit
  <2>3. CASE w \in cancelled
    <3>1. Drop(w, "idle") /\ EndCalls({w})
      BY <2>1, <2>3 DEF Submit
    <3> QED
      BY <1>0, <2>1, <2>2, <3>1 DEF Drop, EndCalls
  <2>4. CASE w \notin cancelled
    BY <1>0, <2>1, <2>2, <2>4 DEF Submit
  <2> QED
    BY <2>3, <2>4
<1>7. ASSUME NEW w \in Workers, ReceiveSubmitted(w) PROVE DispatchTypeOK'
  BY <1>7, <1>0 DEF ReceiveSubmitted, Drop, EndCalls
<1>8. ASSUME NEW w \in Workers, NEW a \in Outcomes, FinishHandler(w, a) PROVE DispatchTypeOK'
  BY <1>8, <1>0 DEF FinishHandler, Submit, Drop, EndCalls
<1>9. ASSUME NEW w \in Workers, AbandonCall(w) PROVE DispatchTypeOK'
  BY <1>9, <1>0 DEF AbandonCall, LoseCall, Drop, EndCalls
<1>10. ASSUME NEW w \in Workers, Admit(w) PROVE DispatchTypeOK'
  BY <1>10, <1>0 DEF Admit, Advance
<1>11. ASSUME NEW w \in Workers, Refuse(w) PROVE DispatchTypeOK'
  BY <1>11, <1>0 DEF Refuse, Answer
<1>12. ASSUME NEW w \in Workers, GetTask(w) PROVE DispatchTypeOK'
  BY <1>12, <1>0 DEF GetTask, Advance, BeginClaim
<1>13. ASSUME NEW w \in Workers, Claiming(w) PROVE DispatchTypeOK'
  BY <1>13, <1>0 DEF Claiming, PassOver, LockRow
<1>14. ASSUME NEW w \in Workers, GetTaskEmpty(w) PROVE DispatchTypeOK'
  BY <1>14, <1>0 DEF GetTaskEmpty, Answer, FindNone
<1>15. ASSUME NEW w \in Workers, GetTaskReply(w) PROVE DispatchTypeOK'
  <2>1. claim[w] \in Tasks
    BY <1>15, NoneAssumption DEF GetTaskReply, CommitClaim, LockExclusive, TypeOK
  <2> QED
    BY <1>15, <1>0, <2>1 DEF GetTaskReply, Answer, workerVars, histVars
<1>16. ASSUME NEW w \in Workers, SubmitTaskResult(w) PROVE DispatchTypeOK'
  BY <1>16, <1>0 DEF SubmitTaskResult, Answer, CompleteTask, FailTask
<1>17. ASSUME NEW w \in Workers, DiscardReply(w) PROVE DispatchTypeOK'
  BY <1>17, <1>0 DEF DiscardReply, Drop, EndCalls
<1>18. ASSUME NEW w \in Workers, Interrupt(w) PROVE DispatchTypeOK'
  BY <1>18, <1>0 DEF Interrupt, Fault
<1>19. ASSUME NEW w \in Workers, BreakCall(w) PROVE DispatchTypeOK'
  BY <1>19, <1>0 DEF BreakCall, LoseCall, Drop, EndCalls, Fault
<1>20. ASSUME NEW w \in Workers, LoseRequest(w) PROVE DispatchTypeOK'
  BY <1>20, <1>0 DEF LoseRequest, Drop, EndCalls, Fault
<1>21. ASSUME NEW w \in Workers, Crash(w) PROVE DispatchTypeOK'
  BY <1>21, <1>0 DEF Crash, LoseCall, Drop, EndCalls, Fault
<1>22. ASSUME NEW w \in Workers, FailCall(w) PROVE DispatchTypeOK'
  BY <1>22, <1>0 DEF FailCall, Answer, AbortClaims, Fault
<1>23. ASSUME NEW w \in Workers, RevokeKey(w) PROVE DispatchTypeOK'
  BY <1>23, <1>0 DEF RevokeKey, Fault
<1>24. ASSUME CreateTask PROVE DispatchTypeOK'
  BY <1>24, <1>0 DEF CreateTask, Create, Stamp, Insert
<1>25. ASSUME RestartServer PROVE DispatchTypeOK'
  <2> DEFINE served == {w \in Workers : stage[w] # "none"}
  <2>1. Cardinality(served) \in Nat
    BY FS_Subset, FS_CardinalityType
  <2>2. faults' \in Nat
    BY <1>25, <2>1 DEF RestartServer, Fault
  <2>3. PICK ended \in SUBSET Workers :
          /\ hold' = [w \in Workers |-> IF w \in ended THEN None ELSE hold[w]]
          /\ answer' = [w \in Workers |-> IF w \in ended THEN None ELSE answer[w]]
          /\ EndCalls(ended)
    BY <1>25 DEF RestartServer
  <2>4. /\ proc' = [w \in Workers |-> IF proc[w] \in Listening THEN "idle" ELSE proc[w]]
        /\ UNCHANGED <<cancelled, keys, histVars>>
    BY <1>25 DEF RestartServer
  <2> QED
    BY <1>0, <2>2, <2>3, <2>4 DEF EndCalls, histVars
<1>26. CASE UNCHANGED vars
  BY <1>0, <1>26 DEF vars
<1> QED
  BY <1>1, <1>2, <1>3, <1>4, <1>5, <1>6, <1>7, <1>8, <1>9, <1>10, <1>11, <1>12,
     <1>13, <1>14, <1>15, <1>16, <1>17, <1>18, <1>19, <1>20, <1>21, <1>22, <1>23,
     <1>24, <1>25, <1>26
  DEF DispatchNext, Client, Server, Faulty

\* The stages of calls stay in step.
LEMMA CallsStep == CallsInv /\ [DispatchNext]_vars => Calls'
<1> SUFFICES ASSUME CallsInv, [DispatchNext]_vars PROVE Calls'
  OBVIOUS
<1> USE NoneAssumption
    DEF CallsInv, DispatchTypeOK, Calls, Outcomes, Listening, storeVars, workerVars,
        callVars, histVars, tableVars, timeVars, scanVars
<1>1. ASSUME NEW w \in Workers, Start(w) PROVE Calls'
  BY <1>1 DEF Start
<1>2. ASSUME NEW w \in Workers, Poll(w) PROVE Calls'
  BY <1>2 DEF Poll, Send
<1>3. ASSUME NEW w \in Workers, Stop(w) PROVE Calls'
  BY <1>3 DEF Stop
<1>4. ASSUME NEW w \in Workers, ReceiveNothing(w) PROVE Calls'
  BY <1>4 DEF ReceiveNothing, Drop, EndCalls
<1>5. ASSUME NEW w \in Workers, ReceiveTask(w) PROVE Calls'
  BY <1>5, WorkerAssumption DEF ReceiveTask, EndCalls
<1>6. ASSUME NEW w \in Workers, RejectTask(w) PROVE Calls'
  BY <1>6 DEF RejectTask, Submit, Drop, EndCalls
<1>7. ASSUME NEW w \in Workers, ReceiveSubmitted(w) PROVE Calls'
  BY <1>7 DEF ReceiveSubmitted, Drop, EndCalls
<1>8. ASSUME NEW w \in Workers, NEW a \in Outcomes, FinishHandler(w, a) PROVE Calls'
  BY <1>8 DEF FinishHandler, Submit, Drop, EndCalls
<1>9. ASSUME NEW w \in Workers, AbandonCall(w) PROVE Calls'
  BY <1>9 DEF AbandonCall, LoseCall, Drop, EndCalls
<1>10. ASSUME NEW w \in Workers, Admit(w) PROVE Calls'
  BY <1>10 DEF Admit, Advance
<1>11. ASSUME NEW w \in Workers, Refuse(w) PROVE Calls'
  BY <1>11 DEF Refuse, Answer
<1>12. ASSUME NEW w \in Workers, GetTask(w) PROVE Calls'
  BY <1>12 DEF GetTask, Advance, BeginClaim, TypeOK, Phases
<1>13. ASSUME NEW w \in Workers, Claiming(w) PROVE Calls'
  BY <1>13 DEF Claiming, PassOver, LockRow, TypeOK, Phases
<1>14. ASSUME NEW w \in Workers, GetTaskEmpty(w) PROVE Calls'
  BY <1>14 DEF GetTaskEmpty, Answer, FindNone, TypeOK, Phases
<1>15. ASSUME NEW w \in Workers, GetTaskReply(w) PROVE Calls'
  BY <1>15 DEF GetTaskReply, Answer, CommitClaim, TypeOK, Phases
<1>16. ASSUME NEW w \in Workers, SubmitTaskResult(w) PROVE Calls'
  BY <1>16 DEF SubmitTaskResult, Answer, CompleteTask, FailTask
<1>17. ASSUME NEW w \in Workers, DiscardReply(w) PROVE Calls'
  BY <1>17 DEF DiscardReply, Drop, EndCalls
<1>18. ASSUME NEW w \in Workers, Interrupt(w) PROVE Calls'
  BY <1>18 DEF Interrupt, Fault
<1>19. ASSUME NEW w \in Workers, BreakCall(w) PROVE Calls'
  BY <1>19 DEF BreakCall, LoseCall, Drop, EndCalls, Fault
<1>20. ASSUME NEW w \in Workers, LoseRequest(w) PROVE Calls'
  BY <1>20 DEF LoseRequest, Drop, EndCalls, Fault
<1>21. ASSUME NEW w \in Workers, Crash(w) PROVE Calls'
  BY <1>21 DEF Crash, LoseCall, Drop, EndCalls, Fault
<1>22. ASSUME NEW w \in Workers, FailCall(w) PROVE Calls'
  BY <1>22 DEF FailCall, Answer, AbortClaims, Fault
<1>23. ASSUME NEW w \in Workers, RevokeKey(w) PROVE Calls'
  BY <1>23 DEF RevokeKey, Fault
<1>24. ASSUME CreateTask PROVE Calls'
  BY <1>24 DEF CreateTask, Create, Stamp, Insert
<1>25. ASSUME RestartServer PROVE Calls'
  BY <1>25 DEF RestartServer, EndCalls, AbortClaims, Fault
<1>26. CASE UNCHANGED vars
  BY <1>26 DEF vars
<1> QED
  BY <1>1, <1>2, <1>3, <1>4, <1>5, <1>6, <1>7, <1>8, <1>9, <1>10, <1>11, <1>12,
     <1>13, <1>14, <1>15, <1>16, <1>17, <1>18, <1>19, <1>20, <1>21, <1>22, <1>23,
     <1>24, <1>25, <1>26
  DEF DispatchNext, Client, Server, Faulty

------------------------------------------------------------------------------
Running(w, t) == proc[w] = "running" /\ hold[w] = t
Reporting(w, t) == hold[w] = t /\ req[w] = "submit" /\ stage[w] \in {"sent", "admitted"}

\* What a worker may rely on while t is its task.
Promise(w, t) ==
  /\ Offered(w, t) \/ Running(w, t) \/ Reporting(w, t)
       => status[t] = "claimed" /\ owner[t] = w
  /\ Offered(w, t) => ran[t] = 0
  /\ Running(w, t) => ran[t] = 1
  /\ Reporting(w, t) => outcome[t] = answer[w] /\ (ran[t] = 1 \/ t \notin Handlers[w])

\* What the table says of t, and how it came to.
Record(t) ==
  /\ status[t] \in {"absent", "stamped", "pending"} => ran[t] = 0
  /\ status[t] \in {"claimed", "completed", "failed"} => owner[t] \in Workers
  /\ ran[t] <= 1
  /\ status[t] = "completed" => outcome[t] = result[t]
  /\ status[t] = "failed" => outcome[t] = "error"
  /\ status[t] \in Terminal => ran[t] = 1 \/ t \notin Handlers[owner[t]]

History == /\ \A w \in Workers, t \in Tasks : Promise(w, t)
           /\ \A t \in Tasks : Record(t)

\* A step after which t is no more in the hands of w than before.
Unmoved(w, t) ==
  /\ Offered(w, t)' => Offered(w, t)
  /\ Running(w, t)' => Running(w, t)
  /\ Reporting(w, t)' => Reporting(w, t) /\ answer'[w] = answer[w]

\* A step that gives no worker a task and records nothing.
Quiet ==
  /\ UNCHANGED <<status, owner, result, ran, outcome>>
  /\ \A w \in Workers, t \in Tasks : Unmoved(w, t)

\* A quiet step keeps both.
LEMMA QuietStep == History /\ Quiet => History'
  BY DEF History, Promise, Record, Quiet, Unmoved

\* All steps but those that move a task are quiet.
LEMMA QuietSteps ==
  ASSUME CallsInv, [DispatchNext]_vars,
         \A w \in Workers : /\ ~GetTaskReply(w) /\ ~SubmitTaskResult(w)
                            /\ ~ReceiveTask(w) /\ ~RejectTask(w)
                            /\ \A a \in Outcomes : ~FinishHandler(w, a),
         ~CreateTask
  PROVE  Quiet
<1> USE NoneAssumption, NamesAssumption
    DEF CallsInv, DispatchTypeOK, Calls, Listening, Quiet, Unmoved, Offered, Running,
        Reporting, storeVars, workerVars, callVars, histVars, tableVars, timeVars,
        scanVars
<1>1. ASSUME NEW w \in Workers, Start(w) PROVE Quiet
  BY <1>1 DEF Start
<1>2. ASSUME NEW w \in Workers, Poll(w) PROVE Quiet
  BY <1>2 DEF Poll, Send
<1>3. ASSUME NEW w \in Workers, Stop(w) PROVE Quiet
  BY <1>3 DEF Stop
<1>4. ASSUME NEW w \in Workers, ReceiveNothing(w) PROVE Quiet
  BY <1>4 DEF ReceiveNothing, Drop, EndCalls
<1>5. ASSUME NEW w \in Workers, ReceiveSubmitted(w) PROVE Quiet
  BY <1>5 DEF ReceiveSubmitted, Drop, EndCalls
<1>6. ASSUME NEW w \in Workers, AbandonCall(w) PROVE Quiet
  BY <1>6 DEF AbandonCall, LoseCall, Drop, EndCalls
<1>7. ASSUME NEW w \in Workers, Admit(w) PROVE Quiet
  BY <1>7 DEF Admit, Advance
<1>8. ASSUME NEW w \in Workers, Refuse(w) PROVE Quiet
  BY <1>8 DEF Refuse, Answer
<1>9. ASSUME NEW w \in Workers, GetTask(w) PROVE Quiet
  BY <1>9 DEF GetTask, Advance, BeginClaim
<1>10. ASSUME NEW w \in Workers, Claiming(w) PROVE Quiet
  BY <1>10 DEF Claiming, PassOver, LockRow
<1>11. ASSUME NEW w \in Workers, GetTaskEmpty(w) PROVE Quiet
  BY <1>11 DEF GetTaskEmpty, Answer, FindNone
<1>12. ASSUME NEW w \in Workers, DiscardReply(w) PROVE Quiet
  BY <1>12 DEF DiscardReply, Drop, EndCalls
<1>13. ASSUME NEW w \in Workers, Interrupt(w) PROVE Quiet
  BY <1>13 DEF Interrupt, Fault
<1>14. ASSUME NEW w \in Workers, BreakCall(w) PROVE Quiet
  BY <1>14 DEF BreakCall, LoseCall, Drop, EndCalls, Fault
<1>15. ASSUME NEW w \in Workers, LoseRequest(w) PROVE Quiet
  BY <1>15 DEF LoseRequest, Drop, EndCalls, Fault
<1>16. ASSUME NEW w \in Workers, Crash(w) PROVE Quiet
  BY <1>16 DEF Crash, LoseCall, Drop, EndCalls, Fault
<1>17. ASSUME NEW w \in Workers, FailCall(w) PROVE Quiet
  BY <1>17 DEF FailCall, Answer, AbortClaims, Fault
<1>18. ASSUME NEW w \in Workers, RevokeKey(w) PROVE Quiet
  BY <1>18 DEF RevokeKey, Fault
<1>19. ASSUME RestartServer PROVE Quiet
  BY <1>19 DEF RestartServer, EndCalls, AbortClaims, Fault
<1>20. CASE UNCHANGED vars
  BY <1>20 DEF vars
<1> QED
  BY <1>1, <1>2, <1>3, <1>4, <1>5, <1>6, <1>7, <1>8, <1>9, <1>10, <1>11, <1>12,
     <1>13, <1>14, <1>15, <1>16, <1>17, <1>18, <1>19, <1>20
  DEF DispatchNext, Client, Server, Faulty

\* Every step keeps what workers rely on and what the table records.
LEMMA HistoryStep == CallsInv /\ History /\ [DispatchNext]_vars => History'
<1> SUFFICES ASSUME CallsInv, History, [DispatchNext]_vars PROVE History'
  OBVIOUS
<1> USE NoneAssumption, NamesAssumption DEF CallsInv, DispatchTypeOK, TypeOK, Calls, Unmoved
<1>1. ASSUME NEW w \in Workers, GetTaskReply(w) PROVE History'
  <2>1. PICK t \in Tasks : t = claim[w] /\ status[t] = "pending"
    BY <1>1 DEF GetTaskReply, CommitClaim, LockExclusive
  <2>2. /\ status' = [status EXCEPT ![t] = "claimed"]
        /\ owner' = [owner EXCEPT ![t] = w]
        /\ UNCHANGED <<result, ran, outcome>>
    BY <1>1, <2>1 DEF GetTaskReply, CommitClaim, histVars
  <2>3. \A v \in Workers, u \in Tasks : (v # w \/ u # t) => Unmoved(v, u)
    BY <1>1, <2>1 DEF GetTaskReply, Answer, workerVars, Offered, Running, Reporting
  <2>4. ~Running(w, t)' /\ ~Reporting(w, t)'
    BY <1>1, <2>1 DEF GetTaskReply, Answer, workerVars, Running, Reporting
  <2>5. \A v \in Workers : ~Offered(v, t) /\ ~Running(v, t) /\ ~Reporting(v, t)
    BY <2>1 DEF History, Promise
  <2>6. ASSUME NEW v \in Workers, NEW u \in Tasks PROVE Promise(v, u)'
    <3>1. CASE u = t /\ v = w
      BY <3>1, <2>1, <2>2, <2>4 DEF History, Promise, Record
    <3>2. CASE u = t /\ v # w
      BY <3>2, <2>3, <2>5 DEF Promise
    <3>3. CASE u # t
      BY <3>3, <2>2, <2>3 DEF History, Promise
    <3> QED
      BY <3>1, <3>2, <3>3
  <2>7. ASSUME NEW u \in Tasks PROVE Record(u)'
    BY <2>1, <2>2 DEF History, Record, Terminal
  <2> QED
    BY <2>6, <2>7 DEF History
<1>2. ASSUME NEW w \in Workers, SubmitTaskResult(w) PROVE History'
  <2>1. PICK t \in Tasks : t = hold[w] /\ Reporting(w, t)
    BY <1>2 DEF SubmitTaskResult, Reporting
  <2>2. /\ status[t] = "claimed" /\ owner[t] = w /\ outcome[t] = answer[w]
        /\ ran[t] = 1 \/ t \notin Handlers[w]
    BY <2>1 DEF History, Promise
  <2>3. /\ UNCHANGED <<owner, ran, outcome>>
        /\ \/ /\ answer[w] = "error"
              /\ status' = [status EXCEPT ![t] = "failed"] /\ UNCHANGED result
           \/ /\ status' = [status EXCEPT ![t] = "completed"]
              /\ result' = [result EXCEPT ![t] = answer[w]]
    BY <1>2, <2>1, <2>2 DEF SubmitTaskResult, CompleteTask, FailTask, histVars
  <2>4. \A v \in Workers, u \in Tasks : Unmoved(v, u)
    BY <1>2 DEF SubmitTaskResult, Answer, workerVars, Offered, Running, Reporting
  <2>5. ~Offered(w, t)' /\ ~Running(w, t)' /\ ~Reporting(w, t)'
    BY <1>2 DEF SubmitTaskResult, Answer, workerVars, Offered, Running, Reporting
  <2>6. \A v \in Workers \ {w} : ~Offered(v, t) /\ ~Running(v, t) /\ ~Reporting(v, t)
    BY <2>2, <2>1 DEF History, Promise
  <2>7. ASSUME NEW v \in Workers, NEW u \in Tasks PROVE Promise(v, u)'
    <3>1. CASE u = t
      BY <3>1, <2>4, <2>5, <2>6 DEF Promise
    <3>2. CASE u # t
      BY <3>2, <2>3, <2>4 DEF History, Promise
    <3> QED
      BY <3>1, <3>2
  <2>8. ASSUME NEW u \in Tasks PROVE Record(u)'
    BY <2>1, <2>2, <2>3 DEF History, Record, Terminal
  <2> QED
    BY <2>7, <2>8 DEF History
<1>3. ASSUME NEW w \in Workers, ReceiveTask(w) PROVE History'
  <2>1. PICK t \in Tasks : t = reply[w] /\ Offered(w, t)
    BY <1>3, WorkerAssumption DEF ReceiveTask, Offered
  <2>2. status[t] = "claimed" /\ owner[t] = w /\ ran[t] = 0
    BY <2>1 DEF History, Promise
  <2>3. ran' = [ran EXCEPT ![t] = 1] /\ UNCHANGED <<status, owner, result, outcome>>
    BY <1>3, <2>1, <2>2 DEF ReceiveTask, storeVars
  <2>4. \A v \in Workers, u \in Tasks : (v # w \/ u # t) => Unmoved(v, u)
    BY <1>3, <2>1 DEF ReceiveTask, EndCalls, Offered, Running, Reporting
  <2>5. ~Offered(w, t)' /\ ~Reporting(w, t)'
    BY <1>3 DEF ReceiveTask, EndCalls, Offered, Reporting
  <2>6. \A v \in Workers \ {w} : ~Offered(v, t) /\ ~Running(v, t) /\ ~Reporting(v, t)
    BY <2>2, <2>1 DEF History, Promise
  <2>7. ASSUME NEW v \in Workers, NEW u \in Tasks PROVE Promise(v, u)'
    <3>1. CASE u = t
      BY <3>1, <2>1, <2>2, <2>3, <2>4, <2>5, <2>6 DEF Promise
    <3>2. CASE u # t
      BY <3>2, <2>3, <2>4 DEF History, Promise
    <3> QED
      BY <3>1, <3>2
  <2>8. ASSUME NEW u \in Tasks PROVE Record(u)'
    BY <2>1, <2>2, <2>3 DEF History, Record, Terminal
  <2> QED
    BY <2>7, <2>8 DEF History
<1>4. ASSUME NEW w \in Workers, NEW t \in Tasks, NEW a \in Outcomes, Submit(w, t, a),
             (Offered(w, t) /\ t \notin Handlers[w]) \/ Running(w, t),
             UNCHANGED <<status, owner, result, ran>>
      PROVE  History'
  <2>1. /\ status[t] = "claimed" /\ owner[t] = w
        /\ ran[t] = 1 \/ t \notin Handlers[w]
    BY <1>4 DEF History, Promise
  <2>2. outcome' = [outcome EXCEPT ![t] = a]
    BY <1>4 DEF Submit
  <2>3. \A v \in Workers \ {w}, u \in Tasks : Unmoved(v, u)
    BY <1>4 DEF Submit, Drop, EndCalls, Offered, Running, Reporting
  <2>4. \A u \in Tasks : /\ ~Offered(w, u)' /\ ~Running(w, u)'
                         /\ Reporting(w, u)' => u = t /\ answer'[w] = a
    BY <1>4 DEF Submit, Drop, EndCalls, Offered, Running, Reporting
  <2>5. \A v \in Workers \ {w} : ~Offered(v, t) /\ ~Running(v, t) /\ ~Reporting(v, t)
    BY <2>1 DEF History, Promise
  <2>6. ASSUME NEW v \in Workers, NEW u \in Tasks PROVE Promise(v, u)'
    <3>1. CASE v = w
      BY <3>1, <1>4, <2>1, <2>2, <2>4 DEF Promise
    <3>2. CASE v # w
      BY <3>2, <1>4, <2>2, <2>3, <2>5 DEF History, Promise
    <3> QED
      BY <3>1, <3>2
  <2>7. ASSUME NEW u \in Tasks PROVE Record(u)'
    BY <1>4, <2>1, <2>2 DEF History, Record, Terminal
  <2> QED
    BY <2>6, <2>7 DEF History
<1>5. ASSUME NEW w \in Workers, RejectTask(w) PROVE History'
  <2>1. reply[w] \in Tasks \ Handlers[w] /\ Offered(w, reply[w])
    BY <1>5 DEF RejectTask, Offered
  <2>2. Submit(w, reply[w], "error") /\ UNCHANGED <<status, owner, result, ran>>
    BY <1>5 DEF RejectTask, storeVars
  <2> QED
    BY <1>4, <2>1, <2>2 DEF Outcomes
<1>6. ASSUME NEW w \in Workers, NEW a \in Outcomes, FinishHandler(w, a) PROVE History'
  <2>1. hold[w] \in Tasks /\ Running(w, hold[w])
    BY <1>6 DEF FinishHandler, Running
  <2>2. Submit(w, hold[w], a) /\ UNCHANGED <<status, owner, result, ran>>
    BY <1>6 DEF FinishHandler, storeVars
  <2> QED
    BY <1>4, <2>1, <2>2
<1>7. ASSUME CreateTask PROVE History'
  <2>1. PICK t \in Tasks : Stamp(t) \/ Insert(t)
    BY <1>7 DEF CreateTask, Create
  <2>2. /\ status[t] \in {"absent", "stamped"} /\ status'[t] \in {"stamped", "pending"}
        /\ \A u \in Tasks \ {t} : status'[u] = status[u]
        /\ UNCHANGED <<owner, result>>
    BY <2>1 DEF Stamp, Insert
  <2>3. UNCHANGED <<proc, hold, answer, req, stage, reply, ran, outcome>>
    BY <1>7 DEF CreateTask, workerVars, callVars, histVars
  <2>4. \A v \in Workers, u \in Tasks : Unmoved(v, u)
    BY <2>3 DEF Offered, Running, Reporting
  <2>5. \A v \in Workers : ~Offered(v, t) /\ ~Running(v, t) /\ ~Reporting(v, t)
    BY <2>2 DEF History, Promise
  <2>6. ASSUME NEW v \in Workers, NEW u \in Tasks PROVE Promise(v, u)'
    <3>1. CASE u = t
      BY <3>1, <2>4, <2>5 DEF Promise
    <3>2. CASE u # t
      BY <3>2, <2>2, <2>3, <2>4 DEF History, Promise
    <3> QED
      BY <3>1, <3>2
  <2>7. ASSUME NEW u \in Tasks PROVE Record(u)'
    BY <2>2, <2>3 DEF History, Record, Terminal
  <2> QED
    BY <2>6, <2>7 DEF History
<1> QED
  <2>1. CASE \/ \E w \in Workers : \/ GetTaskReply(w) \/ SubmitTaskResult(w)
                                   \/ ReceiveTask(w) \/ RejectTask(w)
                                   \/ \E a \in Outcomes : FinishHandler(w, a)
             \/ CreateTask
    BY <2>1, <1>1, <1>2, <1>3, <1>5, <1>6, <1>7
  <2>2. CASE ~(\/ \E w \in Workers : \/ GetTaskReply(w) \/ SubmitTaskResult(w)
                                     \/ ReceiveTask(w) \/ RejectTask(w)
                                     \/ \E a \in Outcomes : FinishHandler(w, a)
               \/ CreateTask)
    <3>1. Quiet
      BY <2>2, QuietSteps
    <3> QED
      BY <3>1, QuietStep
  <2> QED
    BY <2>1, <2>2

------------------------------------------------------------------------------
\* The inductive invariant.
DispatchInv == CallsInv /\ History

\* It holds before the first worker starts.
LEMMA DispatchInvInit == DispatchInit => DispatchInv
<1> SUFFICES ASSUME DispatchInit PROVE DispatchInv
  OBVIOUS
<1>1. TypeOK /\ LockExclusive
  BY NoneAssumption DEF DispatchInit, Init, TypeOK, LockExclusive, Statuses, Phases
<1>2. DispatchTypeOK /\ Calls
  BY <1>1 DEF DispatchInit, Init, DispatchTypeOK, Calls
<1>3. History
  BY NoneAssumption DEF DispatchInit, Init, History, Promise, Record, Offered,
     Running,
     Reporting, Terminal
<1> QED
  BY <1>1, <1>2, <1>3 DEF DispatchInv, CallsInv

\* Every step keeps it.
LEMMA DispatchInvStep == DispatchInv /\ [DispatchNext]_vars => DispatchInv'
<1> SUFFICES ASSUME DispatchInv, [DispatchNext]_vars PROVE DispatchInv'
  OBVIOUS
<1>1. LockExclusive'
  <2>1. TypeOK /\ LockExclusive /\ [Next]_storeVars
    BY StoreStep DEF DispatchInv, CallsInv, DispatchTypeOK
  <2> QED
    BY <2>1, LockStep
<1>2. DispatchTypeOK' /\ Calls'
  BY DispatchTypeStep, CallsStep DEF DispatchInv
<1>3. History'
  BY HistoryStep DEF DispatchInv
<1> QED
  BY <1>1, <1>2, <1>3 DEF DispatchInv, CallsInv

\* So it always holds.
LEMMA DispatchInvAlways == DispatchSpec => []DispatchInv
  BY DispatchInvInit, DispatchInvStep, PTL DEF DispatchSpec

\* Workers, calls and the table keep their types.
THEOREM DispatchTypeCorrect == DispatchSpec => []DispatchTypeOK
<1>1. DispatchInv => DispatchTypeOK
  BY DEF DispatchInv, CallsInv
<1> QED
  BY <1>1, DispatchInvAlways, PTL

\* Whatever calls break, the protocol uses the table as TaskStore allows.
THEOREM UsesStore == DispatchSpec => StoreSpec
<1>1. DispatchInit => Init
  BY DEF DispatchInit
<1>2. DispatchInv /\ [DispatchNext]_vars => [Next]_storeVars
  BY StoreStep DEF DispatchInv
<1> QED
  BY <1>1, <1>2, DispatchInvAlways, PTL DEF DispatchSpec, StoreSpec, Spec

\* With it the oldest task is dispatched first, the empty answer is honest, and
\* a task is taken once and settled once, whatever faults happen.
THEOREM DispatchKeepsStorePromises ==
  DispatchSpec => [](ClaimOrder /\ EmptyMeansTaken) /\ LifecycleSpec
  BY UsesStore, OldestFirst, EmptyIsHonest, ImplementsLifecycle, PTL DEF StoreSpec

\* A worker's report finds the row it means: the task is claimed, by it.
THEOREM ReportsFindTheirRow == DispatchSpec => []HolderOwnsRow
<1>1. DispatchInv => HolderOwnsRow
  BY DEF DispatchInv, CallsInv, History, Promise, HolderOwnsRow, Working, Running,
     Reporting
<1> QED
  BY <1>1, DispatchInvAlways, PTL

\* No task's handler is started twice.
THEOREM HandlersRunOnce == DispatchSpec => []RunsOnce
<1>1. DispatchInv => RunsOnce
  <2> SUFFICES ASSUME DispatchInv, NEW t \in Tasks
               PROVE  ran[t] <= 1 /\ (ran[t] = 1 => owner[t] # None)
    BY DEF RunsOnce
  <2>1. Record(t) /\ status[t] \in Statuses
    BY DEF DispatchInv, CallsInv, DispatchTypeOK, TypeOK, History
  <2>2. ran[t] = 1 => owner[t] \in Workers
    BY <2>1 DEF Record, Statuses
  <2> QED
    BY <2>1, <2>2, NoneAssumption DEF Record
<1> QED
  BY <1>1, DispatchInvAlways, PTL

\* A settled task holds what its worker reported.
THEOREM TableRecordsReports == DispatchSpec => []RecordsReport
<1>1. DispatchInv => RecordsReport
  BY DEF DispatchInv, History, Record, RecordsReport
<1> QED
  BY <1>1, DispatchInvAlways, PTL

------------------------------------------------------------------------------
(* Stranded tasks. *)

\* t stays with nobody, and claimed.
Unreached(t) == status'[t] = "claimed" /\ \A w \in Workers : Unmoved(w, t)

LEMMA UnreachedStays ==
  ASSUME NEW t \in Stranded, Unreached(t) PROVE t \in Stranded'
  BY DEF Stranded, Unreached, Unmoved, Working, Running, Reporting

\* Each step that moves a task moves one that is not stranded.
LEMMA StrandedStep ==
  ASSUME DispatchInv, [DispatchNext]_vars, NEW t \in Stranded PROVE t \in Stranded'
<1>1. /\ t \in Tasks /\ status[t] = "claimed"
      /\ \A w \in Workers : ~Offered(w, t) /\ ~Running(w, t) /\ ~Reporting(w, t)
  BY DEF Stranded, Working, Running, Reporting
<1> USE NoneAssumption, NamesAssumption
    DEF DispatchInv, CallsInv, DispatchTypeOK, TypeOK, Calls, Unmoved, Unreached
<1>2. ASSUME NEW w \in Workers, GetTaskReply(w) PROVE Unreached(t)
  <2>1. claim[w] \in Tasks /\ status[claim[w]] = "pending"
    BY <1>2 DEF GetTaskReply, CommitClaim, LockExclusive
  <2>2. claim[w] # t /\ status'[t] = "claimed"
    BY <1>1, <1>2, <2>1 DEF GetTaskReply, CommitClaim
  <2> QED
    BY <1>1, <1>2, <2>2 DEF GetTaskReply, Answer, workerVars, Offered, Running, Reporting
<1>3. ASSUME NEW w \in Workers, SubmitTaskResult(w) PROVE Unreached(t)
  <2>1. hold[w] \in Tasks /\ hold[w] # t
    BY <1>1, <1>3 DEF SubmitTaskResult, Reporting
  <2>2. status'[t] = "claimed"
    BY <1>1, <1>3, <2>1 DEF SubmitTaskResult, CompleteTask, FailTask
  <2> QED
    BY <1>1, <1>3, <2>2 DEF SubmitTaskResult, Answer, workerVars, Offered, Running, Reporting
<1>4. ASSUME NEW w \in Workers, ReceiveTask(w) PROVE Unreached(t)
  <2>1. reply[w] # t /\ status' = status
    BY <1>1, <1>4 DEF ReceiveTask, Offered, storeVars, tableVars
  <2> QED
    BY <1>1, <1>4, <2>1 DEF ReceiveTask, EndCalls, Offered, Running, Reporting
<1>5. ASSUME NEW w \in Workers, NEW u \in Tasks \ {t}, NEW a, Submit(w, u, a), status' = status
      PROVE  Unreached(t)
  BY <1>1, <1>5 DEF Submit, Drop, EndCalls, Offered, Running, Reporting
<1>6. ASSUME NEW w \in Workers, RejectTask(w) PROVE Unreached(t)
  <2>1. reply[w] \in Tasks \ {t} /\ status' = status
    BY <1>1, <1>6 DEF RejectTask, Offered, storeVars, tableVars
  <2> QED BY <1>5, <1>6, <2>1 DEF RejectTask
<1>7. ASSUME NEW w \in Workers, NEW a \in Outcomes, FinishHandler(w, a) PROVE Unreached(t)
  <2>1. hold[w] \in Tasks \ {t} /\ status' = status
    BY <1>1, <1>7 DEF FinishHandler, Running, storeVars, tableVars
  <2> QED BY <1>5, <1>7, <2>1 DEF FinishHandler
<1>8. ASSUME CreateTask PROVE Unreached(t)
  <2>1. PICK u \in Tasks : Stamp(u) \/ Insert(u)
    BY <1>8 DEF CreateTask, Create
  <2>2. u # t /\ status'[t] = "claimed"
    BY <1>1, <2>1 DEF Stamp, Insert
  <2> QED
    BY <1>1, <1>8, <2>2 DEF CreateTask, workerVars, callVars, Offered, Running, Reporting
<1>9. ASSUME Quiet PROVE Unreached(t)
  BY <1>1, <1>9 DEF Quiet
<1> QED
  BY <1>1, <1>2, <1>3, <1>4, <1>6, <1>7, <1>8, <1>9, QuietSteps, UnreachedStays

\* Once nobody will report a claimed task, nothing in the system ever settles it
\* or gives it out again.
THEOREM StrandedStaysStranded == DispatchSpec => StrandedForGood
<1>1. DispatchInv /\ [DispatchNext]_vars => [Stranded \subseteq Stranded']_vars
  BY StrandedStep
<1> QED BY <1>1, DispatchInvAlways, PTL DEF DispatchSpec, StrandedForGood
==============================================================================
