------------------------------- MODULE Dispatch -------------------------------
(***************************************************************************)
(* Workers that poll the control plane for tasks, the two handlers that     *)
(* serve them, and the task table of TaskStore underneath.                  *)
(*                                                                         *)
(* A worker (apps/worker/pkg/worker) runs one poll at a time: GetTask, then *)
(* the task's handler, then SubmitTaskResult, whose outcome it ignores.     *)
(* Each call is a request that travels (external: connect over HTTP/1.1     *)
(* without timeout or retry), is authenticated, runs one statement on the   *)
(* table and is answered; the client and the server part of a call are      *)
(* separate steps, and the faults below fall between any two of them.       *)
(*                                                                         *)
(* A worker whose call broke polls again one PollInterval later; the model  *)
(* lets it do so once the server has finished with the broken call, and     *)
(* places no bound on how long that takes.  Worker processes get a fresh    *)
(* worker_id when they start, so a restarted process is another member of   *)
(* Workers.  A worker asks for tasks of the tenant its API key belongs to.  *)
(***************************************************************************)
EXTENDS TaskStore, FiniteSets

CONSTANTS WorkerTenant,  \* WorkerTenant[w]: Config.TenantID
          Handlers,      \* Handlers[w]: the tasks w has a handler for
          Dependable,    \* workers no operator stops and no fault kills
          MaxFaults      \* bound: no fault begins after so many

ASSUME WorkerAssumption ==
  /\ WorkerTenant \in [Workers -> Tenants]
  /\ Handlers \in [Workers -> SUBSET Tasks]
  /\ MaxFaults \in Nat
  /\ IsFiniteSet(Workers)
\* The context updates of a task are what its handler returned, or JSON null
\* when that could not be encoded.
ASSUME ResultsAssumption == Results = {"value", "null"}
ASSUME NamesAssumption == {"empty", "ok", "refused", "value", "null", "error"} \cap Tasks = {}

VARIABLES
  proc,       \* proc[w]: what the worker process is doing
  cancelled,  \* the workers whose context SIGINT has cancelled
  hold,       \* hold[w]: the task the worker runs or reports
  answer,     \* answer[w]: what it reports of the task
  req,        \* req[w]: the call in progress
  stage,      \* stage[w]: how far the call has come
  reply,      \* reply[w]: the server's answer to it
  keys,       \* the workers whose API key is not revoked
  faults,     \* faults so far, each counted once per call or process it hits
  ran,        \* history: how often the handler of a task was started
  outcome     \* history: what a worker had to report of a task

workerVars == <<proc, cancelled, hold, answer>>
callVars == <<req, stage, reply>>
histVars == <<ran, outcome>>
vars == <<storeVars, workerVars, callVars, keys, faults, histVars>>

Outcomes == {"value", "null", "error"}
Listening == {"getting", "submitting"}

DispatchTypeOK ==
  /\ TypeOK
  /\ proc \in [Workers -> {"off", "idle", "getting", "running", "submitting", "exited"}]
  /\ cancelled \in SUBSET Workers
  /\ hold \in [Workers -> Tasks \cup {None}]
  /\ answer \in [Workers -> Outcomes \cup {None}]
  /\ req \in [Workers -> {"none", "get", "submit"}]
  /\ stage \in [Workers -> {"none", "sent", "admitted", "claiming", "replied"}]
  /\ reply \in [Workers -> Tasks \cup {"empty", "ok", "refused", None}]
  /\ keys \in SUBSET Workers
  /\ faults \in Nat
  /\ ran \in [Tasks -> Nat]
  /\ outcome \in [Tasks -> Outcomes \cup {None}]

DispatchInit ==
  /\ Init
  /\ proc = [w \in Workers |-> "off"]
  /\ cancelled = {}
  /\ hold = [w \in Workers |-> None]
  /\ answer = [w \in Workers |-> None]
  /\ req = [w \in Workers |-> "none"]
  /\ stage = [w \in Workers |-> "none"]
  /\ reply = [w \in Workers |-> None]
  /\ keys = Workers
  /\ faults = 0
  /\ ran = [t \in Tasks |-> 0]
  /\ outcome = [t \in Tasks |-> None]

------------------------------------------------------------------------------
(* Steps of calls. *)

Send(w, kind) ==
  /\ req' = [req EXCEPT ![w] = kind]
  /\ stage' = [stage EXCEPT ![w] = "sent"]
  /\ UNCHANGED reply

Advance(w, to) ==
  /\ stage' = [stage EXCEPT ![w] = to]
  /\ UNCHANGED <<req, reply>>

Answer(w, r) ==
  /\ stage' = [stage EXCEPT ![w] = "replied"]
  /\ reply' = [reply EXCEPT ![w] = r]
  /\ UNCHANGED req

\* The calls of the workers in W are over.
EndCalls(W) ==
  /\ req' = [w \in Workers |-> IF w \in W THEN "none" ELSE req[w]]
  /\ stage' = [w \in Workers |-> IF w \in W THEN "none" ELSE stage[w]]
  /\ reply' = [w \in Workers |-> IF w \in W THEN None ELSE reply[w]]

\* The worker goes on to state p with nothing in hand.
Drop(w, p) ==
  /\ proc' = [proc EXCEPT ![w] = p]
  /\ hold' = [hold EXCEPT ![w] = None]
  /\ answer' = [answer EXCEPT ![w] = None]
  /\ UNCHANGED cancelled

------------------------------------------------------------------------------
(* The worker process. *)

Start(w) ==
  /\ proc[w] = "off"
  /\ proc' = [proc EXCEPT ![w] = "idle"]
  /\ UNCHANGED <<storeVars, cancelled, hold, answer, callVars, keys, faults, histVars>>

\* The ticker fires: poll calls GetTask.
Poll(w) ==
  /\ proc[w] = "idle" /\ w \notin cancelled /\ stage[w] = "none"
  /\ proc' = [proc EXCEPT ![w] = "getting"]
  /\ Send(w, "get")
  /\ UNCHANGED <<storeVars, cancelled, hold, answer, keys, faults, histVars>>

\* Run sees ctx.Done.
Stop(w) ==
  /\ proc[w] = "idle" /\ w \in cancelled
  /\ proc' = [proc EXCEPT ![w] = "exited"]
  /\ UNCHANGED <<storeVars, cancelled, hold, answer, callVars, keys, faults, histVars>>

\* Mutant: a worker that gets no task ends.
ReceiveNothingExits(w) ==
  /\ proc[w] = "getting" /\ stage[w] = "replied"
  /\ reply[w] \in {"empty", "refused"}
  /\ Drop(w, "exited")
  /\ EndCalls({w})
  /\ UNCHANGED <<storeVars, keys, faults, histVars>>

\* Mutant: a worker whose call fails ends.
ReceiveNothingGivesUp(w) ==
  /\ proc[w] = "getting" /\ stage[w] = "replied"
  /\ reply[w] \in {"empty", "refused"}
  /\ Drop(w, IF reply[w] = "refused" THEN "exited" ELSE "idle")
  /\ EndCalls({w})
  /\ UNCHANGED <<storeVars, keys, faults, histVars>>

\* GetTask returned an error or no task: poll returns.
ReceiveNothing(w) ==
  /\ proc[w] = "getting" /\ stage[w] = "replied"
  /\ reply[w] \in {"empty", "refused"}
  /\ Drop(w, "idle")
  /\ EndCalls({w})
  /\ UNCHANGED <<storeVars, keys, faults, histVars>>

\* SubmitTaskResult with the context of Run: after SIGINT it fails before it
\* sends anything, and poll returns.
Submit(w, t, a) ==
  /\ outcome' = [outcome EXCEPT ![t] = a]
  /\ IF w \in cancelled
     THEN Drop(w, "idle") /\ EndCalls({w})
     ELSE /\ proc' = [proc EXCEPT ![w] = "submitting"]
          /\ hold' = [hold EXCEPT ![w] = t]
          /\ answer' = [answer EXCEPT ![w] = a]
          /\ req' = [req EXCEPT ![w] = "submit"]
          /\ stage' = [stage EXCEPT ![w] = "sent"]
          /\ reply' = [reply EXCEPT ![w] = None]
          /\ UNCHANGED cancelled

\* A task arrives that the worker has a handler for: the handler starts.
ReceiveTask(w) ==
  /\ proc[w] = "getting" /\ stage[w] = "replied"
  /\ reply[w] \in Handlers[w]
  /\ proc' = [proc EXCEPT ![w] = "running"]
  /\ hold' = [hold EXCEPT ![w] = reply[w]]
  /\ ran' = [ran EXCEPT ![reply[w]] = @ + 1]
  /\ EndCalls({w})
  /\ UNCHANGED <<storeVars, cancelled, answer, keys, faults, outcome>>

\* Mutant: a task without a handler is dropped without a report.
RejectTaskSilently(w) ==
  /\ proc[w] = "getting" /\ stage[w] = "replied"
  /\ reply[w] \in Tasks \ Handlers[w]
  /\ Drop(w, "idle")
  /\ EndCalls({w})
  /\ UNCHANGED <<storeVars, keys, faults, histVars>>

\* Mutant: the report of it leaves its status unspecified.
RejectTaskUnspecified(w) ==
  /\ proc[w] = "getting" /\ stage[w] = "replied"
  /\ reply[w] \in Tasks \ Handlers[w]
  /\ Submit(w, reply[w], "unspecified")
  /\ UNCHANGED <<storeVars, keys, faults, ran>>

\* A task arrives whose handler name is not registered: the worker reports an
\* error, so the task fails although another worker may have the handler.
RejectTask(w) ==
  /\ proc[w] = "getting" /\ stage[w] = "replied"
  /\ reply[w] \in Tasks \ Handlers[w]
  /\ Submit(w, reply[w], "error")
  /\ UNCHANGED <<storeVars, keys, faults, ran>>

\* The handler returns a map ("null" when json.Marshal cannot encode it: the
\* error is dropped) or an error.
FinishHandler(w, a) ==
  /\ proc[w] = "running"
  /\ Submit(w, hold[w], a)
  /\ UNCHANGED <<storeVars, keys, faults, ran>>

\* Whatever SubmitTaskResult returned, poll returns.
ReceiveSubmitted(w) ==
  /\ proc[w] = "submitting" /\ stage[w] = "replied"
  /\ Drop(w, "idle")
  /\ EndCalls({w})
  /\ UNCHANGED <<storeVars, keys, faults, histVars>>

------------------------------------------------------------------------------
(* The control plane, serving the call of worker w. *)

\* authenticate, on its own connection and before the statement: the key may
\* be revoked right after it.
Admit(w) ==
  /\ stage[w] = "sent" /\ w \in keys
  /\ Advance(w, "admitted")
  /\ UNCHANGED <<storeVars, workerVars, keys, faults, histVars>>

Refuse(w) ==
  /\ stage[w] = "sent" /\ w \notin keys
  /\ Answer(w, "refused")
  /\ UNCHANGED <<storeVars, workerVars, keys, faults, histVars>>

\* GetTask begins the claim statement.
GetTask(w) ==
  /\ stage[w] = "admitted" /\ req[w] = "get"
  /\ BeginClaim(w, WorkerTenant[w])
  /\ Advance(w, "claiming")
  /\ UNCHANGED <<workerVars, keys, faults, histVars>>

Claiming(w) ==
  /\ stage[w] = "claiming"
  /\ \E t \in Tasks : PassOver(w, t) \/ LockRow(w, t)
  /\ UNCHANGED <<workerVars, callVars, keys, faults, histVars>>

GetTaskEmpty(w) ==
  /\ stage[w] = "claiming"
  /\ FindNone(w)
  /\ Answer(w, "empty")
  /\ UNCHANGED <<workerVars, keys, faults, histVars>>

GetTaskReply(w) ==
  /\ stage[w] = "claiming"
  /\ CommitClaim(w)
  /\ Answer(w, claim[w])
  /\ UNCHANGED <<workerVars, keys, faults, histVars>>

\* Mutant: the status of the report is not looked at.
SubmitTaskResultAsSuccess(w) ==
  /\ stage[w] = "admitted" /\ req[w] = "submit"
  /\ CompleteTask(hold[w], IF answer[w] = "error" THEN "null" ELSE answer[w])
  /\ Answer(w, "ok")
  /\ UNCHANGED <<workerVars, keys, faults, histVars>>

\* SubmitTaskResult runs its update and answers without looking at the number
\* of rows it changed.  That it refuses a report of any other status is left out:
\* the worker sends none.
SubmitTaskResult(w) ==
  /\ stage[w] = "admitted" /\ req[w] = "submit"
  /\ IF answer[w] = "error" THEN FailTask(hold[w])
                            ELSE CompleteTask(hold[w], answer[w])
  /\ Answer(w, "ok")
  /\ UNCHANGED <<workerVars, keys, faults, histVars>>

\* The answer of a call its client no longer waits for.
DiscardReply(w) ==
  /\ stage[w] = "replied" /\ proc[w] \notin Listening
  /\ Drop(w, proc[w])
  /\ EndCalls({w})
  /\ UNCHANGED <<storeVars, keys, faults, histVars>>

CreateTask ==
  /\ Create
  /\ UNCHANGED <<workerVars, callVars, keys, faults, histVars>>

------------------------------------------------------------------------------
(* Faults. *)

Fault(n) == faults < MaxFaults /\ faults' = faults + n

\* The client stops waiting for its call, to go on in state p.  What the
\* server has not answered it goes on with.
LoseCall(w, p) ==
  IF stage[w] \in {"none", "replied"}
  THEN Drop(w, p) /\ EndCalls({w})
  ELSE /\ proc' = [proc EXCEPT ![w] = p]
       /\ UNCHANGED <<cancelled, hold, answer, callVars>>

\* SIGINT: signal.NotifyContext cancels the context of Run.
Interrupt(w) ==
  /\ proc[w] \notin {"off", "exited"} /\ w \notin cancelled \cup Dependable
  /\ cancelled' = cancelled \cup {w}
  /\ Fault(1)
  /\ UNCHANGED <<storeVars, proc, hold, answer, callVars, keys, histVars>>

\* The cancelled context ends the call it is used by.
AbandonCall(w) ==
  /\ proc[w] \in Listening /\ w \in cancelled
  /\ LoseCall(w, "idle")
  /\ UNCHANGED <<storeVars, keys, faults, histVars>>

\* The connection fails; the client sees an error.
BreakCall(w) ==
  /\ proc[w] \in Listening
  /\ LoseCall(w, "idle")
  /\ Fault(1)
  /\ UNCHANGED <<storeVars, keys, histVars>>

\* The request never reaches the server.
LoseRequest(w) ==
  /\ proc[w] \in Listening /\ stage[w] = "sent"
  /\ Drop(w, "idle")
  /\ EndCalls({w})
  /\ Fault(1)
  /\ UNCHANGED <<storeVars, keys, histVars>>

\* The process dies; a handler that panics takes it down too.
Crash(w) ==
  /\ proc[w] \notin {"off", "exited"} /\ w \notin Dependable
  /\ LoseCall(w, "exited")
  /\ Fault(1)
  /\ UNCHANGED <<storeVars, keys, histVars>>

\* A statement of the call ends with an error and PostgreSQL has rolled it back:
\* the database fails, or the request context is cancelled because the client has
\* gone, which is a fault already counted.  That the client or the handler sees
\* an error while PostgreSQL goes on, keeps the lock for a while and commits or
\* rolls back later is BreakCall, AbandonCall or Crash, with the rest of the call
\* behind it.
FailCall(w) ==
  /\ stage[w] \in {"sent", "admitted", "claiming"}
  /\ IF phase[w] = "idle" THEN UNCHANGED storeVars ELSE AbortClaims({w})
  /\ Answer(w, "refused")
  /\ IF proc[w] \in Listening THEN Fault(1) ELSE UNCHANGED faults
  /\ UNCHANGED <<workerVars, keys, histVars>>

\* Mutant: a server that starts gives all claimed tasks out again.
RestartServerResets ==
  /\ {w \in Workers : stage[w] # "none"} # {}
  /\ status' = [t \in Tasks |-> IF status[t] = "claimed" THEN "pending" ELSE status[t]]
  /\ Fault(1)
  /\ UNCHANGED <<owner, result, timeVars, scanVars, excused, workerVars, callVars,
                 keys, histVars>>

\* The control plane stops, without a shutdown of its own, and starts again.
\* Every call in progress ends in an error at its client.  PostgreSQL goes on
\* with the statements of the calls in left, to commit them or roll them back
\* later; those of the others end unexecuted or are rolled back.
RestartServer ==
  LET served == {w \in Workers : stage[w] # "none"}
  IN /\ served # {}
     /\ \E left \in SUBSET {w \in Workers : stage[w] \in {"admitted", "claiming"}} :
          LET ended == served \ left
              open == {w \in ended : phase[w] # "idle"}
          IN /\ IF open = {} THEN UNCHANGED storeVars ELSE AbortClaims(open)
             /\ hold' = [w \in Workers |-> IF w \in ended THEN None ELSE hold[w]]
             /\ answer' = [w \in Workers |-> IF w \in ended THEN None ELSE answer[w]]
             /\ EndCalls(ended)
     /\ proc' = [w \in Workers |-> IF proc[w] \in Listening THEN "idle" ELSE proc[w]]
     /\ Fault(Cardinality(served))
     /\ UNCHANGED <<cancelled, keys, histVars>>

\* revoked_at is set on the worker's key (by hand: no code does it yet).
RevokeKey(w) ==
  /\ w \in keys \ Dependable
  /\ keys' = keys \ {w}
  /\ Fault(1)
  /\ UNCHANGED <<storeVars, workerVars, callVars, histVars>>

------------------------------------------------------------------------------
Client(w) ==
  \/ Start(w) \/ Poll(w) \/ Stop(w)
  \/ ReceiveNothing(w) \/ ReceiveTask(w) \/ RejectTask(w) \/ ReceiveSubmitted(w)
  \/ \E a \in Outcomes : FinishHandler(w, a)
  \/ AbandonCall(w)

Server(w) ==
  \/ Admit(w) \/ Refuse(w)
  \/ GetTask(w) \/ Claiming(w) \/ GetTaskEmpty(w) \/ GetTaskReply(w)
  \/ SubmitTaskResult(w) \/ DiscardReply(w)

Faulty(w) ==
  \/ Interrupt(w) \/ BreakCall(w) \/ LoseRequest(w) \/ Crash(w)
  \/ FailCall(w) \/ RevokeKey(w)

DispatchNext ==
  \/ \E w \in Workers : Client(w) \/ Server(w) \/ Faulty(w)
  \/ CreateTask
  \/ RestartServer

DispatchSpec == DispatchInit /\ [][DispatchNext]_vars

\* A started process keeps running (the Go scheduler is fair, and the ticker
\* keeps firing), handlers return, and a server that is up answers its calls.
\* Nothing is assumed of the faults, of the creation of tasks, or of whether
\* anyone starts a worker that is not Dependable.
Fairness ==
  /\ \A w \in Dependable : WF_vars(Start(w))
  /\ \A w \in Workers : WF_vars(Client(w) /\ proc[w] # "off")
  /\ \A w \in Workers : WF_vars(Server(w))

FairSpec == DispatchSpec /\ Fairness

------------------------------------------------------------------------------
\* Worker w is bound to report t: it runs the handler, or its report is on the
\* way to the table.
Working(w, t) ==
  /\ hold[w] = t
  /\ \/ proc[w] = "running"
     \/ req[w] = "submit" /\ stage[w] \in {"sent", "admitted"}

\* The answer that gives t to w has been sent and is awaited.
Offered(w, t) == proc[w] = "getting" /\ stage[w] = "replied" /\ reply[w] = t

\* The tasks that are claimed and that nobody will ever report.
Stranded == {t \in Tasks : status[t] = "claimed"
                           /\ ~\E w \in Workers : Working(w, t) \/ Offered(w, t)}

\* A task in a worker's hands is claimed in the table, by this worker: its
\* report finds the row it means to update, so that not looking at the number
\* of updated rows (and at worker_id) in CompleteTask and FailTask loses
\* nothing, whatever calls broke before.
HolderOwnsRow ==
  \A w \in Workers, t \in Tasks :
    Working(w, t) \/ Offered(w, t) => status[t] = "claimed" /\ owner[t] = w

\* The handler of a task is started once at most, and not before a claim of the
\* task was committed: two workers never run the same task, and no broken call
\* makes one run it again.
RunsOnce ==
  \A t \in Tasks : ran[t] <= 1 /\ (ran[t] = 1 => owner[t] # None)

\* What the table records of a task is what its worker reported of it.
RecordsReport ==
  \A t \in Tasks :
    /\ status[t] = "completed" => outcome[t] = result[t]
    /\ status[t] = "failed" => outcome[t] = "error"
    /\ status[t] \in Terminal => ran[t] = 1 \/ t \notin Handlers[owner[t]]

\* A claimed task nobody will report takes a fault, and a fault strands one
\* task at most: without faults the missing sweeper is never missed.
StrandedBound == Cardinality(Stranded) <= faults

\* A stranded task stays stranded: no late report, no statement that a dead call
\* or server left behind, no other worker's claim and no restart settles it or
\* hands it out again.  Only the sweeper the code does not have could.
StrandedForGood == [][Stranded \subseteq Stranded']_vars

\* The protocol uses the table as TaskStore says it may be used, one session
\* per worker: what is true of TaskStore is true here.
StoreSpec == Spec

\* As long as no fault happens every inserted task is settled, whatever tasks
\* other workers are busy with and wherever it is rejected.
Settles == \A t \in Tasks :
  (\E w \in Dependable : WorkerTenant[w] = TenantOf[t]) =>
    (status[t] = "pending" ~> status[t] \in Terminal \/ faults > 0)

\* Faults that stop short of one dependable worker never leave a task of its
\* tenant unclaimed for good.
Picked == \A t \in Tasks :
  (\E w \in Dependable : WorkerTenant[w] = TenantOf[t]) =>
    (status[t] = "pending" ~> status[t] # "pending")

\* The architecture document's sweeper: a task that was claimed and not
\* reported does not stay claimed.
Swept == \A t \in Tasks : status[t] = "claimed" ~> status[t] # "claimed"
==============================================================================
