---------------------------- MODULE TaskLifecycle ----------------------------
(***************************************************************************)
(* What the task table promises its users, whatever statements, workers    *)
(* and faults are behind it: a task is created once, taken by one worker    *)
(* at most, and settled at most once, after it was taken; nothing moves a   *)
(* task backwards.  It is an abstract specification: the concurrent         *)
(* statements of TaskStore, and the whole dispatch protocol of Dispatch,    *)
(* are shown to implement it.                                               *)
(*                                                                         *)
(* The architecture document also promises a sweeper that gives a task back *)
(* when its worker does not report.  The source has none, so this           *)
(* specification has no such step (see Swept in Dispatch).                   *)
(***************************************************************************)
CONSTANTS Tasks,    \* task identifiers
          Workers,  \* worker identifiers, as written in tasks.worker_id
          Results,  \* what tasks.result may hold once a task completed
          None      \* an empty column

VARIABLES state,    \* state[t]: where the task is in its life
          holder,   \* holder[t]: the worker the task was given to
          verdict   \* verdict[t]: the result of a completed task

lifeVars == <<state, holder, verdict>>

Stages == {"absent", "pending", "claimed", "completed", "failed"}

Init ==
  /\ state = [t \in Tasks |-> "absent"]
  /\ holder = [t \in Tasks |-> None]
  /\ verdict = [t \in Tasks |-> None]

Create(t) ==
  /\ state[t] = "absent"
  /\ state' = [state EXCEPT ![t] = "pending"]
  /\ UNCHANGED <<holder, verdict>>

Take(t, w) ==
  /\ state[t] = "pending"
  /\ state' = [state EXCEPT ![t] = "claimed"]
  /\ holder' = [holder EXCEPT ![t] = w]
  /\ UNCHANGED verdict

Succeed(t, r) ==
  /\ state[t] = "claimed"
  /\ state' = [state EXCEPT ![t] = "completed"]
  /\ verdict' = [verdict EXCEPT ![t] = r]
  /\ UNCHANGED holder

GiveUp(t) ==
  /\ state[t] = "claimed"
  /\ state' = [state EXCEPT ![t] = "failed"]
  /\ UNCHANGED <<holder, verdict>>

Next == \E t \in Tasks :
  \/ Create(t)
  \/ \E w \in Workers : Take(t, w)
  \/ \E r \in Results : Succeed(t, r)
  \/ GiveUp(t)

Spec == Init /\ [][Next]_lifeVars
==============================================================================
