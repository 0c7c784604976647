------------------------------ MODULE TaskStore ------------------------------
(***************************************************************************)
(* The task table of the control plane and the SQL statements that          *)
(* internal/store and internal/dispatcher run against it.                   *)
(*                                                                         *)
(* ClaimTask is one UPDATE whose subquery is ORDER BY created_at LIMIT 1    *)
(* FOR UPDATE SKIP LOCKED.  PostgreSQL (external) evaluates the subquery    *)
(* on the snapshot the statement took when it began, visits the rows of     *)
(* that snapshot oldest first, passes over a row another statement has      *)
(* locked or has changed since, locks the first row left, updates it and    *)
(* commits.  Each of these is a step here, so that the statements of        *)
(* different workers interleave row by row.  The updates of CompleteTask    *)
(* and FailTask match on the primary key and on status = 'claimed' and      *)
(* never wait for a claim: an uncommitted claim still reads 'pending'.      *)
(*                                                                         *)
(* A session is named by the worker its statement runs for: a worker has at *)
(* most one call in flight.                                                 *)
(***************************************************************************)
EXTENDS Naturals

CONSTANTS Tasks, Workers, Tenants,
          TenantOf,  \* TenantOf[t]: the tenant_id column, fixed at creation
          Results,   \* the values CompleteTask may write
          None       \* SQL NULL

ASSUME TenantAssumption == TenantOf \in [Tasks -> Tenants]
ASSUME NoneAssumption == None \notin Tasks \cup Workers \cup Results

VARIABLES
  status,     \* status[t]: the status column, or where the task is before it
  owner,      \* owner[t]: the worker_id column
  result,     \* result[t]: the result column
  createdAt,  \* createdAt[t]: the created_at column
  clock,      \* the control plane's clock, read by time.Now()
  phase,      \* phase[s]: what the claim statement of session s is doing
  snapshot,   \* snapshot[s]: rows that matched when the statement began
  todo,       \* todo[s]: rows of the snapshot it has not visited yet
  claim,      \* claim[s]: the row it has locked
  excused     \* history: tasks a younger one may overtake (see ClaimOrder)

tableVars == <<status, owner, result>>
timeVars  == <<createdAt, clock>>
scanVars  == <<phase, snapshot, todo, claim>>
storeVars == <<status, owner, result, createdAt, clock,
               phase, snapshot, todo, claim, excused>>

\* "stamped": the dispatcher has made the task, created_at included, and has
\* not inserted it yet.
Statuses == {"absent", "stamped", "pending", "claimed", "completed", "failed"}
Phases   == {"idle", "scanning", "locked"}
Terminal == {"completed", "failed"}

TypeOK ==
  /\ status \in [Tasks -> Statuses]
  /\ owner \in [Tasks -> Workers \cup {None}]
  /\ result \in [Tasks -> Results \cup {None}]
  /\ createdAt \in [Tasks -> Nat]
  /\ clock \in Nat
  /\ phase \in [Workers -> Phases]
  /\ snapshot \in [Workers -> SUBSET Tasks]
  /\ todo \in [Workers -> SUBSET Tasks]
  /\ claim \in [Workers -> Tasks \cup {None}]
  /\ excused \in SUBSET Tasks

Init ==
  /\ status = [t \in Tasks |-> "absent"]
  /\ owner = [t \in Tasks |-> None]
  /\ result = [t \in Tasks |-> None]
  /\ createdAt = [t \in Tasks |-> 0]
  /\ clock = 0
  /\ phase = [s \in Workers |-> "idle"]
  /\ snapshot = [s \in Workers |-> {}]
  /\ todo = [s \in Workers |-> {}]
  /\ claim = [s \in Workers |-> None]
  /\ excused = {}

------------------------------------------------------------------------------
\* A row that some claim statement has locked and not yet committed.
Locked(t) == \E s \in Workers : claim[s] = t

\* u comes before t in the order the claims of one tenant follow.
Older(u, t) == TenantOf[u] = TenantOf[t] /\ createdAt[u] < createdAt[t]

\* A claim has taken t.
Taken(t) == Locked(t) \/ status[t] \in {"claimed"} \cup Terminal

\* A running claim statement has been past t and did not lock it.
PassedOver(t) == \E s \in Workers : t \in snapshot[s] \ todo[s]

\* A claim has taken a task younger than t, or will without looking at t.
Outrun(t) == \E u \in Tasks :
  Older(t, u) /\ (Taken(u) \/ \E s \in Workers : u \in todo[s] /\ t \notin todo[s])

\* Mutant: the subquery without its ORDER BY.
ForemostUnordered(s) == todo[s]

\* ORDER BY created_at: rows with equal times come in any order.
Foremost(s) == {t \in todo[s] : \A u \in todo[s] : createdAt[t] <= createdAt[u]}

------------------------------------------------------------------------------
\* Dispatcher.CreateTask stamps the task with the clock before it calls the
\* store; two tasks may get the same time.
Stamp(t) ==
  /\ status[t] = "absent"
  /\ clock' \in {clock, clock + 1}
  /\ createdAt' = [createdAt EXCEPT ![t] = clock']
  /\ status' = [status EXCEPT ![t] = "stamped"]
  /\ UNCHANGED <<owner, result, scanVars, excused>>

\* Store.CreateTask: the row becomes visible.  Later stamps may have been
\* inserted, and even claimed, before it.
Insert(t) ==
  /\ status[t] = "stamped"
  /\ status' = [status EXCEPT ![t] = "pending"]
  /\ excused' = IF Outrun(t) THEN excused \cup {t} ELSE excused
  /\ UNCHANGED <<owner, result, timeVars, scanVars>>

------------------------------------------------------------------------------
\* The statement of Store.ClaimTask for session s and tenant n takes its
\* snapshot.
BeginClaim(s, n) ==
  /\ phase[s] = "idle"
  /\ phase' = [phase EXCEPT ![s] = "scanning"]
  /\ LET matching == {t \in Tasks : TenantOf[t] = n /\ status[t] = "pending"}
     IN /\ snapshot' = [snapshot EXCEPT ![s] = matching]
        /\ todo' = [todo EXCEPT ![s] = matching]
  /\ UNCHANGED <<tableVars, timeVars, claim, excused>>

\* Mutant: a row is passed over without a reason.
PassOverAny(s, t) ==
  /\ phase[s] = "scanning"
  /\ t \in Foremost(s)
  /\ todo' = [todo EXCEPT ![s] = @ \ {t}]
  /\ UNCHANGED <<tableVars, timeVars, phase, snapshot, claim, excused>>

\* SKIP LOCKED, or the recheck of a row that is no longer pending.
PassOver(s, t) ==
  /\ phase[s] = "scanning"
  /\ t \in Foremost(s)
  /\ Locked(t) \/ status[t] # "pending"
  /\ todo' = [todo EXCEPT ![s] = @ \ {t}]
  /\ UNCHANGED <<tableVars, timeVars, phase, snapshot, claim, excused>>

\* Mutant: the subquery without FOR UPDATE.
LockRowShared(s, t) ==
  /\ phase[s] = "scanning"
  /\ t \in Foremost(s)
  /\ status[t] = "pending"
  /\ phase' = [phase EXCEPT ![s] = "locked"]
  /\ claim' = [claim EXCEPT ![s] = t]
  /\ snapshot' = [snapshot EXCEPT ![s] = {}]
  /\ todo' = [todo EXCEPT ![s] = {}]
  /\ UNCHANGED <<tableVars, timeVars, excused>>

\* Mutant: the locked row is not checked again for its status.
LockRowStale(s, t) ==
  /\ phase[s] = "scanning"
  /\ t \in Foremost(s)
  /\ ~Locked(t)
  /\ phase' = [phase EXCEPT ![s] = "locked"]
  /\ claim' = [claim EXCEPT ![s] = t]
  /\ snapshot' = [snapshot EXCEPT ![s] = {}]
  /\ todo' = [todo EXCEPT ![s] = {}]
  /\ UNCHANGED <<tableVars, timeVars, excused>>

\* FOR UPDATE ... LIMIT 1: the first free row is locked and the scan ends.
LockRow(s, t) ==
  /\ phase[s] = "scanning"
  /\ t \in Foremost(s)
  /\ ~Locked(t) /\ status[t] = "pending"
  /\ phase' = [phase EXCEPT ![s] = "locked"]
  /\ claim' = [claim EXCEPT ![s] = t]
  /\ snapshot' = [snapshot EXCEPT ![s] = {}]
  /\ todo' = [todo EXCEPT ![s] = {}]
  /\ UNCHANGED <<tableVars, timeVars, excused>>

\* No row is left: the UPDATE matches nothing and ClaimTask returns nil.
FindNone(s) ==
  /\ phase[s] = "scanning"
  /\ todo[s] = {}
  /\ phase' = [phase EXCEPT ![s] = "idle"]
  /\ snapshot' = [snapshot EXCEPT ![s] = {}]
  /\ UNCHANGED <<tableVars, timeVars, todo, claim, excused>>

\* The UPDATE of the locked row commits.
CommitClaim(s) ==
  /\ phase[s] = "locked"
  /\ status' = [status EXCEPT ![claim[s]] = "claimed"]
  /\ owner' = [owner EXCEPT ![claim[s]] = s]
  /\ phase' = [phase EXCEPT ![s] = "idle"]
  /\ claim' = [claim EXCEPT ![s] = None]
  /\ UNCHANGED <<result, timeVars, snapshot, todo, excused>>

\* The statements of the sessions in S end without a commit (a cancelled
\* request context, a lost connection, a server that stops): their locks are
\* released and the rows stay pending.
AbortClaims(S) ==
  /\ S # {} /\ \A s \in S : phase[s] # "idle"
  /\ phase' = [s \in Workers |-> IF s \in S THEN "idle" ELSE phase[s]]
  /\ snapshot' = [s \in Workers |-> IF s \in S THEN {} ELSE snapshot[s]]
  /\ todo' = [s \in Workers |-> IF s \in S THEN {} ELSE todo[s]]
  /\ claim' = [s \in Workers |-> IF s \in S THEN None ELSE claim[s]]
  /\ excused' = excused \cup {t \in Tasks : (\E s \in S : claim[s] = t)
                                          /\ (Outrun(t) \/ PassedOver(t))}
  /\ UNCHANGED <<tableVars, timeVars>>

------------------------------------------------------------------------------
\* Mutant: the update matches on the id alone.
CompleteTaskAnyStatus(t, r) ==
  /\ status' = [status EXCEPT ![t] = "completed"]
  /\ result' = [result EXCEPT ![t] = r]
  /\ UNCHANGED <<owner, timeVars, scanVars, excused>>

\* Store.CompleteTask: WHERE id = $1 AND status = 'claimed'.  When no row
\* matches nothing happens and no error is reported.
CompleteTask(t, r) ==
  /\ IF status[t] = "claimed"
     THEN /\ status' = [status EXCEPT ![t] = "completed"]
          /\ result' = [result EXCEPT ![t] = r]
     ELSE UNCHANGED <<status, result>>
  /\ UNCHANGED <<owner, timeVars, scanVars, excused>>

\* Mutant: the error text goes to the result column.
FailTaskInResult(t) ==
  /\ status' = IF status[t] = "claimed"
               THEN [status EXCEPT ![t] = "failed"] ELSE status
  /\ result' = IF status[t] = "claimed"
               THEN [result EXCEPT ![t] = "error"] ELSE result
  /\ UNCHANGED <<owner, timeVars, scanVars, excused>>

\* Store.FailTask, with the same condition.
FailTask(t) ==
  /\ status' = IF status[t] = "claimed"
               THEN [status EXCEPT ![t] = "failed"] ELSE status
  /\ UNCHANGED <<owner, result, timeVars, scanVars, excused>>

Create == \E t \in Tasks : Stamp(t) \/ Insert(t)
Scan(s) ==
  \/ \E n \in Tenants : BeginClaim(s, n)
  \/ \E t \in Tasks : PassOver(s, t) \/ LockRow(s, t)
  \/ FindNone(s) \/ CommitClaim(s)
Settle == \E t \in Tasks : FailTask(t) \/ \E r \in Results : CompleteTask(t, r)

Next ==
  \/ Create
  \/ \E s \in Workers : Scan(s)
  \/ \E S \in SUBSET Workers : AbortClaims(S)
  \/ Settle

Spec == Init /\ [][Next]_storeVars

------------------------------------------------------------------------------
\* SKIP LOCKED gives a row to one claim at a time, and the recheck after the
\* lock means that a locked row is still pending: no claim can overwrite the
\* worker of a task another claim has already won.
LockExclusive ==
  /\ \A s \in Workers : phase[s] = "locked" <=> claim[s] # None
  /\ \A s \in Workers : claim[s] # None => status[claim[s]] = "pending"
  /\ \A s, r \in Workers : claim[s] = claim[r] /\ claim[s] # None => s = r

\* What a scan has behind it: its unvisited rows come from its snapshot of
\* inserted rows, and a pending row it will not look at any more, while it was
\* in the snapshot or is older than one it may still lock, is locked by another
\* claim or may be overtaken.  ClaimOrder and EmptyMeansTaken rest on it.
ScanOrder ==
  /\ \A s \in Workers :
       /\ todo[s] \subseteq snapshot[s]
       /\ phase[s] # "scanning" => snapshot[s] = {}
       /\ \A t \in snapshot[s] : status[t] \notin {"absent", "stamped"}
  /\ \A s \in Workers : \A u \in Tasks :
       /\ status[u] = "pending" /\ ~Locked(u) /\ u \notin todo[s]
       /\ u \in snapshot[s] \/ \E t \in todo[s] : Older(u, t)
       => u \in excused

\* The oldest task first, as the ORDER BY of ClaimTask means it: a younger
\* task of the tenant is taken before an older one that is free only if the
\* older one was inserted after a claim had seen the younger (CreateTask stamps
\* before it inserts), or a claim of it was rolled back after other claims had
\* skipped it.
ClaimOrder ==
  \A u, t \in Tasks :
    status[u] = "pending" /\ ~Locked(u) /\ Older(u, t) /\ Taken(t) => u \in excused

\* ClaimTask returns nil (its caller answers "no task") only when every row
\* that matched at its snapshot has meanwhile been taken by another claim, or
\* was given back by one that rolled back after this statement had passed it.
EmptyMeansTaken ==
  \A s \in Workers : phase[s] = "scanning" /\ todo[s] = {}
    => \A t \in snapshot[s] : Taken(t) \/ t \in excused

\* The table implements the task's life: created once, taken once, settled
\* once, never back.  A stamped task does not exist yet.
Lifecycle == INSTANCE TaskLifecycle WITH
  state <- [t \in Tasks |-> IF status[t] = "stamped" THEN "absent" ELSE status[t]],
  holder <- owner, verdict <- result
LifecycleSpec == Lifecycle!Spec
==============================================================================
