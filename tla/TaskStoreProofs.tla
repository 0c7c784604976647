--------------------------- MODULE TaskStoreProofs ---------------------------
(***************************************************************************)
(* Theorems about TaskStore for any sets of tasks, workers and tenants.     *)
(*                                                                         *)
(* The inductive invariant is Inv: the types, the exclusive row locks, and  *)
(* what a scan has behind it.  ClaimOrder is inductive only together with   *)
(* ScanOrder: a LockRow step can take a younger task only because the rows  *)
(* its scan no longer looks at are locked or excused already.               *)
(***************************************************************************)
EXTENDS TaskStore, TLAPS

Inv == TypeOK /\ LockExclusive /\ ScanOrder /\ ClaimOrder

\* The types are kept by every step.
LEMMA TypeStep == TypeOK /\ [Next]_storeVars => TypeOK'
<1> SUFFICES ASSUME TypeOK, [Next]_storeVars PROVE TypeOK'
  OBVIOUS
<1> USE DEF TypeOK
<1>1. ASSUME NEW t \in Tasks, Stamp(t) PROVE TypeOK'
  BY <1>1 DEF Stamp, Statuses, scanVars
<1>2. ASSUME NEW t \in Tasks, Insert(t) PROVE TypeOK'
  BY <1>2 DEF Insert, Statuses, scanVars, timeVars
<1>3. ASSUME NEW s \in Workers, NEW n \in Tenants, BeginClaim(s, n) PROVE TypeOK'
  BY <1>3 DEF BeginClaim, Phases, tableVars, timeVars
<1>4. ASSUME NEW s \in Workers, NEW t \in Tasks, PassOver(s, t) PROVE TypeOK'
  BY <1>4 DEF PassOver, tableVars, timeVars
<1>5. ASSUME NEW s \in Workers, NEW t \in Tasks, LockRow(s, t) PROVE TypeOK'
  BY <1>5 DEF LockRow, Phases, tableVars, timeVars
<1>6. ASSUME NEW s \in Workers, FindNone(s) PROVE TypeOK'
  BY <1>6 DEF FindNone, Phases, tableVars, timeVars
<1>7. ASSUME NEW s \in Workers, CommitClaim(s) PROVE TypeOK'
  BY <1>7 DEF CommitClaim, Phases, Statuses, timeVars
<1>8. ASSUME NEW S \in SUBSET Workers, AbortClaims(S) PROVE TypeOK'
  BY <1>8 DEF AbortClaims, Phases, tableVars, timeVars
<1>9. ASSUME NEW t \in Tasks, FailTask(t) PROVE TypeOK'
  BY <1>9 DEF FailTask, Statuses, timeVars, scanVars
<1>10. ASSUME NEW t \in Tasks, NEW r \in Results, CompleteTask(t, r) PROVE TypeOK'
  BY <1>10 DEF CompleteTask, Statuses, timeVars, scanVars
<1>11. CASE UNCHANGED storeVars
  BY <1>11 DEF storeVars
<1> QED
  BY <1>1, <1>2, <1>3, <1>4, <1>5, <1>6, <1>7, <1>8, <1>9, <1>10, <1>11
  DEF Next, Create, Scan, Settle

\* Type correctness of the task table.
THEOREM TypeCorrect == Spec => []TypeOK
<1>1. Init => TypeOK
  BY DEF Init, TypeOK, Statuses, Phases
<1> QED
  BY <1>1, TypeStep, PTL DEF Spec

------------------------------------------------------------------------------
\* A row stays locked by one claim, and pending while it is.
LEMMA LockStep == TypeOK /\ LockExclusive /\ [Next]_storeVars => LockExclusive'
<1> SUFFICES ASSUME TypeOK, LockExclusive, [Next]_storeVars PROVE LockExclusive'
  OBVIOUS
<1> USE NoneAssumption DEF TypeOK, LockExclusive
<1>1. ASSUME NEW t \in Tasks, Stamp(t) PROVE LockExclusive'
  BY <1>1 DEF Stamp, scanVars
<1>2. ASSUME NEW t \in Tasks, Insert(t) PROVE LockExclusive'
  BY <1>2 DEF Insert, scanVars
<1>3. ASSUME NEW s \in Workers, NEW n \in Tenants, BeginClaim(s, n) PROVE LockExclusive'
  BY <1>3 DEF BeginClaim, tableVars
<1>4. ASSUME NEW s \in Workers, NEW t \in Tasks, PassOver(s, t) PROVE LockExclusive'
  BY <1>4 DEF PassOver, tableVars
<1>5. ASSUME NEW s \in Workers, NEW t \in Tasks, LockRow(s, t) PROVE LockExclusive'
  BY <1>5 DEF LockRow, Locked, tableVars
<1>6. ASSUME NEW s \in Workers, FindNone(s) PROVE LockExclusive'
  BY <1>6 DEF FindNone, tableVars
<1>7. ASSUME NEW s \in Workers, CommitClaim(s) PROVE LockExclusive'
  BY <1>7 DEF CommitClaim
<1>8. ASSUME NEW S \in SUBSET Workers, AbortClaims(S) PROVE LockExclusive'
  BY <1>8 DEF AbortClaims, tableVars
<1>9. ASSUME NEW t \in Tasks, FailTask(t) PROVE LockExclusive'
  BY <1>9 DEF FailTask, scanVars
<1>10. ASSUME NEW t \in Tasks, NEW r \in Results, CompleteTask(t, r) PROVE LockExclusive'
  BY <1>10 DEF CompleteTask, scanVars
<1>11. CASE UNCHANGED storeVars
  BY <1>11 DEF storeVars
<1> QED
  BY <1>1, <1>2, <1>3, <1>4, <1>5, <1>6, <1>7, <1>8, <1>9, <1>10, <1>11
  DEF Next, Create, Scan, Settle

------------------------------------------------------------------------------
\* The first part of ScanOrder: what a snapshot holds.
SnapshotOK == \A s \in Workers :
  /\ todo[s] \subseteq snapshot[s]
  /\ phase[s] # "scanning" => snapshot[s] = {}
  /\ \A t \in snapshot[s] : status[t] \notin {"absent", "stamped"}

\* Its second part, for one session and one row.
Accounted(s, u) ==
  /\ status[u] = "pending" /\ ~Locked(u) /\ u \notin todo[s]
  /\ u \in snapshot[s] \/ \E t \in todo[s] : Older(u, t)
  => u \in excused

LEMMA ScanOrderParts ==
  ScanOrder <=> SnapshotOK /\ \A s \in Workers : \A u \in Tasks : Accounted(s, u)
  BY DEF ScanOrder, SnapshotOK, Accounted

LEMMA SnapshotStep == TypeOK /\ LockExclusive /\ SnapshotOK /\ [Next]_storeVars => SnapshotOK'
<1> SUFFICES ASSUME TypeOK, LockExclusive, SnapshotOK, [Next]_storeVars PROVE SnapshotOK'
  OBVIOUS
<1> USE DEF TypeOK, SnapshotOK
<1>1. ASSUME NEW t \in Tasks, Stamp(t) PROVE SnapshotOK'
  BY <1>1 DEF Stamp, scanVars
<1>2. ASSUME NEW t \in Tasks, Insert(t) PROVE SnapshotOK'
  BY <1>2 DEF Insert, scanVars
<1>3. ASSUME NEW s \in Workers, NEW n \in Tenants, BeginClaim(s, n) PROVE SnapshotOK'
  BY <1>3 DEF BeginClaim, tableVars
<1>4. ASSUME NEW s \in Workers, NEW t \in Tasks, PassOver(s, t) PROVE SnapshotOK'
  BY <1>4 DEF PassOver, tableVars
<1>5. ASSUME NEW s \in Workers, NEW t \in Tasks, LockRow(s, t) PROVE SnapshotOK'
  BY <1>5 DEF LockRow, tableVars
<1>6. ASSUME NEW s \in Workers, FindNone(s) PROVE SnapshotOK'
  BY <1>6 DEF FindNone, tableVars
<1>7. ASSUME NEW s \in Workers, CommitClaim(s) PROVE SnapshotOK'
  BY <1>7 DEF CommitClaim
<1>8. ASSUME NEW S \in SUBSET Workers, AbortClaims(S) PROVE SnapshotOK'
  BY <1>8 DEF AbortClaims, tableVars
<1>9. ASSUME NEW t \in Tasks, FailTask(t) PROVE SnapshotOK'
  BY <1>9 DEF FailTask, scanVars
<1>10. ASSUME NEW t \in Tasks, NEW r \in Results, CompleteTask(t, r) PROVE SnapshotOK'
  BY <1>10 DEF CompleteTask, scanVars
<1>11. CASE UNCHANGED storeVars
  BY <1>11 DEF storeVars
<1> QED
  BY <1>1, <1>2, <1>3, <1>4, <1>5, <1>6, <1>7, <1>8, <1>9, <1>10, <1>11
  DEF Next, Create, Scan, Settle

\* The heart of the order: whatever step is taken, a free row that a scan has
\* left behind was excused, by the insertion that came too late or by the
\* rollback that freed it.
LEMMA AccountedStep ==
  ASSUME TypeOK, LockExclusive, SnapshotOK, [Next]_storeVars,
         \A s \in Workers : \A u \in Tasks : Accounted(s, u),
         NEW q \in Workers, NEW u \in Tasks
  PROVE  Accounted(q, u)'
<1> SUFFICES ASSUME status'[u] = "pending", ~Locked(u)', u \notin todo'[q],
                    u \in snapshot'[q] \/ \E t \in todo'[q] : Older(u, t)'
             PROVE  u \in excused'
  BY DEF Accounted
<1> USE DEF TypeOK
<1>1. ASSUME NEW t \in Tasks, Stamp(t) PROVE u \in excused'
  BY <1>1 DEF Stamp, scanVars, SnapshotOK, Accounted, Older, Locked
<1>2. ASSUME NEW t \in Tasks, Insert(t) PROVE u \in excused'
  <2>1. CASE u = t
    BY <1>2, <2>1 DEF Insert, scanVars, timeVars, SnapshotOK, Older, Outrun
  <2>2. CASE u # t
    BY <1>2, <2>2 DEF Insert, scanVars, timeVars, Accounted, Older, Locked
  <2> QED BY <2>1, <2>2
<1>3. ASSUME NEW s \in Workers, NEW n \in Tenants, BeginClaim(s, n) PROVE u \in excused'
  BY <1>3 DEF BeginClaim, tableVars, timeVars, Accounted, Older, Locked
<1>4. ASSUME NEW s \in Workers, NEW t \in Tasks, PassOver(s, t) PROVE u \in excused'
  BY <1>4 DEF PassOver, tableVars, timeVars, Accounted, Older, Locked
<1>5. ASSUME NEW s \in Workers, NEW t \in Tasks, LockRow(s, t) PROVE u \in excused'
  BY <1>5, NoneAssumption DEF LockRow, tableVars, timeVars, Accounted, Older, Locked, LockExclusive
<1>6. ASSUME NEW s \in Workers, FindNone(s) PROVE u \in excused'
  BY <1>6 DEF FindNone, tableVars, timeVars, Accounted, Older, Locked
<1>7. ASSUME NEW s \in Workers, CommitClaim(s) PROVE u \in excused'
  BY <1>7, NoneAssumption DEF CommitClaim, timeVars, Accounted, Older, Locked, LockExclusive
<1>8. ASSUME NEW S \in SUBSET Workers, AbortClaims(S) PROVE u \in excused'
  <2>1. CASE \E s \in S : claim[s] = u
    <3>1. PassedOver(u) \/ Outrun(u)
      BY <1>8, <2>1 DEF AbortClaims, PassedOver, Outrun, Older, tableVars, timeVars
    <3> QED
      BY <1>8, <2>1, <3>1 DEF AbortClaims
  <2>2. CASE ~\E s \in S : claim[s] = u
    <3>1. ~Locked(u)
      BY <1>8, <2>2 DEF AbortClaims, Locked
    <3> QED
      BY <1>8, <3>1 DEF AbortClaims, tableVars, timeVars, Accounted, Older
  <2> QED BY <2>1, <2>2
<1>9. ASSUME NEW t \in Tasks, FailTask(t) PROVE u \in excused'
  BY <1>9 DEF FailTask, scanVars, timeVars, Accounted, Older, Locked
<1>10. ASSUME NEW t \in Tasks, NEW r \in Results, CompleteTask(t, r) PROVE u \in excused'
  BY <1>10 DEF CompleteTask, scanVars, timeVars, Accounted, Older, Locked
<1>11. CASE UNCHANGED storeVars
  BY <1>11 DEF storeVars, Accounted, Older, Locked
<1> QED
  BY <1>1, <1>2, <1>3, <1>4, <1>5, <1>6, <1>7, <1>8, <1>9, <1>10, <1>11
  DEF Next, Create, Scan, Settle

\* A younger task is newly taken only by a LockRow, whose scan has accounted
\* for every older row; an older row becomes free only by an insertion or a
\* rollback, which excuse it.
LEMMA ClaimOrderStep ==
  TypeOK /\ LockExclusive /\ ScanOrder /\ ClaimOrder /\ [Next]_storeVars => ClaimOrder'
<1> SUFFICES ASSUME TypeOK, LockExclusive, ScanOrder, ClaimOrder, [Next]_storeVars,
                    NEW u \in Tasks, NEW y \in Tasks,
                    status'[u] = "pending", ~Locked(u)', Older(u, y)', Taken(y)'
             PROVE  u \in excused'
  BY DEF ClaimOrder
<1> USE DEF TypeOK, ClaimOrder, Taken, Terminal
<1>1. ASSUME NEW t \in Tasks, Stamp(t) PROVE u \in excused'
  <2>1. u # t /\ status[u] = "pending" /\ ~Locked(u)
    BY <1>1 DEF Stamp, scanVars, Locked
  <2>2. ~Taken(t)
    BY <1>1, NoneAssumption DEF Stamp, Locked, LockExclusive
  <2>3. y # t /\ Taken(y)
    BY <1>1, <2>2 DEF Stamp, scanVars, Locked
  <2>4. Older(u, y)
    BY <1>1, <2>1, <2>3 DEF Stamp, Older
  <2> QED BY <1>1, <2>1, <2>3, <2>4 DEF Stamp
<1>2. ASSUME NEW t \in Tasks, Insert(t) PROVE u \in excused'
  <2>1. Taken(y) /\ Older(u, y)
    BY <1>2 DEF Insert, scanVars, timeVars, Older, Locked
  <2>2. CASE u = t
    BY <1>2, <2>1, <2>2 DEF Insert, Outrun
  <2>3. CASE u # t
    BY <1>2, <2>1, <2>3 DEF Insert, scanVars, Locked
  <2> QED BY <2>2, <2>3
<1>3. ASSUME NEW s \in Workers, NEW n \in Tenants, BeginClaim(s, n) PROVE u \in excused'
  BY <1>3 DEF BeginClaim, tableVars, timeVars, Older, Locked
<1>4. ASSUME NEW s \in Workers, NEW t \in Tasks, PassOver(s, t) PROVE u \in excused'
  BY <1>4 DEF PassOver, tableVars, timeVars, Older, Locked
<1>5. ASSUME NEW s \in Workers, NEW t \in Tasks, LockRow(s, t) PROVE u \in excused'
  <2>1. status[u] = "pending" /\ ~Locked(u) /\ Older(u, y)
    BY <1>5, NoneAssumption DEF LockRow, tableVars, timeVars, Older, Locked, LockExclusive
  <2>2. CASE Taken(y)
    BY <1>5, <2>1, <2>2 DEF LockRow
  <2>3. CASE ~Taken(y)
    <3>1. y = t
      BY <1>5, <2>3 DEF LockRow, tableVars, Locked
    <3>2. u \notin todo[s] /\ y \in todo[s]
      BY <1>5, <2>1, <3>1 DEF LockRow, Foremost, Older
    <3> QED
      BY <1>5, <2>1, <3>2 DEF LockRow, ScanOrder
  <2> QED BY <2>2, <2>3
<1>6. ASSUME NEW s \in Workers, FindNone(s) PROVE u \in excused'
  BY <1>6 DEF FindNone, tableVars, timeVars, Older, Locked
<1>7. ASSUME NEW s \in Workers, CommitClaim(s) PROVE u \in excused'
  <2>1. status[u] = "pending" /\ ~Locked(u) /\ Older(u, y) /\ Taken(y)
    BY <1>7, NoneAssumption DEF CommitClaim, timeVars, Older, Locked, LockExclusive
  <2> QED BY <1>7, <2>1 DEF CommitClaim
<1>8. ASSUME NEW S \in SUBSET Workers, AbortClaims(S) PROVE u \in excused'
  <2>1. Taken(y) /\ Older(u, y) /\ status[u] = "pending"
    BY <1>8, NoneAssumption DEF AbortClaims, tableVars, timeVars, Older, Locked
  <2>2. CASE Locked(u)
    <3>1. \E s \in S : claim[s] = u
      BY <1>8, <2>2 DEF AbortClaims, Locked
    <3> QED BY <1>8, <2>1, <3>1 DEF AbortClaims, Outrun
  <2>3. CASE ~Locked(u)
    BY <1>8, <2>1, <2>3 DEF AbortClaims
  <2> QED BY <2>2, <2>3
<1>9. ASSUME NEW t \in Tasks, FailTask(t) PROVE u \in excused'
  BY <1>9 DEF FailTask, scanVars, timeVars, Older, Locked
<1>10. ASSUME NEW t \in Tasks, NEW r \in Results, CompleteTask(t, r) PROVE u \in excused'
  BY <1>10 DEF CompleteTask, scanVars, timeVars, Older, Locked
<1>11. CASE UNCHANGED storeVars
  BY <1>11 DEF storeVars, Older, Locked
<1> QED
  BY <1>1, <1>2, <1>3, <1>4, <1>5, <1>6, <1>7, <1>8, <1>9, <1>10, <1>11
  DEF Next, Create, Scan, Settle

------------------------------------------------------------------------------
LEMMA InitInv == Init => Inv
  BY NoneAssumption
  DEF Init, Inv, TypeOK, Statuses, Phases, LockExclusive, ScanOrder, ClaimOrder

LEMMA InvStep == Inv /\ [Next]_storeVars => Inv'
<1> SUFFICES ASSUME Inv, [Next]_storeVars PROVE Inv'
  OBVIOUS
<1>1. TypeOK' /\ LockExclusive'
  BY TypeStep, LockStep DEF Inv
<1>2. SnapshotOK /\ \A s \in Workers : \A u \in Tasks : Accounted(s, u)
  BY ScanOrderParts DEF Inv
<1>3. SnapshotOK' /\ \A s \in Workers : \A u \in Tasks : Accounted(s, u)'
  BY <1>2, SnapshotStep, AccountedStep DEF Inv
<1>4. ScanOrder'
  BY <1>3 DEF ScanOrder, SnapshotOK, Accounted
<1>5. ClaimOrder'
  BY ClaimOrderStep DEF Inv
<1> QED BY <1>1, <1>4, <1>5 DEF Inv

LEMMA Invariance == Spec => []Inv
  BY InitInv, InvStep, PTL DEF Spec

\* Two claim statements never hold the same row, whatever their interleaving,
\* and a locked row is pending until its claim commits or is rolled back.
THEOREM LocksExclusive == Spec => []LockExclusive
  BY Invariance, PTL DEF Inv

\* A scan leaves no free row behind that it could still have taken, but for
\* excused tasks.
THEOREM ScansInOrder == Spec => []ScanOrder
  BY Invariance, PTL DEF Inv

\* The oldest task of a tenant is taken first, but for excused tasks.
THEOREM OldestFirst == Spec => []ClaimOrder
  BY Invariance, PTL DEF Inv

\* "No task" is an answer only when the rows the statement saw were taken.
THEOREM EmptyIsHonest == Spec => []EmptyMeansTaken
<1>1. Inv => EmptyMeansTaken
  BY DEF Inv, TypeOK, Statuses, ScanOrder, EmptyMeansTaken, Taken, Terminal
<1> QED BY <1>1, Invariance, PTL

------------------------------------------------------------------------------
\* The statements on the task table, interleaved in any way, implement the
\* life of a task: created, taken once, settled once.
THEOREM ImplementsLifecycle == Spec => LifecycleSpec
<1>1. Init => Lifecycle!Init
  BY DEF Init, Lifecycle!Init
<1>2. Inv /\ [Next]_storeVars => [Lifecycle!Next]_(Lifecycle!lifeVars)
  <2> SUFFICES ASSUME Inv, [Next]_storeVars
               PROVE  Lifecycle!Next \/ UNCHANGED Lifecycle!lifeVars
    OBVIOUS
  <2> USE DEF Inv, TypeOK, Lifecycle!Next, Lifecycle!lifeVars
  <2>1. ASSUME NEW t \in Tasks, Stamp(t) PROVE UNCHANGED Lifecycle!lifeVars
    BY <2>1 DEF Stamp
  <2>2. ASSUME NEW t \in Tasks, Insert(t) PROVE Lifecycle!Create(t)
    BY <2>2 DEF Insert, Lifecycle!Create
  <2>3. ASSUME NEW s \in Workers, CommitClaim(s) PROVE Lifecycle!Take(claim[s], s) /\ claim[s] \in Tasks
    BY <2>3, NoneAssumption DEF CommitClaim, LockExclusive, Lifecycle!Take
  <2>4. ASSUME NEW t \in Tasks, NEW r \in Results, CompleteTask(t, r)
        PROVE  Lifecycle!Succeed(t, r) \/ UNCHANGED Lifecycle!lifeVars
    BY <2>4 DEF CompleteTask, Lifecycle!Succeed
  <2>5. ASSUME NEW t \in Tasks, FailTask(t)
        PROVE  Lifecycle!GiveUp(t) \/ UNCHANGED Lifecycle!lifeVars
    BY <2>5 DEF FailTask, Lifecycle!GiveUp
  <2>6. ASSUME UNCHANGED tableVars PROVE UNCHANGED Lifecycle!lifeVars
    BY <2>6 DEF tableVars
  <2>7. ASSUME NEW s \in Workers, Scan(s) PROVE CommitClaim(s) \/ UNCHANGED tableVars
    BY <2>7 DEF Scan, BeginClaim, PassOver, LockRow, FindNone
  <2>8. ASSUME NEW S \in SUBSET Workers, AbortClaims(S) PROVE UNCHANGED tableVars
    BY <2>8 DEF AbortClaims
  <2>9. CASE UNCHANGED storeVars
    BY <2>9 DEF storeVars
  <2> QED
    BY <2>1, <2>2, <2>3, <2>4, <2>5, <2>6, <2>7, <2>8, <2>9 DEF Next, Create, Settle
<1> QED
  BY <1>1, <1>2, Invariance, PTL DEF Spec, LifecycleSpec, Lifecycle!Spec
==============================================================================
