------------------------------ MODULE MCDispatch ------------------------------
(***************************************************************************)
(* Two workers and two tasks.  In the safety run w1 has handlers for both and *)
(* w2 for one of them: it must reject the other, and either worker can run    *)
(* the first.  In the liveness run w1 has a handler for one task and w2 for    *)
(* none: w1 runs the first task or rejects the second while the other task     *)
(* waits.  No fault begins after MaxFaults of them, which bounds a behaviour   *)
(* of workers whose calls fail; a restart of the control plane counts one for  *)
(* each call in progress and so may count two.                                 *)
(***************************************************************************)
EXTENDS Dispatch

CONSTANTS t1, t2, w1, w2, A

MCTenantOf == [t \in Tasks |-> A]
MCWorkerTenant == [w \in Workers |-> A]
MCHandlersAll == [w \in Workers |-> Tasks]
MCHandlersOne == [w \in Workers |-> IF w = w1 THEN {t1} ELSE {}]
MCHandlersSome == [w \in Workers |-> IF w = w1 THEN Tasks ELSE {t1}]
==============================================================================
