----------------------------- MODULE MCTaskStore -----------------------------
(***************************************************************************)
(* Two sessions and three tasks; every operation is free to happen whenever *)
(* it can.  The clock is bounded by the number of tasks, since only Stamp   *)
(* moves it.                                                                *)
(***************************************************************************)
EXTENDS TaskStore, TLC

CONSTANTS t1, t2, t3, s1, s2, A

MCTenantOf == [t \in Tasks |-> A]
MCSymmetry == Permutations(Tasks) \cup Permutations(Workers)
==============================================================================
