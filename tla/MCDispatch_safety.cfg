\* Two workers, one with a handler for t1 only, two tasks, one fault (both workers may exit).
CONSTANTS
  t1 = t1  t2 = t2  w1 = w1  w2 = w2  A = A
  Tasks = {t1, t2}
  Workers = {w1, w2}
  Tenants = {A}
  TenantOf <- MCTenantOf
  Results = {"value", "null"}
  None = None
  WorkerTenant <- MCWorkerTenant
  Handlers <- MCHandlersSome
  Dependable = {}
  MaxFaults = 1
SPECIFICATION DispatchSpec
INVARIANTS DispatchTypeOK HolderOwnsRow RunsOnce RecordsReport StrandedBound
PROPERTIES StoreSpec StrandedForGood
CHECK_DEADLOCK FALSE
