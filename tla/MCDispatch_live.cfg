\* Two workers, w1 with a handler for t1 only, w2 with none, two tasks, faults that spare w1.
CONSTANTS
  t1 = t1  t2 = t2  w1 = w1  w2 = w2  A = A
  Tasks = {t1, t2}
  Workers = {w1, w2}
  Tenants = {A}
  TenantOf <- MCTenantOf
  Results = {"value", "null"}
  None = None
  WorkerTenant <- MCWorkerTenant
  Handlers <- MCHandlersOne
  Dependable = {w1}
  MaxFaults = 1
SPECIFICATION FairSpec
PROPERTIES Settles Picked
