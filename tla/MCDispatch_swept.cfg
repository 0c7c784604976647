\* One task, two workers that nobody stops, one fault on a call.
CONSTANTS
  t1 = t1  t2 = t2  w1 = w1  w2 = w2  A = A
  Tasks = {t1}
  Workers = {w1, w2}
  Tenants = {A}
  TenantOf <- MCTenantOf
  Results = {"value", "null"}
  None = None
  WorkerTenant <- MCWorkerTenant
  Handlers <- MCHandlersAll
  Dependable = {w1, w2}
  MaxFaults = 1
SPECIFICATION FairSpec
PROPERTY Swept
