\* Three tasks of one tenant, two concurrent claim statements.
CONSTANTS
  t1 = t1  t2 = t2  t3 = t3  s1 = s1  s2 = s2  A = A
  Tasks = {t1, t2, t3}
  Workers = {s1, s2}
  Tenants = {A}
  TenantOf <- MCTenantOf
  Results = {"value"}
  None = None
SYMMETRY MCSymmetry
SPECIFICATION Spec
INVARIANTS TypeOK LockExclusive ScanOrder ClaimOrder EmptyMeansTaken
PROPERTY LifecycleSpec
