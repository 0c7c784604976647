\* An action with a back-edge limited to one traversal.
CONSTANTS
  a = a  b = b  c = c  gone = gone
  Ids = {a, b, c, gone}
  None = None
  Definitions <- Retry
  Disciplined = TRUE
  StableUpTo = 12
SPECIFICATION Spec
INVARIANT EveryEdgeLimited
CHECK_DEADLOCK FALSE
