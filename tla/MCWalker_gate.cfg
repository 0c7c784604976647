\* A gate with a timeoutEdge.
CONSTANTS
  a = a  b = b  c = c  gone = gone
  Ids = {a, b, c, gone}
  None = None
  Definitions <- Gated
  Disciplined = TRUE
  StableUpTo = 12
SPECIFICATION Spec
PROPERTY TimeoutEdgeUsed
CHECK_DEADLOCK FALSE
