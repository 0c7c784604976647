\* A decision whose back-edge is limited by a loop condition.
CONSTANTS
  a = a  b = b  c = c  gone = gone
  Ids = {a, b, c, gone}
  None = None
  Definitions <- Review
  Disciplined = TRUE
  StableUpTo = 12
SPECIFICATION Spec
INVARIANT LoopConditionUsable
CHECK_DEADLOCK FALSE
