\* Every small definition, with a host that keeps to the protocol.
CONSTANTS
  a = a  b = b  c = c  gone = gone
  Ids = {a, b, c, gone}
  None = None
  Definitions <- MCAll
  Disciplined = TRUE
  StableUpTo = 12
SPECIFICATION FairSpec
INVARIANT SoundWhenValid
PROPERTIES FollowsGraph Finishes
CHECK_DEADLOCK FALSE
