\* Definitions with every node type, with a host that calls as it likes.
CONSTANTS
  a = a  b = b  c = c  gone = gone
  Ids = {a, b, c, gone}
  None = None
  Definitions <- MCCurated
  Disciplined = FALSE
  StableUpTo = 12
SPECIFICATION Spec
INVARIANTS WalkerTypeOK EdgeLimits SoundWhenValid NoNodeSkipped
CONSTRAINT CountsBounded
