\* The seeded workflow, which leaves maxIterations out.
CONSTANTS
  a = a  b = b  c = c  gone = gone
  Ids = {a, b, c, gone}
  None = None
  Definitions <- Seed
  Disciplined = TRUE
  StableUpTo = 12
SPECIFICATION Spec
INVARIANT DefaultIsHundred
CHECK_DEADLOCK FALSE
