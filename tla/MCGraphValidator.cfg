\* Every small definition, valid or not.
CONSTANTS
  a = a  b = b  c = c  gone = gone
  Ids = {a, b, c, gone}
  None = None
  Definitions <- MCDefinitions
SPECIFICATION FairSpec
INVARIANTS ValidatorTypeOK VerdictRight
PROPERTIES Terminates Advances
CHECK_DEADLOCK FALSE
