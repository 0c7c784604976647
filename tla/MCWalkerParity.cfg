\* One call out of turn; 3 edges stand for the 12 that are sorted by insertion.
CONSTANTS
  a = a  b = b  c = c  gone = gone
  Ids = {a, b, c, gone}
  None = None
  MaxStray = 1
  StableUpTo = 3
  Definitions <- MCDefinitions
SPECIFICATION PairSpec
INVARIANTS TsWalkerTypeOK EdgeLimits SoundWhenValid
PROPERTIES NextReturns Finishes MovesSpend PartsOnlyWhere
CHECK_DEADLOCK FALSE
