SPECIFICATION Spec
CONSTANTS
  Pairs = {EURMXN, USDEUR}
  Workers = {w1, w2}
  MaxAttempts = 2
  MaxFaults = 1
  Unsavable = {EURMXN}
  NULL = NULL
INVARIANTS
  TypeOK
PROPERTIES
  EveryUpdateEnds
  DueIsClaimed
