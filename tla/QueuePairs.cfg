SPECIFICATION Spec
CONSTANTS
  Ids = {u1, u2}
  Pairs = {EURMXN, USDEUR}
  Tokens = {t1, t2, t3}
  Rates = {r1}
  NULL = NULL
  Width = 8
  RetryBaseDelay = 1
  RetryMaxDelay = 2
  Workers = {w1, w2}
  MaxAttempts = 2
  LeaseDuration = 1
  ClockSkews <- Synchronised
  MaxRefreshLag = 0
  MaxTime = 2
INVARIANTS
  RowConsistent
  OneActivePerPair
PROPERTIES
  QueueSpec
SYMMETRY Symmetry
