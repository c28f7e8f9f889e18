SPECIFICATION Spec
CONSTANTS
  Ids = {u1, u2}
  Pairs = {EURMXN}
  Tokens = {t1, t2}
  Rates = {r1}
  NULL = NULL
  Width = 8
  RetryBaseDelay = 1
  RetryMaxDelay = 2
  Workers = {w1, w2}
  MaxAttempts = 2
  LeaseDuration = 1
  ClockSkews <- Drifting
  MaxRefreshLag = 1
  MaxTime = 3
INVARIANTS
  TypeOK
  LeaseExclusive
  FailsOnlyAfterMaxAttempts
PROPERTIES
  LeaseEndsProperly
  FinishedIsFinal
  LatestIsNewest
SYMMETRY Symmetry
