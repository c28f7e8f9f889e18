SPECIFICATION Spec
CONSTANTS
  Ids = {u1}
  Pairs = {EURMXN}
  Tokens = {t1, t2}
  Rates = {r1}
  NULL = NULL
  Width = 8
  RetryBaseDelay = 1
  RetryMaxDelay = 2
  Workers = {w1, w2}
  MaxAttempts = 1
  LeaseDuration = 1
  ClockSkews <- Synchronised
  MaxRefreshLag = 0
  MaxTime = 4
INVARIANTS
  CallsWithinMaxAttempts
