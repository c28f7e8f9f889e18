SPECIFICATION Spec
CONSTANTS
  Pairs = {EURMXN, USDEUR}
  Workers = {w1}
  MaxAttempts = 2
  MaxFaults = 1
  Unsavable = {}
  NULL = NULL
PROPERTIES
  ExpiredIsRequeued
