SPECIFICATION Spec
CONSTANTS
  k1 = k1
  k2 = k2
  Keys = {k1, k2}
  Pairs = {EURMXN, USDEUR}
  HashText <- DifferentHashes
  TTL = 1
  MaxRequests = 3
  MaxTime = 1
  NULL = NULL
INVARIANTS
  TypeOK
  SameKeySameUpdate
  OneActivePerPair
  AnswersName
  RefusalsHaveCause
  NoDeadlock
PROPERTIES
  UpdatesAdvance
  RefreshSpec
  EveryRequestEnds
CHECK_DEADLOCK FALSE
