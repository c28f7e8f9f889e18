SPECIFICATION Spec
CONSTANTS
  Handlers = {h1, h2}
INVARIANTS
  TypeOK
  WorkerDoneBeforeClose
  RefusedOnlyAfterTimeout
  SuccessMeansGraceful
  StopWaitsEnd
PROPERTIES
  EveryStopEnds
CHECK_DEADLOCK FALSE
