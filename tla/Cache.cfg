SPECIFICATION Spec
CONSTANTS
  Readers = {r1, r2}
  Workers = {w1, w2}
  MaxSaved = 3
  Failures = TRUE
  NULL = NULL
INVARIANTS
  TypeOK
  StaleHasCause
PROPERTIES
  EventuallyFresh
