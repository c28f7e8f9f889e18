SPECIFICATION Spec
CONSTANTS
  Width = 6
  MaxAttempt = 8
INVARIANTS
  DelayInRange
  CappedUnlessWrapped
CHECK_DEADLOCK FALSE
