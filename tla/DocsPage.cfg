SPECIFICATION Spec
INVARIANTS
  TypeOK
  NotShownHasCause
PROPERTIES
  EveryVisitEnds
