SPECIFICATION Spec
CONSTANTS
  OtherCodes = {"GBP"}
  Separators = {"/", "-"}
INVARIANTS
  InvalidPairIs400
