SPECIFICATION Spec
CONSTANTS
  Rows = {r1, r2}
  NoRow = NoRow
  Legacy = {}
  MaxTries = 1
  JobAttempts = 1
  MaxUpsets = 1
SYMMETRY Symmetry
CHECK_DEADLOCK FALSE
INVARIANTS
  TypeOK
  SuccessMeansAccepted
PROPERTIES
  OverlooksOnlyRetried
