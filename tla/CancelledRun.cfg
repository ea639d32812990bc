SPECIFICATION FairSpec
CONSTANTS
  Rows = {r1}
  NoRow = NoRow
  Legacy = {}
  MaxTries = 1
  JobAttempts = 1
  MaxUpsets = 1
CHECK_DEADLOCK FALSE
PROPERTIES
  CancelledStaysCancelled
