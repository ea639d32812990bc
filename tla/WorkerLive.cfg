SPECIFICATION FairSpec
CONSTANTS
  Rows = {r1}
  NoRow = NoRow
  Legacy = {r1}
  MaxTries = 3
  JobAttempts = 1
  MaxUpsets = 2
CHECK_DEADLOCK FALSE
PROPERTIES
  EventuallyFinished
  ImplementsSavedRun
