SPECIFICATION FairSpec
CONSTANTS
  Rows = {1}
  Legacy = {}
  Chunk = 1
  MaxTries = 2
  FirstAttempts = 1
  WakeAttempts = 2
  MaxUpsets = 0
  MaxCancels = 0
  MaxRecoveries = 0
  MaxRetries = 1
  MaxAll = 1
PROPERTIES
  SendingEnds
