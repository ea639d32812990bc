\* Two recipients, one left unknown by the earlier sender, planned one at a time; any
\* two of an upset, a cancellation, a retry, a recovery.
SPECIFICATION FairSpec
CONSTANTS
  Rows = {1, 2}
  Legacy = {2}
  Chunk = 1
  MaxTries = 1
  FirstAttempts = 1
  WakeAttempts = 2
  MaxUpsets = 1
  MaxCancels = 1
  MaxRecoveries = 1
  MaxRetries = 1
  MaxAll = 2
INVARIANTS
  TypeOK
  NoRecipientForgotten
PROPERTIES
  CompletedJobsStay
  ImplementsSavedRun
  EventuallyFinished
