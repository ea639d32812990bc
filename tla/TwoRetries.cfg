\* Two overlapping retryFailed transactions and one sender.
SPECIFICATION Spec
CONSTANTS
  Ids = {i1}
  Workers = {w1}
  Admins = {a1, a2}
  NoId = NoId
  MaxAttempts = 2
  Lease = 1
  BaseDelay = 2
  Window = 3
  Transit = 1
  KeyMemory = 4
  MaxTime = 4
  MaxResets = 2
PROPERTY AcceptedIsNotRetried
