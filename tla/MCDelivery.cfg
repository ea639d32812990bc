\* One row, two senders, one retryFailed at a time; every interleaving.
\* Time unit: 30 seconds, so the lease is 1 and the first retry delay 2; the
\* 24 hour window is cut to 3 units and MAX_DELIVERY_ATTEMPTS to 2, which keeps
\* both limits reachable.
SPECIFICATION Spec
CONSTANTS
  Ids = {i1}
  Workers = {w1, w2}
  Admins = {a1}
  NoId = NoId
  MaxAttempts = 2
  Lease = 1
  BaseDelay = 2
  Window = 3
  Transit = 1
  KeyMemory = 4
  MaxTime = 4
  MaxResets = 1
SYMMETRY SenderSymmetry
INVARIANTS
  TypeOK
  AtMostOnce
  AttemptBudget
  SendsInsideWindow
  RetryIsPossible
PROPERTIES
  SettledIsFinal
  ImplementsDurableSend
  ImplementsRecipientLife
