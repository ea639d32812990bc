\* The instance of WakeDay, receipts alone.
SPECIFICATION Spec
CONSTANTS
  NotBefore = 1
  Limit = 2
  Horizon = 5
  MaxUpsets = 2
  Never = Never
INVARIANT GapNotErased
CHECK_DEADLOCK FALSE
