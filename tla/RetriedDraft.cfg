\* As AssignDraft.cfg, for what the page says after a retry of two fields: the row has
\* a first coach and no place is cleared, so no second coach is moved up.
SPECIFICATION Spec
CONSTANTS
  ann = ann
  bob = bob
  cid = cid
  Empty = Empty
  None = None
  Values <- MCValues
  Coaches = {ann, bob, cid}
  Offered <- PickedOnly
  Rows <- WithCoach
  MaxRevisions = 3
  MaxVersion = 3
INVARIANT
  SavedIsStored
CHECK_DEADLOCK FALSE
