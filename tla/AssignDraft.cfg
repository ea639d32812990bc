\* Two places, three changes (pick, pick, retry) and two writes of the row, which is
\* blank or has a first coach. The editor may stop: no deadlock is looked for.
SPECIFICATION Spec
CONSTANTS
  ann = ann
  bob = bob
  cid = cid
  Empty = Empty
  None = None
  Values <- MCValues
  Coaches = {ann, bob, cid}
  Offered <- MCOffered
  Rows <- MCRows
  MaxRevisions = 3
  MaxVersion = 3
INVARIANTS
  TypeOK
  PickKept
  SavedTakenStored
  SavingMeansWaiting
  PendingUnderWay
CHECK_DEADLOCK FALSE
