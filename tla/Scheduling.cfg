\* One date and slot: two venues, two rows (one exists), two classes, one real
\* coach and the placeholder, two editors; three writes.
SPECIFICATION Spec
CONSTANTS
  Ids = {r1, r2}
  page = page
  mcp = mcp
  r1 = r1
  v1 = v1
  v2 = v2
  k1 = k1
  k2 = k2
  ann = ann
  Venues = {v1, v2}
  Classes = {k1, k2}
  Coaches = {ann}
  Unstaffed = Unstaffed
  Null = Null
  Undefined = Undefined
  Editors = {page, mcp}
  Inputs <- MCInputs
  Existing <- MCExisting
  MaxWrites = 3
INVARIANTS
  TypeOK
  SlotsInOrder
  ConflictsShown
PROPERTIES
  AwayShown
  NoLostUpdate
  LockedDayKept
