\* Receipts: five windows, of which more than two make a gap, and two wakes cut short. Reminders:
\* a day of three hours, the slot due in the last, two names planned one at a time.
\* Import: two names, two LINE accounts, three accounts, two instances, one disturbance.
\* The system may stop where the clock does: no deadlock is looked for.
SPECIFICATION DaySpec
CONSTANTS
  NotBefore = 1
  Limit = 2
  Horizon = 4
  MaxUpsets = 2
  Never = Never
  Names = {1, 2}
  Texts = {"a", "b"}
  AtFirst <- MCAtFirst
  Day = 3
  Evening = 2
  Activated = 1
  LastDate = 0
  LastHour = 3
  Chunk = 1
  Tries = 2
  MaxFailures = 2
  MaxEdits = 1
  None = None
  Ids = {1, 2, 3}
  A = A
  B = B
  pool = pool
  l1 = l1
  l2 = l2
  People = {A, B}
  Places = {pool}
  Lines = {l1, l2}
  Instances = {i1, i2}
  Sheets <- MCSheets
  AtStart <- MCAtStart
  JobTries = 2
  MaxChanges = 1
  Null = Null
INVARIANTS
  TypeOK
  GapIsFirstSilence
  ReminderTypeOK
  CreatedAsPlanned
  AllAccounted
  ImportTypeOK
  NoTwins
  CountsTrue
PROPERTIES
  PlanKept
  OnlyNewBindingsLost
  JobEnds
CHECK_DEADLOCK FALSE
