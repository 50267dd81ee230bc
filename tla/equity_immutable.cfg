\* One handler at a time: is a ledger row ever changed?
CONSTANTS
  Plans = {p1}
  Grants = {g1, g2}
  Requests = {r1}
  Persons = {alice}
  Workers = {w1}
  Handlers <- GrantAndExercise
  Quantities = {1, 2}
  Schedules <- MCVested
  ManualTypes = {"ISSUE"}
  PteMonths = 0
  CapTableTake = 2
  DashboardTake = 2
  LastMonth = 0
  LedgerBound = 2
  None = None
SPECIFICATION Spec
PROPERTY LedgerIsImmutable
