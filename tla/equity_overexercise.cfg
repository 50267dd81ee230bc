\* Two handlers in flight: does what is exercised stay within what has vested?
CONSTANTS
  Plans = {p1}
  Grants = {g1}
  Requests = {r1}
  Persons = {alice}
  Workers = {w1, w2}
  Handlers <- GrantAndExerciseWithoutEdits
  Quantities = {1}
  Schedules <- MCVested
  ManualTypes = {"ISSUE"}
  PteMonths = 0
  CapTableTake = 2
  DashboardTake = 2
  LastMonth = 0
  LedgerBound = 3
  None = None
SPECIFICATION Spec
INVARIANT ExercisedHasVested
