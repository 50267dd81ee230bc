\* One handler at a time, all handlers, the clock advancing between awaits.
CONSTANTS
  Plans = {p1}
  Grants = {g1, g2}
  Requests = {r1, r2}
  Persons = {alice}
  Workers = {w1}
  Handlers <- GrantAndExercise
  Quantities = {1, 2}
  Schedules <- MCSchedules
  ManualTypes = {"ISSUE"}
  PteMonths = 1
  CapTableTake = 2
  DashboardTake = 2
  LastMonth = 2
  LedgerBound = 3
  None = None
SYMMETRY Symmetry
SPECIFICATION Spec
INVARIANTS ExercisedHasVested ExercisedOnce GrantsFitReserve CapTableConserves PagesAgree
PROPERTIES TerminalIsFinal LifecycleFreezesGrant
