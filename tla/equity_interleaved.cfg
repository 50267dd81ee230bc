\* Two handlers in flight at once, any of all of them.
CONSTANTS
  Plans = {p1}
  Grants = {g1, g2}
  Requests = {r1}
  Persons = {alice}
  Workers = {w1, w2}
  Handlers <- HandlerNames
  Quantities = {1, 2}
  Schedules <- MCVested
  ManualTypes = {"TRANSFER"}
  PteMonths = 0
  CapTableTake = 2
  DashboardTake = 2
  LastMonth = 0
  LedgerBound = 2
  None = None
SYMMETRY WorkerSymmetry
SPECIFICATION Spec
INVARIANTS TypeOK LedgerHasNoGap CompletionsAreLedgered RequestsKeepGrant GrantsMirrorLedger
PROPERTIES ImplementsContract
