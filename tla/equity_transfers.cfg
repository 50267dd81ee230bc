\* One handler at a time, grants and the entries made by hand against balances.
CONSTANTS
  Plans = {p1}
  Grants = {g1, g2}
  Requests = {}
  Persons = {alice, bob}
  Workers = {w1}
  Handlers <- Transfers
  Quantities = {1, 2}
  Schedules <- MCVested
  ManualTypes = {"TRANSFER", "CANCEL"}
  PteMonths = 1
  CapTableTake = 2
  DashboardTake = 2
  LastMonth = 0
  LedgerBound = 4
  None = None
SYMMETRY PersonSymmetry
SPECIFICATION Spec
INVARIANT HoldersSolvent
