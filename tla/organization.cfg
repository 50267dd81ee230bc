\* One handler at a time, of either service, and a worker on the queue.
CONSTANTS
  Plans = {p1}
  Grants = {g1}
  Requests = {r1}
  Persons = {alice, bob}
  Workers = {w1}
  Handlers <- Linking
  Quantities = {1}
  Schedules <- MCSchedules
  ManualTypes = {"TRANSFER"}
  PteMonths = 1
  CapTableTake = 2
  DashboardTake = 2
  LastMonth = 1
  LedgerBound = 2
  None = None
  Engagements = {e1}
  PersonDocuments = {d1}
  ProvisioningJobs = {i1}
  Profiles = {x}
  Dates = {0, 1}
  Keep = Keep
  LinkBound = 2
SYMMETRY Symmetry
SPECIFICATION OrganizationSpec
INVARIANTS ArchivedIsClear EngagementDatesOrdered QueuedHasRow
PROPERTIES JobKeepsPerson
