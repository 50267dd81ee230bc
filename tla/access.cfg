\* Two workers, any handlers, three calls or deaths next to ensureCatalog.
CONSTANTS
  Workers = {w1, w2}
  Roles = {admin, guest}
  Sections = {people, equity}
  SectionPermissions <- MCSectionPermissions
  DefaultRoles <- MCDefaultRoles
  RoleChoices <- MCRoleChoices
  CallBound = 3
  None = None
  Users = {u1, u2}
  States = {s1}
  Sessions = {k1, k2}
  Persons = {alice}
  Emails = {m1, m2}
  Identities = {i1}
  Usernames = {n1}
  AdminEmail = m1
  AdminUsername = n1
  Guest = guest
  Admin = admin
  AccountRows <- MCAccountRows
  Jit = TRUE
SPECIFICATION FairAccessSpec
INVARIANTS AccountsHaveRoles SignInIsOnce GrantsFollowMaps
PROPERTIES CatalogSettles
