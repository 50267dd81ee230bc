---------------------------- MODULE RoleCatalog ----------------------------
(***************************************************************************)
(* modules/auth/rbac.service.ts: the setting that says which roles each    *)
(* section of the application is for, and the role_permission rows that    *)
(* follow from it. ensureCatalog brings the rows in line with the setting; *)
(* logins and the account and role pages call it, without a transaction.   *)
(***************************************************************************)
EXTENDS Integers, FiniteSets, Functions

CONSTANTS
  Workers,             \* handlers that may be in flight at the same time
  Roles, Sections,     \* codes of RBAC_ROLE_TEMPLATES, RBAC_SECTION_TEMPLATES
  SectionPermissions,  \* section -> permissionCodes
  DefaultRoles,        \* section -> defaultRoleCodes
  RoleChoices,         \* the sets of roles callers give a section
  CallBound,           \* bound: how many calls start, ensureCatalog left out, and handlers die
  None

Permissions == UNION Range(SectionPermissions)

ASSUME CatalogAssumption ==
  /\ Sections # {}
  /\ DOMAIN SectionPermissions = Sections
  /\ DefaultRoles \in [Sections -> SUBSET Roles]
  /\ RoleChoices \subseteq SUBSET Roles
  /\ CallBound \in Nat
  /\ None \notin Sections

VARIABLES
  setting,          \* rbac.sectionRoles: section -> roles; no row is the empty function
  rolePermissions,  \* role_permission: pairs of a role and a permission
  calls,            \* how many have
  sync,             \* worker -> what its handler remembers
  synced            \* history: the maps of the synchronisations that overlapped last,
                    \* none once a handler died among its writes

catalogVars == <<setting, rolePermissions, calls, sync, synced>>

Assignment == [Sections -> SUBSET Roles]
Granted == Roles \X Permissions

\* The calls that a handler makes: ensureCatalog for another service; or the
\* parts of updateSectionRoleAssignments, whose answer ensures once more.
Phase == {"ensure", "updateFirst", "update", "updateLast"}

SyncStep == {"idle", "readSetting", "writeDefaults", "readGranted", "create",
             "delete", "readCurrent", "writeMerged"}

\* map is sectionRoleMap, create and delete the two lists of the diff.
Sync == [step: SyncStep, phase: Phase, section: Sections \cup {None},
         roles: SUBSET Roles, map: Assignment \cup {<<>>},
         create: SUBSET Granted, delete: SUBSET Granted]

NoSync == [step |-> "idle", phase |-> "ensure", section |-> None, roles |-> {},
           map |-> <<>>, create |-> {}, delete |-> {}]

CatalogTypeOK ==
  /\ setting \in Assignment \cup {<<>>}
  /\ rolePermissions \subseteq Granted
  /\ calls \in 0..CallBound
  /\ sync \in [Workers -> Sync]
  /\ synced \subseteq Assignment

CatalogInit ==
  /\ setting = <<>>
  /\ rolePermissions = {}
  /\ calls = 0
  /\ sync = [w \in Workers |-> NoSync]
  /\ synced = {}

-----------------------------------------------------------------------------

\* desired: every role of a section has all its permissions.
Desired(map) ==
  UNION {map[s] \X SectionPermissions[s] : s \in DOMAIN map}

\* Mutant: what is no longer wanted stays.
NothingToDelete(map) == {}

\* Mutant: everything is deleted before it is created anew.
AllToDelete(map) == rolePermissions

ToDelete(map) == rolePermissions \ Desired(map)

ToCreate(map) == Desired(map) \ rolePermissions

\* ensureSectionRoleSetting: a section that the setting lacks gets its default.
Normalized == [s \in Sections |-> IF s \in DOMAIN setting THEN setting[s] ELSE DefaultRoles[s]]

AtSync(w, step) == sync[w].step = step

Syncing(w, y) == sync' = [sync EXCEPT ![w] = y]

\* The handler has read the rows and not yet written all of the difference.
Writing(w) == sync[w].step \in {"create", "delete"}

-----------------------------------------------------------------------------
(* ensureCatalog: the upserts of permissions and roles write constants that *)
(* no code deletes, so they are no state here; then the setting is read,    *)
(* completed when a section is missing, and the rows are synchronised.      *)

StartEnsure(w) ==
  /\ AtSync(w, "idle")
  /\ Syncing(w, [NoSync EXCEPT !.step = "readSetting"])
  /\ UNCHANGED <<setting, rolePermissions, calls, synced>>

ReadSetting(w) ==
  /\ AtSync(w, "readSetting")
  /\ Syncing(w, [sync[w] EXCEPT !.map = Normalized,
                                !.step = IF DOMAIN setting = Sections
                                         THEN "readGranted" ELSE "writeDefaults"])
  /\ UNCHANGED <<setting, rolePermissions, calls, synced>>

WriteDefaults(w) ==
  /\ AtSync(w, "writeDefaults")
  /\ setting' = sync[w].map
  /\ Syncing(w, [sync[w] EXCEPT !.step = "readGranted"])
  /\ UNCHANGED <<rolePermissions, calls, synced>>

\* syncRolePermissions computes the difference from one read of the rows ...
ReadGranted(w) ==
  LET y == sync[w] IN
  /\ AtSync(w, "readGranted")
  /\ Syncing(w, [y EXCEPT !.step = "create", !.create = ToCreate(y.map),
                          !.delete = ToDelete(y.map)])
  /\ synced' = IF \A v \in Workers : ~Writing(v) THEN {y.map}
               ELSE IF synced = {} THEN {} ELSE synced \cup {y.map}
  /\ UNCHANGED <<setting, rolePermissions, calls>>

\* ... and writes it in two statements: createMany skips what is there,
CreateMissing(w) ==
  /\ AtSync(w, "create")
  /\ rolePermissions' = rolePermissions \cup sync[w].create
  /\ Syncing(w, [sync[w] EXCEPT !.step = "delete", !.create = {}])
  /\ UNCHANGED <<setting, calls, synced>>

\* What the handler does when syncRolePermissions has returned.
AfterSync(y) ==
  CASE y.phase = "updateFirst" ->
         [NoSync EXCEPT !.step = "readCurrent", !.phase = "update",
                        !.section = y.section, !.roles = y.roles]
    [] y.phase = "update" -> [NoSync EXCEPT !.step = "readSetting", !.phase = "updateLast"]
    [] OTHER -> NoSync

\* deleteMany what is still there.
DeleteExtra(w) ==
  /\ AtSync(w, "delete")
  /\ rolePermissions' = rolePermissions \ sync[w].delete
  /\ Syncing(w, AfterSync(sync[w]))
  /\ UNCHANGED <<setting, calls, synced>>

-----------------------------------------------------------------------------
(* updateSectionRoleAssignments: ensureCatalog, the setting read, merged    *)
(* and written whole, the rows synchronised; getSectionRoleOverview ensures *)
(* the catalogue once more for the answer.                                  *)

StartUpdateRoles(w, s, roles) ==
  /\ AtSync(w, "idle")
  /\ calls < CallBound
  /\ calls' = calls + 1
  /\ Syncing(w, [NoSync EXCEPT !.step = "readSetting", !.phase = "updateFirst",
                               !.section = s, !.roles = roles])
  /\ UNCHANGED <<setting, rolePermissions, synced>>

ReadCurrent(w) ==
  LET y == sync[w] IN
  /\ AtSync(w, "readCurrent")
  /\ Syncing(w, [y EXCEPT !.step = "writeMerged",
                          !.map = [setting EXCEPT ![y.section] = y.roles]])
  /\ UNCHANGED <<setting, rolePermissions, calls, synced>>

WriteMerged(w) ==
  /\ AtSync(w, "writeMerged")
  /\ setting' = sync[w].map
  /\ Syncing(w, [sync[w] EXCEPT !.step = "readGranted"])
  /\ UNCHANGED <<rolePermissions, calls, synced>>

\* The API stops in the middle of a handler.
DieInSync(w) ==
  /\ ~AtSync(w, "idle")
  /\ calls < CallBound
  /\ calls' = calls + 1
  /\ Syncing(w, NoSync)
  /\ synced' = IF Writing(w) THEN {} ELSE synced
  /\ UNCHANGED <<setting, rolePermissions>>

ResumeSync(w) ==
  \/ ReadSetting(w) \/ WriteDefaults(w) \/ ReadGranted(w) \/ CreateMissing(w)
  \/ DeleteExtra(w) \/ ReadCurrent(w) \/ WriteMerged(w)

RoleStep(w) ==
  \/ StartEnsure(w)
  \/ \E s \in Sections, roles \in RoleChoices : StartUpdateRoles(w, s, roles)
  \/ ResumeSync(w)
  \/ DieInSync(w)
==============================================================================
