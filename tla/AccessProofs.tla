---------------------------- MODULE AccessProofs ----------------------------
(***************************************************************************)
(* Proofs about RoleCatalog and Accounts within AccessSystem, for any      *)
(* roles, sections, tables and number of handlers in flight. What the maps *)
(* of overlapping synchronisations agree on is in the rows or still to be  *)
(* written by one of them. And a state that no two callbacks had at once   *)
(* is with one handler, and no session has it until that handler creates   *)
(* one.                                                                    *)
(***************************************************************************)
EXTENDS AccessSystem, TLAPS

-----------------------------------------------------------------------------
(* The role catalogue *)

\* What a handler in flight remembers.
SyncSound(y) ==
  /\ y.step \in {"writeDefaults", "readGranted", "create", "delete", "writeMerged"} =>
       y.map \in Assignment
  /\ y.step \in {"readGranted", "create", "delete", "readCurrent", "writeMerged"} =>
       setting \in Assignment
  /\ y.step \in {"create", "delete"} => y.delete \cap Desired(y.map) = {}
  /\ y.step = "create" => y.create \subseteq Desired(y.map)
  /\ y.step \in {"readCurrent", "writeMerged"} => y.section \in Sections
  /\ y.phase = "updateFirst" => y.section \in Sections

SyncsSound == \A w \in Workers : SyncSound(sync[w])

CatalogInv == CatalogTypeOK /\ SyncsSound

-----------------------------------------------------------------------------
(* Helpers *)

\* What a map wants is made of roles and permissions.
LEMMA DesiredIsGranted ==
  ASSUME NEW map \in Assignment
  PROVE  Desired(map) \subseteq Granted
<1> SUFFICES ASSUME NEW s \in DOMAIN map, NEW x \in map[s] \X SectionPermissions[s]
             PROVE  x \in Granted
  BY DEF Desired
<1>1. s \in Sections /\ map[s] \subseteq Roles
  BY DEF Assignment
<1>2. SectionPermissions[s] \subseteq Permissions
  BY <1>1, CatalogAssumption DEF Permissions, Range
<1> QED
  BY <1>1, <1>2 DEF Granted

\* The setting and its completion with the defaults.
LEMMA NormalizedIsAssignment ==
  ASSUME CatalogTypeOK
  PROVE  /\ Normalized \in Assignment
         /\ DOMAIN setting = Sections => setting \in Assignment
<1>1. \A s \in Sections : s \in DOMAIN setting => setting \in Assignment
  BY DEF CatalogTypeOK, Assignment
<1>2. Normalized \in Assignment
  BY <1>1, CatalogAssumption DEF Normalized, Assignment
<1> QED
  BY <1>1, <1>2, CatalogAssumption

\* An assignment is never the empty function, which stands for no row.
LEMMA AssignmentIsNotEmpty ==
  ASSUME NEW map \in Assignment
  PROVE  map # <<>>
BY CatalogAssumption DEF Assignment

\* One handler remembers something else; the setting is not lost.
LEMMA SyncStepKeeps ==
  ASSUME CatalogInv, NEW w \in Workers, NEW y \in Sync, Syncing(w, y),
         calls' \in 0..CallBound,
         rolePermissions' \subseteq Granted, synced' \subseteq Assignment,
         setting' = setting \/ setting' \in Assignment,
         SyncSound(y)'
  PROVE  CatalogInv'
<1>1. /\ \A v \in Workers : sync'[v] = IF v = w THEN y ELSE sync[v]
      /\ sync' \in [Workers -> Sync]
  BY DEF CatalogInv, CatalogTypeOK, Syncing
<1>2. CatalogTypeOK'
  BY <1>1 DEF CatalogInv, CatalogTypeOK
<1>3. \A z \in Sync : SyncSound(z) => SyncSound(z)'
  BY DEF SyncSound, Desired
<1>4. SyncsSound'
  BY <1>1, <1>3 DEF CatalogInv, CatalogTypeOK, SyncsSound
<1> QED
  BY <1>2, <1>4 DEF CatalogInv

-----------------------------------------------------------------------------
(* One lemma per action of RoleCatalog *)

LEMMA StartStep ==
  ASSUME CatalogInv, NEW w \in Workers,
         \/ StartEnsure(w)
         \/ \E s \in Sections, roles \in RoleChoices : StartUpdateRoles(w, s, roles)
  PROVE  CatalogInv'
<1>1. PICK y \in Sync :
        /\ Syncing(w, y) /\ y.step = "readSetting"
        /\ y.phase = "updateFirst" => y.section \in Sections
        /\ UNCHANGED <<setting, rolePermissions, synced>> /\ calls' \in 0..CallBound
  <2>1. CASE StartEnsure(w)
    BY <2>1 DEF StartEnsure, Sync, NoSync, SyncStep, Phase, CatalogInv, CatalogTypeOK
  <2>2. ASSUME NEW s \in Sections, NEW roles \in RoleChoices, StartUpdateRoles(w, s, roles)
        PROVE  \E y \in Sync :
                 /\ Syncing(w, y) /\ y.step = "readSetting"
                 /\ y.phase = "updateFirst" => y.section \in Sections
                 /\ UNCHANGED <<setting, rolePermissions, synced>> /\ calls' \in 0..CallBound
    <3>0. PICK y : y = [NoSync EXCEPT !.step = "readSetting", !.phase = "updateFirst",
                                      !.section = s, !.roles = roles]
      OBVIOUS
    <3>1. y \in Sync /\ y.step = "readSetting" /\ y.section = s
      BY <3>0, CatalogAssumption DEF Sync, NoSync, SyncStep, Phase
    <3>2. Syncing(w, y) /\ UNCHANGED <<setting, rolePermissions, synced>>
      BY <2>2, <3>0 DEF StartUpdateRoles
    <3>3. calls' \in 0..CallBound
      <4>1. calls < CallBound /\ calls' = calls + 1
        BY <2>2, Zenon DEF StartUpdateRoles
      <4> QED
        BY <4>1, CatalogAssumption DEF CatalogInv, CatalogTypeOK
    <3> QED
      BY <3>1, <3>2, <3>3
  <2> QED
    BY <2>1, <2>2
<1>2. SyncSound(y)'
  BY <1>1 DEF SyncSound
<1> QED
  BY <1>1, <1>2, SyncStepKeeps DEF CatalogInv, CatalogTypeOK

LEMMA ReadSettingStep ==
  ASSUME CatalogInv, NEW w \in Workers, ReadSetting(w)
  PROVE  CatalogInv'
<1>1. PICK map : map = Normalized
  OBVIOUS
<1>2. map \in Assignment /\ (DOMAIN setting = Sections => setting \in Assignment)
  BY <1>1, NormalizedIsAssignment DEF CatalogInv
<1>3. PICK step : step = IF DOMAIN setting = Sections THEN "readGranted" ELSE "writeDefaults"
  OBVIOUS
<1>0. PICK y : y = [sync[w] EXCEPT !.map = map, !.step = step]
  OBVIOUS
<1>4. sync[w] \in Sync /\ SyncSound(sync[w])
  BY <1>0 DEF CatalogInv, CatalogTypeOK, SyncsSound
<1>5. /\ y \in Sync /\ y.map = map /\ y.step = step
      /\ y.phase = sync[w].phase /\ y.section = sync[w].section
  BY <1>0, <1>2, <1>3, <1>4 DEF Sync, SyncStep
<1>6. Syncing(w, y) /\ UNCHANGED <<setting, rolePermissions, calls, synced>>
  BY <1>0, <1>1, <1>3 DEF ReadSetting
<1>7. SyncSound(y)'
  BY <1>2, <1>3, <1>4, <1>5, <1>6 DEF SyncSound
<1> QED
  BY <1>5, <1>6, <1>7, SyncStepKeeps DEF CatalogInv, CatalogTypeOK

LEMMA WriteSettingStep ==
  ASSUME CatalogInv, NEW w \in Workers, WriteDefaults(w) \/ WriteMerged(w)
  PROVE  CatalogInv'
<1>1. sync[w] \in Sync /\ SyncSound(sync[w])
  BY DEF CatalogInv, CatalogTypeOK, SyncsSound
<1>0. PICK y : y = [sync[w] EXCEPT !.step = "readGranted"]
  OBVIOUS
<1>2. /\ y \in Sync /\ y.map = sync[w].map /\ y.step = "readGranted"
      /\ y.phase = sync[w].phase /\ y.section = sync[w].section
  BY <1>0, <1>1 DEF Sync, SyncStep
<1>3. /\ Syncing(w, y) /\ UNCHANGED <<rolePermissions, calls, synced>>
      /\ setting' = sync[w].map /\ sync[w].map \in Assignment
  BY <1>0, <1>1 DEF WriteDefaults, WriteMerged, AtSync, SyncSound
<1>4. SyncSound(y)'
  BY <1>1, <1>2, <1>3 DEF SyncSound
<1> QED
  BY <1>2, <1>3, <1>4, SyncStepKeeps DEF CatalogInv, CatalogTypeOK

LEMMA ReadGrantedStep ==
  ASSUME CatalogInv, NEW w \in Workers, ReadGranted(w)
  PROVE  CatalogInv'
<1>1. sync[w] \in Sync /\ SyncSound(sync[w]) /\ sync[w].step = "readGranted"
  BY DEF CatalogInv, CatalogTypeOK, SyncsSound, ReadGranted, AtSync
<1>2. PICK create, delete : create = ToCreate(sync[w].map) /\ delete = ToDelete(sync[w].map)
  OBVIOUS
<1>3. /\ create \in SUBSET Granted /\ delete \in SUBSET Granted
      /\ delete \cap Desired(sync[w].map) = {} /\ create \subseteq Desired(sync[w].map)
  BY <1>1, <1>2, DesiredIsGranted
     DEF ToCreate, ToDelete, CatalogInv, CatalogTypeOK, SyncSound
<1>0. PICK y : y = [sync[w] EXCEPT !.step = "create", !.create = create, !.delete = delete]
  OBVIOUS
<1>4. /\ y \in Sync /\ y.map = sync[w].map /\ y.step = "create"
      /\ y.create = create /\ y.delete = delete
      /\ y.phase = sync[w].phase /\ y.section = sync[w].section
  BY <1>0, <1>1, <1>3 DEF Sync, SyncStep
<1>5. Syncing(w, y) /\ UNCHANGED <<setting, rolePermissions, calls>>
  BY <1>0, <1>2 DEF ReadGranted
<1>8. synced' \subseteq Assignment
  BY <1>1 DEF ReadGranted, SyncSound, CatalogInv, CatalogTypeOK
<1>6. SyncSound(y)
  BY <1>1, <1>3, <1>4 DEF SyncSound
<1>7. SyncSound(y)'
  BY <1>5, <1>6 DEF SyncSound, Desired
<1> QED
  BY <1>4, <1>5, <1>7, <1>8, SyncStepKeeps DEF CatalogInv, CatalogTypeOK

LEMMA CreateMissingStep ==
  ASSUME CatalogInv, NEW w \in Workers, CreateMissing(w)
  PROVE  CatalogInv'
<1>1. sync[w] \in Sync /\ SyncSound(sync[w]) /\ sync[w].step = "create"
  BY DEF CatalogInv, CatalogTypeOK, SyncsSound, CreateMissing, AtSync
<1>0. PICK y : y = [sync[w] EXCEPT !.step = "delete", !.create = {}]
  OBVIOUS
<1>2. /\ y \in Sync /\ y.map = sync[w].map /\ y.step = "delete" /\ y.delete = sync[w].delete
      /\ y.phase = sync[w].phase /\ y.section = sync[w].section
  BY <1>0, <1>1 DEF Sync, SyncStep
<1>3. /\ Syncing(w, y) /\ UNCHANGED <<setting, calls, synced>>
      /\ rolePermissions' = rolePermissions \cup sync[w].create
  BY <1>0 DEF CreateMissing
<1>4. rolePermissions' \subseteq Granted
  BY <1>1, <1>3 DEF Sync, CatalogInv, CatalogTypeOK
<1>5. SyncSound(y)
  BY <1>1, <1>2 DEF SyncSound
<1>6. SyncSound(y)'
  BY <1>3, <1>5 DEF SyncSound, Desired
<1> QED
  BY <1>2, <1>3, <1>4, <1>6, SyncStepKeeps DEF CatalogInv, CatalogTypeOK

LEMMA DeleteExtraStep ==
  ASSUME CatalogInv, NEW w \in Workers, DeleteExtra(w)
  PROVE  CatalogInv'
<1>1. sync[w] \in Sync /\ SyncSound(sync[w]) /\ sync[w].step = "delete"
  BY DEF CatalogInv, CatalogTypeOK, SyncsSound, DeleteExtra, AtSync
<1>2. PICK y : y = AfterSync(sync[w])
  OBVIOUS
<1>3. /\ y \in Sync /\ y.step \in {"idle", "readCurrent", "readSetting"}
      /\ y.step = "readCurrent" => sync[w].phase = "updateFirst" /\ y.section = sync[w].section
      /\ y.phase # "updateFirst"
  BY <1>1, <1>2 DEF AfterSync, Sync, NoSync, SyncStep, Phase
<1>4. /\ Syncing(w, y) /\ UNCHANGED <<setting, calls, synced>>
      /\ rolePermissions' \subseteq Granted
  BY <1>2 DEF DeleteExtra, CatalogInv, CatalogTypeOK
<1>5. SyncSound(y)'
  BY <1>1, <1>3, <1>4 DEF SyncSound
<1> QED
  BY <1>3, <1>4, <1>5, SyncStepKeeps DEF CatalogInv, CatalogTypeOK

LEMMA ReadCurrentStep ==
  ASSUME CatalogInv, NEW w \in Workers, ReadCurrent(w)
  PROVE  CatalogInv'
<1>1. sync[w] \in Sync /\ SyncSound(sync[w]) /\ sync[w].step = "readCurrent"
  BY DEF CatalogInv, CatalogTypeOK, SyncsSound, ReadCurrent, AtSync
<1>2. PICK map : map = [setting EXCEPT ![sync[w].section] = sync[w].roles]
  OBVIOUS
<1>3. map \in Assignment /\ setting \in Assignment
  BY <1>1, <1>2 DEF SyncSound, Assignment, Sync
<1>0. PICK y : y = [sync[w] EXCEPT !.step = "writeMerged", !.map = map]
  OBVIOUS
<1>4. /\ y \in Sync /\ y.map = map /\ y.step = "writeMerged"
      /\ y.phase = sync[w].phase /\ y.section = sync[w].section
  BY <1>0, <1>1, <1>3 DEF Sync, SyncStep
<1>5. Syncing(w, y) /\ UNCHANGED <<setting, rolePermissions, calls, synced>>
  BY <1>0, <1>2 DEF ReadCurrent
<1>6. SyncSound(y)'
  BY <1>1, <1>3, <1>4, <1>5 DEF SyncSound
<1> QED
  BY <1>4, <1>5, <1>6, SyncStepKeeps DEF CatalogInv, CatalogTypeOK

LEMMA DieInSyncStep ==
  ASSUME CatalogInv, NEW w \in Workers, DieInSync(w)
  PROVE  CatalogInv'
<1>1. NoSync \in Sync /\ NoSync.step = "idle" /\ NoSync.phase = "ensure"
  BY DEF NoSync, Sync, SyncStep, Phase
<1>2. /\ Syncing(w, NoSync) /\ UNCHANGED <<setting, rolePermissions>>
      /\ calls' \in 0..CallBound /\ synced' \subseteq Assignment
  BY CatalogAssumption DEF DieInSync, CatalogInv, CatalogTypeOK
<1>3. SyncSound(NoSync)'
  BY <1>1 DEF SyncSound, NoSync
<1> QED
  BY <1>1, <1>2, <1>3, SyncStepKeeps DEF CatalogInv, CatalogTypeOK

-----------------------------------------------------------------------------
(* Every step *)

LEMMA CatalogInitInv == CatalogInit => CatalogInv
<1> SUFFICES ASSUME CatalogInit PROVE CatalogInv
  OBVIOUS
<1>1. CatalogTypeOK
  BY CatalogAssumption DEF CatalogInit, CatalogTypeOK, Sync, NoSync, SyncStep, Phase
<1>2. SyncsSound
  BY DEF CatalogInit, SyncsSound, SyncSound, NoSync
<1> QED
  BY <1>1, <1>2 DEF CatalogInv

\* Steps of accounts change nothing of the catalogue but the number of calls.
LEMMA CatalogKept ==
  ASSUME CatalogInv, UNCHANGED <<setting, rolePermissions, sync, synced>>, calls' \in 0..CallBound
  PROVE  CatalogInv'
<1>1. \A z : SyncSound(z) => SyncSound(z)'
  BY DEF SyncSound, Desired
<1> QED
  BY <1>1 DEF CatalogInv, CatalogTypeOK, SyncsSound

LEMMA CatalogNext ==
  ASSUME CatalogInv, [AccessNext]_accessVars
  PROVE  CatalogInv'
<1>1. CASE UNCHANGED accessVars
  BY <1>1, CatalogKept DEF accessVars, catalogVars, CatalogInv, CatalogTypeOK
<1>2. ASSUME NEW w \in Workers, RolesPart(w)
      PROVE  CatalogInv'
  BY <1>2, StartStep, ReadSettingStep, WriteSettingStep, ReadGrantedStep, CreateMissingStep,
     DeleteExtraStep, ReadCurrentStep, DieInSyncStep
     DEF RolesPart, RoleStep, ResumeSync
<1>3. ASSUME NEW w \in Workers, AccountsPart(w)
      PROVE  CatalogInv'
  BY <1>3, CatalogKept, CatalogAssumption
     DEF AccountsPart, StartAccountCall, catalogVars, CatalogInv, CatalogTypeOK
<1> QED
  BY <1>1, <1>2, <1>3 DEF AccessNext

-----------------------------------------------------------------------------
(* Theorems *)

\* The types of the setting, the rows and what handlers remember of them, and
\* the soundness of what they remember.
THEOREM CatalogInvariant == AccessSpec => []CatalogInv
<1>1. AccessInit => CatalogInv
  BY CatalogInitInv DEF AccessInit
<1>2. CatalogInv /\ [AccessNext]_accessVars => CatalogInv'
  BY CatalogNext
<1> QED
  BY <1>1, <1>2, PTL DEF AccessSpec

\* The setting is unset or complete, and only roles and permissions of the
\* catalogue are ever granted.
THEOREM CatalogTypes == AccessSpec => []CatalogTypeOK
<1>1. CatalogInv => CatalogTypeOK
  BY DEF CatalogInv
<1> QED
  BY <1>1, CatalogInvariant, PTL

-----------------------------------------------------------------------------
(* The rows while synchronisations overlap *)

\* What all maps of the round want is granted or about to be, what none wants
\* is not or about to go.
RoundSound ==
  synced # {} =>
    /\ \A w \in Workers : Writing(w) => sync[w].map \in synced
    /\ \A x \in Granted :
         (\A map \in synced : x \in Desired(map)) =>
           \/ x \in rolePermissions
           \/ \E w \in Workers : sync[w].step = "create" /\ x \in sync[w].create
    /\ \A x \in rolePermissions :
         (\A map \in synced : x \notin Desired(map)) =>
           \E w \in Workers : Writing(w) /\ x \in sync[w].delete

\* A handler that neither writes rows nor is about to changes no round.
LEMMA RoundKept ==
  ASSUME CatalogInv, RoundSound, NEW w \in Workers, NEW y,
         Syncing(w, y), UNCHANGED <<rolePermissions, synced>>,
         ~Writing(w), y.step \notin {"create", "delete"}
  PROVE  RoundSound'
<1>1. \A v \in Workers : sync'[v] = IF v = w THEN y ELSE sync[v]
  BY DEF CatalogInv, CatalogTypeOK, Syncing
<1>2. \A v \in Workers : /\ Writing(v)' = Writing(v)
                         /\ Writing(v) => sync'[v] = sync[v]
                         /\ sync[v].step = "create" => sync'[v] = sync[v]
  BY <1>1 DEF Writing
<1>3. \A map : Desired(map)' = Desired(map)
  BY DEF Desired
<1> QED
  BY <1>2, <1>3 DEF RoundSound

\* The first of a round sets the goal; one that joins it weakens the goal.
LEMMA ReadGrantedRound ==
  ASSUME CatalogInv, RoundSound, NEW w \in Workers, ReadGranted(w)
  PROVE  RoundSound'
<1>1. PICK map : map = sync[w].map
  OBVIOUS
<1>2. sync[w] \in Sync /\ sync[w].step = "readGranted" /\ map \in Assignment
  BY <1>1 DEF CatalogInv, CatalogTypeOK, SyncsSound, SyncSound, ReadGranted, AtSync
<1>3. PICK y : y = [sync[w] EXCEPT !.step = "create", !.create = ToCreate(map),
                                   !.delete = ToDelete(map)]
  OBVIOUS
<1>4. /\ y.step = "create" /\ y.map = map
      /\ y.create = Desired(map) \ rolePermissions /\ y.delete = rolePermissions \ Desired(map)
  BY <1>1, <1>2, <1>3 DEF Sync, ToCreate, ToDelete
<1>5. /\ \A v \in Workers : sync'[v] = IF v = w THEN y ELSE sync[v]
      /\ rolePermissions' = rolePermissions
      /\ synced' = IF \A v \in Workers : ~Writing(v) THEN {map}
                   ELSE IF synced = {} THEN {} ELSE synced \cup {map}
  BY <1>1, <1>3 DEF ReadGranted, Syncing, CatalogInv, CatalogTypeOK
<1>6. \A m : Desired(m)' = Desired(m)
  BY DEF Desired
<1>7. /\ \A v \in Workers \ {w} : Writing(v)' = Writing(v) /\ sync'[v] = sync[v]
      /\ sync'[w] = y /\ Writing(w)'
  BY <1>4, <1>5 DEF Writing
<1>8. CASE \A v \in Workers : ~Writing(v)
  <2>1. synced' = {map}
    BY <1>5, <1>8
  <2>2. \A v \in Workers : Writing(v)' => v = w
    BY <1>7, <1>8
  <2>3. \A x \in Desired(map) : x \in rolePermissions \/ x \in y.create
    BY <1>4
  <2>4. \A x \in rolePermissions : x \notin Desired(map) => x \in y.delete
    BY <1>4
  <2> QED
    BY <1>4, <1>5, <1>6, <1>7, <2>1, <2>2, <2>3, <2>4 DEF RoundSound
<1>9. CASE (\E v \in Workers : Writing(v)) /\ synced # {}
  <2>1. synced' = synced \cup {map}
    BY <1>5, <1>9
  <2>2. \A v \in Workers : Writing(v)' => sync'[v].map \in synced'
    BY <1>4, <1>7, <1>9, <2>1 DEF RoundSound
  <2>3. ASSUME NEW x \in Granted, \A m \in synced' : x \in Desired(m), x \notin rolePermissions
        PROVE  \E v \in Workers : sync'[v].step = "create" /\ x \in sync'[v].create
    <3>1. PICK v \in Workers : sync[v].step = "create" /\ x \in sync[v].create
      BY <1>9, <2>1, <2>3 DEF RoundSound
    <3>2. v # w
      BY <1>2, <3>1
    <3> QED
      BY <1>7, <3>1, <3>2
  <2>4. ASSUME NEW x \in rolePermissions, \A m \in synced' : x \notin Desired(m)
        PROVE  \E v \in Workers : Writing(v)' /\ x \in sync'[v].delete
    <3>1. PICK v \in Workers : Writing(v) /\ x \in sync[v].delete
      BY <1>9, <2>1, <2>4 DEF RoundSound
    <3>2. v # w
      BY <1>2, <3>1 DEF Writing
    <3> QED
      BY <1>7, <3>1, <3>2
  <2> QED
    BY <1>5, <1>6, <2>2, <2>3, <2>4 DEF RoundSound
<1>10. CASE (\E v \in Workers : Writing(v)) /\ synced = {}
  BY <1>5, <1>10 DEF RoundSound
<1> QED
  BY <1>8, <1>9, <1>10

\* Only what a map of the round wants is added, and the handler keeps its list
\* of what to delete.
LEMMA CreateMissingRound ==
  ASSUME CatalogInv, RoundSound, NEW w \in Workers, CreateMissing(w)
  PROVE  RoundSound'
<1>1. sync[w] \in Sync /\ SyncSound(sync[w]) /\ sync[w].step = "create" /\ Writing(w)
  BY DEF CatalogInv, CatalogTypeOK, SyncsSound, CreateMissing, AtSync, Writing
<1>2. PICK y : y = [sync[w] EXCEPT !.step = "delete", !.create = {}]
  OBVIOUS
<1>3. y.step = "delete" /\ y.map = sync[w].map /\ y.delete = sync[w].delete
  BY <1>1, <1>2 DEF Sync
<1>4. /\ \A v \in Workers : sync'[v] = IF v = w THEN y ELSE sync[v]
      /\ rolePermissions' = rolePermissions \cup sync[w].create /\ synced' = synced
  BY <1>2 DEF CreateMissing, Syncing, CatalogInv, CatalogTypeOK
<1>5. \A m : Desired(m)' = Desired(m)
  BY DEF Desired
<1>6. \A v \in Workers : /\ Writing(v)' = Writing(v) /\ sync'[v].map = sync[v].map
                         /\ sync'[v].delete = sync[v].delete
                         /\ v # w => sync'[v] = sync[v]
  BY <1>1, <1>3, <1>4 DEF Writing
<1> SUFFICES ASSUME synced # {} PROVE RoundSound'
  BY <1>4 DEF RoundSound
<1>7. \A v \in Workers : Writing(v)' => sync'[v].map \in synced'
  BY <1>4, <1>6 DEF RoundSound
<1>8. ASSUME NEW x \in Granted, \A m \in synced : x \in Desired(m), x \notin rolePermissions'
      PROVE  \E v \in Workers : sync'[v].step = "create" /\ x \in sync'[v].create
  <2>1. PICK v \in Workers : sync[v].step = "create" /\ x \in sync[v].create
    BY <1>4, <1>8 DEF RoundSound
  <2>2. v # w
    BY <1>4, <1>8, <2>1
  <2> QED
    BY <1>6, <2>1, <2>2
<1>9. ASSUME NEW x \in rolePermissions', \A m \in synced : x \notin Desired(m)
      PROVE  \E v \in Workers : Writing(v)' /\ x \in sync'[v].delete
  <2>1. x \notin sync[w].create
    BY <1>1, <1>9 DEF SyncSound, RoundSound
  <2>2. PICK v \in Workers : Writing(v) /\ x \in sync[v].delete
    BY <1>4, <1>9, <2>1 DEF RoundSound
  <2> QED
    BY <1>6, <2>2
<1> QED
  BY <1>4, <1>5, <1>7, <1>8, <1>9 DEF RoundSound

\* Nothing that the maps of the round agree on is deleted.
LEMMA DeleteExtraRound ==
  ASSUME CatalogInv, RoundSound, NEW w \in Workers, DeleteExtra(w)
  PROVE  RoundSound'
<1>1. sync[w] \in Sync /\ SyncSound(sync[w]) /\ sync[w].step = "delete" /\ Writing(w)
  BY DEF CatalogInv, CatalogTypeOK, SyncsSound, DeleteExtra, AtSync, Writing
<1>2. PICK y : y = AfterSync(sync[w])
  OBVIOUS
<1>3. y.step \in {"idle", "readCurrent", "readSetting"}
  BY <1>2 DEF AfterSync, NoSync
<1>4. /\ \A v \in Workers : sync'[v] = IF v = w THEN y ELSE sync[v]
      /\ rolePermissions' = rolePermissions \ sync[w].delete /\ synced' = synced
  BY <1>2 DEF DeleteExtra, Syncing, CatalogInv, CatalogTypeOK
<1>5. \A m : Desired(m)' = Desired(m)
  BY DEF Desired
<1>6. /\ \A v \in Workers \ {w} : Writing(v)' = Writing(v) /\ sync'[v] = sync[v]
      /\ ~Writing(w)'
  BY <1>3, <1>4 DEF Writing
<1> SUFFICES ASSUME synced # {} PROVE RoundSound'
  BY <1>4 DEF RoundSound
<1>7. \A v \in Workers : Writing(v)' => sync'[v].map \in synced'
  BY <1>4, <1>6 DEF RoundSound
<1>8. ASSUME NEW x \in Granted, \A m \in synced : x \in Desired(m), x \notin rolePermissions'
      PROVE  \E v \in Workers : sync'[v].step = "create" /\ x \in sync'[v].create
  <2>1. x \notin sync[w].delete
    BY <1>1, <1>8 DEF SyncSound, RoundSound
  <2>2. PICK v \in Workers : sync[v].step = "create" /\ x \in sync[v].create
    BY <1>4, <1>8, <2>1 DEF RoundSound
  <2>3. v # w
    BY <1>1, <2>2
  <2> QED
    BY <1>6, <2>2, <2>3
<1>9. ASSUME NEW x \in rolePermissions', \A m \in synced : x \notin Desired(m)
      PROVE  \E v \in Workers : Writing(v)' /\ x \in sync'[v].delete
  <2>1. x \in rolePermissions /\ x \notin sync[w].delete
    BY <1>4, <1>9
  <2>2. PICK v \in Workers : Writing(v) /\ x \in sync[v].delete
    BY <1>9, <2>1 DEF RoundSound
  <2>3. v # w
    BY <2>1, <2>2
  <2> QED
    BY <1>6, <2>2, <2>3
<1> QED
  BY <1>4, <1>5, <1>7, <1>8, <1>9 DEF RoundSound

LEMMA RoundNext ==
  ASSUME CatalogInv, RoundSound, [AccessNext]_accessVars
  PROVE  RoundSound'
<1>1. ASSUME UNCHANGED <<rolePermissions, sync, synced>>
      PROVE  RoundSound'
  BY <1>1 DEF RoundSound, Writing, Desired
<1>2. ASSUME NEW w \in Workers, RoleStep(w)
      PROVE  RoundSound'
  <2>1. CASE \/ StartEnsure(w)
             \/ \E s \in Sections, roles \in RoleChoices : StartUpdateRoles(w, s, roles)
    <3>1. \E y : /\ Syncing(w, y) /\ y.step = "readSetting"
                 /\ UNCHANGED <<rolePermissions, synced>> /\ ~Writing(w)
      BY <2>1 DEF StartEnsure, StartUpdateRoles, NoSync, Writing, AtSync
    <3> QED
      BY <3>1, RoundKept
  <2>2. CASE ReadSetting(w) \/ WriteDefaults(w) \/ ReadCurrent(w) \/ WriteMerged(w)
    <3>1. sync[w] \in Sync
      BY DEF CatalogInv, CatalogTypeOK
    <3>2. \E y : /\ Syncing(w, y) /\ y.step \notin {"create", "delete"}
                 /\ UNCHANGED <<rolePermissions, synced>> /\ ~Writing(w)
      BY <2>2, <3>1
         DEF ReadSetting, WriteDefaults, ReadCurrent, WriteMerged, Sync, Writing, AtSync
    <3> QED
      BY <3>2, RoundKept
  <2>3. CASE DieInSync(w)
    <3>1. CASE Writing(w)
      BY <2>3, <3>1 DEF DieInSync, RoundSound
    <3>2. CASE ~Writing(w)
      <4>1. /\ Syncing(w, NoSync) /\ NoSync.step = "idle"
            /\ UNCHANGED <<rolePermissions, synced>>
        BY <2>3, <3>2 DEF DieInSync, NoSync
      <4> QED
        BY <3>2, <4>1, RoundKept
    <3> QED
      BY <3>1, <3>2
  <2> QED
    BY <1>2, <2>1, <2>2, <2>3, ReadGrantedRound, CreateMissingRound, DeleteExtraRound
       DEF RoleStep, ResumeSync
<1> QED
  BY <1>1, <1>2
     DEF AccessNext, RolesPart, AccountsPart, StartAccountCall, accessVars, catalogVars

\* Overlapping synchronisations of any number leave what their maps agree on,
\* whatever the rows were before: none of them may have died among its writes.
THEOREM GrantsFollow == AccessSpec => []GrantsFollowMaps
<1>1. AccessInit => RoundSound
  BY DEF AccessInit, CatalogInit, RoundSound
<1>2. CatalogInv /\ RoundSound /\ [AccessNext]_accessVars => RoundSound'
  BY RoundNext
<1>3. CatalogInv /\ RoundSound => GrantsFollowMaps
  BY DEF RoundSound, GrantsFollowMaps, Writing
<1> QED
  BY <1>1, <1>2, <1>3, CatalogInvariant, PTL DEF AccessSpec

-----------------------------------------------------------------------------
(* The accounts *)

Keys == {"email", "person", "microsoft", "local"}

\* The handler answers a callback.
Past(l) == l.state # None

\* What a handler in flight remembers.
LoginSound(l) ==
  /\ l.step = "commitAccount" =>
       /\ l.row \in UserRow /\ l.row.roles # {}
       /\ l.user # None => l.user \in DOMAIN users
  /\ l.step \in {"resetPassword", "assignRole", "consume", "createSession"} =>
       l.user \in DOMAIN users
  /\ l.step = "assignRole" => l.role \in Roles
  /\ l.step \in {"exchangeCode", "findUser", "createUser", "consume"} =>
       l.state \in DOMAIN states
  /\ l.step \in {"exchangeCode", "findUser", "createUser"} => l.email \in Emails
  /\ l.step = "upsertAdmin" => l.state = None

\* What its claim of a state is worth.
ClaimSound(l) ==
  Past(l) =>
    /\ l.state \in DOMAIN states
    /\ l.state \notin contended => \A k \in DOMAIN sessions : sessions[k].state # l.state
    /\ l.step = "createSession" => states[l.state]

LoginsSound == \A w \in Workers : LoginSound(login[w]) /\ ClaimSound(login[w])

ClaimsDiffer ==
  \A w, v \in Workers :
    w # v /\ Past(login[w]) /\ login[w].state = login[v].state => login[w].state \in contended

SessionsSound ==
  \A k \in DOMAIN sessions : sessions[k].state # None =>
    /\ sessions[k].state \in DOMAIN states
    /\ states[sessions[k].state]
    /\ sessions[k].state \notin contended =>
         \A m \in DOMAIN sessions : sessions[m].state = sessions[k].state => m = k

KeysUnique == \A u \in DOMAIN users : KeysAreUnique(u, users[u])

TablesTyped ==
  /\ users \in [DOMAIN users -> UserRow] /\ DOMAIN users \subseteq Users
  /\ states \in [DOMAIN states -> BOOLEAN] /\ DOMAIN states \subseteq States
  /\ sessions \in [DOMAIN sessions -> SessionRow] /\ DOMAIN sessions \subseteq Sessions
  /\ orphans \subseteq Users /\ contended \subseteq States

AccountInv ==
  /\ TablesTyped
  /\ login \in [Workers -> Login]
  /\ LoginsSound /\ ClaimsDiffer
  /\ SessionsSound /\ KeysUnique /\ AccountsHaveRoles

-----------------------------------------------------------------------------
(* What the steps have in common *)

\* Who lacks a role after the step had none before, and was waiting for another
\* handler; or the handler of the step has just created it.
RolesWanted(w, l) ==
  \A u \in DOMAIN users' \ orphans' :
    users'[u].roles = {} =>
      \/ /\ u \in DOMAIN users \ orphans /\ users[u].roles = {}
         /\ ~(login[w].step = "assignRole" /\ login[w].user = u)
      \/ l.step = "assignRole" /\ l.user = u

LEMMA RolesKept ==
  ASSUME AccountInv, NEW w \in Workers, NEW l \in Login, LoggingIn(w, l), RolesWanted(w, l)
  PROVE  AccountsHaveRoles'
<1>1. \A v \in Workers : login'[v] = IF v = w THEN l ELSE login[v]
  BY DEF AccountInv, LoggingIn
<1> SUFFICES ASSUME NEW u \in DOMAIN users' \ orphans', users'[u].roles = {}
             PROVE  \E v \in Workers : login'[v].step = "assignRole" /\ login'[v].user = u
  BY DEF AccountsHaveRoles, AtLogin
<1>2. CASE l.step = "assignRole" /\ l.user = u
  BY <1>1, <1>2
<1>3. CASE /\ u \in DOMAIN users \ orphans /\ users[u].roles = {}
           /\ ~(login[w].step = "assignRole" /\ login[w].user = u)
  <2>1. PICK v \in Workers : login[v].step = "assignRole" /\ login[v].user = u
    BY <1>3 DEF AccountInv, AccountsHaveRoles, AtLogin
  <2> QED
    BY <1>1, <1>3, <2>1
<1> QED
  BY <1>2, <1>3 DEF RolesWanted

\* One handler remembers something else, and the tables grow: what the others
\* remember stays sound.
LEMMA Step ==
  ASSUME AccountInv, NEW w \in Workers, NEW l \in Login, LoggingIn(w, l),
         TablesTyped', SessionsSound', KeysUnique', RolesWanted(w, l),
         LoginSound(l)', ClaimSound(l)',
         DOMAIN users \subseteq DOMAIN users',
         DOMAIN states \subseteq DOMAIN states',
         \A s \in DOMAIN states : states[s] => states'[s],
         contended \subseteq contended',
         \A v \in Workers \ {w} : Past(login[v]) /\ login[v].state \notin contended' =>
           /\ \A k \in DOMAIN sessions' : sessions'[k].state # login[v].state
           /\ Past(l) => l.state # login[v].state
  PROVE  AccountInv'
<1>1. /\ \A v \in Workers : login'[v] = IF v = w THEN l ELSE login[v]
      /\ login' \in [Workers -> Login]
  BY DEF AccountInv, LoggingIn
<1>2. ASSUME NEW v \in Workers, v # w
      PROVE  LoginSound(login[v])' /\ ClaimSound(login[v])'
  <2>1. PICK z : z = login[v] /\ z = login'[v]
    BY <1>1, <1>2
  <2>2. LoginSound(z) /\ ClaimSound(z)
    BY <2>1 DEF AccountInv, LoginsSound
  <2>3. LoginSound(z)'
    BY <2>2 DEF LoginSound
  <2>4. ClaimSound(z)'
    BY <1>2, <2>1, <2>2 DEF ClaimSound, Past
  <2> QED
    BY <2>1, <2>3, <2>4
<1>3. LoginsSound'
  <2>1. LoginSound(login[w])' /\ ClaimSound(login[w])'
    BY <1>1
  <2> QED
    BY <1>2, <2>1 DEF LoginsSound
<1>4. ClaimsDiffer'
  BY <1>1 DEF AccountInv, ClaimsDiffer, Past
<1>5. AccountsHaveRoles'
  BY RolesKept
<1> QED
  BY <1>1, <1>3, <1>4, <1>5 DEF AccountInv

\* A step that writes users alone.
LEMMA UsersStep ==
  ASSUME AccountInv, NEW w \in Workers, NEW l \in Login, LoggingIn(w, l),
         UNCHANGED <<states, sessions, orphans, contended>>,
         users' \in [DOMAIN users' -> UserRow], DOMAIN users' \subseteq Users,
         DOMAIN users \subseteq DOMAIN users',
         KeysUnique', RolesWanted(w, l), LoginSound(l)', ClaimSound(l),
         Past(l) => l.state = login[w].state
  PROVE  AccountInv'
<1>1. TablesTyped' /\ SessionsSound'
  BY DEF AccountInv, TablesTyped, SessionsSound
<1>2. ClaimSound(l)'
  BY DEF ClaimSound, Past
<1>3. ASSUME NEW v \in Workers \ {w}, Past(login[v]), login[v].state \notin contended'
      PROVE  /\ \A k \in DOMAIN sessions' : sessions'[k].state # login[v].state
             /\ Past(l) => l.state # login[v].state
  BY <1>3 DEF AccountInv, LoginsSound, ClaimSound, ClaimsDiffer, Past
<1> QED
  BY <1>1, <1>2, <1>3, Step

\* A step that changes what a handler remembers and no table.
LEMMA OnlyLogin ==
  ASSUME AccountInv, NEW w \in Workers, NEW l \in Login, LoggingIn(w, l),
         UNCHANGED <<users, states, sessions, orphans, contended>>,
         LoginSound(l), ClaimSound(l),
         Past(l) => l.state = login[w].state,
         login[w].step # "assignRole"
  PROVE  AccountInv'
<1>1. LoginSound(l)' /\ KeysUnique' /\ RolesWanted(w, l)
  BY DEF LoginSound, AccountInv, KeysUnique, KeysAreUnique, UsersWith, RolesWanted
<1> QED
  BY <1>1, UsersStep DEF AccountInv, TablesTyped

-----------------------------------------------------------------------------
(* The unique keys *)

\* A row that breaks no key is written, and none is broken; another is not.
LEMMA UserWritten ==
  ASSUME TablesTyped, KeysUnique, NEW u \in Users, NEW row \in UserRow, WriteUser(u, row)
  PROVE  /\ users' \in [DOMAIN users' -> UserRow] /\ DOMAIN users' \subseteq Users
         /\ DOMAIN users \subseteq DOMAIN users'
         /\ KeysUnique'
         /\ \A v \in DOMAIN users' : v # u => v \in DOMAIN users /\ users'[v] = users[v]
         /\ IF KeysAreUnique(u, row) THEN u \in DOMAIN users' /\ users'[u] = row
                                     ELSE users' = users
<1>1. CASE ~KeysAreUnique(u, row)
  <2>1. users' = users
    BY <1>1 DEF WriteUser
  <2> QED
    BY <1>1, <2>1 DEF TablesTyped, KeysUnique, KeysAreUnique, UsersWith
<1>2. CASE KeysAreUnique(u, row)
  <2>1. /\ DOMAIN users' = DOMAIN users \cup {u}
        /\ \A v \in DOMAIN users' : users'[v] = IF v = u THEN row ELSE users[v]
        /\ users' \in [DOMAIN users' -> UserRow] /\ DOMAIN users' \subseteq Users
    BY <1>2 DEF WriteUser, Put, TablesTyped
  <2>2. ASSUME NEW v \in DOMAIN users', NEW column \in Keys,
               users'[v][column] # None,
               NEW x \in DOMAIN users', users'[x][column] = users'[v][column], x # v
        PROVE  FALSE
    <3>1. CASE v = u
      BY <1>2, <2>1, <2>2, <3>1 DEF KeysAreUnique, UsersWith, Keys
    <3>2. CASE x = u
      BY <1>2, <2>1, <2>2, <3>2 DEF KeysAreUnique, UsersWith, Keys
    <3>3. CASE v # u /\ x # u
      <4>1. /\ v \in DOMAIN users /\ users'[v] = users[v]
            /\ x \in DOMAIN users /\ users'[x] = users[x]
        BY <2>1, <3>3
      <4> QED
        BY <2>2, <4>1 DEF KeysUnique, KeysAreUnique, UsersWith, Keys
    <3> QED
      BY <3>1, <3>2, <3>3
  <2>3. KeysUnique'
    BY <2>2 DEF KeysUnique, KeysAreUnique, UsersWith, Keys
  <2> QED
    BY <1>2, <2>1, <2>3
<1> QED
  BY <1>1, <1>2

\* Writing another column of a row breaks none.
LEMMA KeysKept ==
  ASSUME KeysUnique, DOMAIN users' = DOMAIN users,
         \A v \in DOMAIN users : /\ users'[v].email = users[v].email
                                 /\ users'[v].person = users[v].person
                                 /\ users'[v].microsoft = users[v].microsoft
                                 /\ users'[v].local = users[v].local
  PROVE  KeysUnique'
<1>1. \A v \in DOMAIN users, column \in Keys : users'[v][column] = users[v][column]
  BY DEF Keys
<1> QED
  BY <1>1 DEF KeysUnique, KeysAreUnique, UsersWith, Keys

-----------------------------------------------------------------------------
(* One lemma per action of Accounts *)

LEMMA StartUpsertAccountStep ==
  ASSUME AccountInv, NEW w \in Workers, NEW row \in AccountRows, StartUpsertAccount(w, row)
  PROVE  AccountInv'
<1>1. PICK linked : linked = UsersWith("person", row.person)
  OBVIOUS
<1>2. PICK u : u = IF linked = {} THEN None ELSE CHOOSE v \in linked : TRUE
  OBVIOUS
<1>3. u # None => u \in DOMAIN users
  BY <1>1, <1>2 DEF UsersWith
<1>4. PICK l : l = [NoLogin EXCEPT !.step = "commitAccount", !.row = row, !.user = u]
  OBVIOUS
<1>5. /\ l.step = "commitAccount" /\ l.row = row /\ l.user = u /\ l.state = None
      /\ l \in Login
  BY <1>3, <1>4, AccountRowsAssumption
     DEF NoLogin, Login, LoginStep, AccountInv, TablesTyped
<1>6. LoggingIn(w, l) /\ UNCHANGED <<users, states, sessions, orphans, contended>>
  BY <1>1, <1>2, <1>4 DEF StartUpsertAccount
<1>7. row.roles # {} /\ login[w].step = "idle"
  BY DEF StartUpsertAccount, AtLogin
<1>8. LoginSound(l) /\ ClaimSound(l) /\ ~Past(l)
  BY <1>3, <1>5, <1>7, AccountRowsAssumption DEF LoginSound, ClaimSound, Past
<1> QED
  BY <1>5, <1>6, <1>7, <1>8, OnlyLogin

LEMMA CommitAccountStep ==
  ASSUME AccountInv, NEW w \in Workers, CommitAccount(w)
  PROVE  AccountInv'
<1>1. /\ login[w] \in Login /\ login[w].step = "commitAccount"
      /\ LoginSound(login[w])
  BY DEF CommitAccount, AtLogin, AccountInv, LoginsSound
<1>2. PICK u \in Users : WriteUser(u, login[w].row)
  BY DEF CommitAccount
<1>3. PICK row : row = login[w].row
  OBVIOUS
<1>4. row \in UserRow /\ row.roles # {} /\ WriteUser(u, row)
  BY <1>1, <1>2, <1>3 DEF LoginSound
<1>5. /\ users' \in [DOMAIN users' -> UserRow] /\ DOMAIN users' \subseteq Users
      /\ DOMAIN users \subseteq DOMAIN users'
      /\ KeysUnique'
      /\ \A v \in DOMAIN users' : v # u => v \in DOMAIN users /\ users'[v] = users[v]
      /\ IF KeysAreUnique(u, row) THEN u \in DOMAIN users' /\ users'[u] = row
                                  ELSE users' = users
  BY <1>4, UserWritten DEF AccountInv
<1>6. NoLogin \in Login /\ NoLogin.step = "idle"
  BY DEF NoLogin, Login, LoginStep
<1>7. LoggingIn(w, NoLogin) /\ UNCHANGED <<states, sessions, orphans, contended>>
  BY DEF CommitAccount, LoginDone
<1>8. RolesWanted(w, NoLogin)
  BY <1>1, <1>4, <1>5, <1>7 DEF RolesWanted
<1>9. LoginSound(NoLogin)' /\ ClaimSound(NoLogin) /\ ~Past(NoLogin)
  BY <1>6 DEF LoginSound, ClaimSound, Past, NoLogin
<1> QED
  BY <1>5, <1>6, <1>7, <1>8, <1>9, UsersStep

LEMMA StartResetPasswordStep ==
  ASSUME AccountInv, NEW w \in Workers, NEW u \in Users, StartResetPassword(w, u)
  PROVE  AccountInv'
<1>1. PICK l : l = [NoLogin EXCEPT !.step = "resetPassword", !.user = u]
  OBVIOUS
<1>2. l \in Login /\ l.step = "resetPassword" /\ l.user = u /\ l.state = None
  BY <1>1 DEF NoLogin, Login, LoginStep
<1>3. LoggingIn(w, l) /\ UNCHANGED <<users, states, sessions, orphans, contended>>
  BY <1>1 DEF StartResetPassword
<1>4. login[w].step = "idle" /\ u \in DOMAIN users
  BY DEF StartResetPassword, AtLogin
<1>5. LoginSound(l) /\ ClaimSound(l) /\ ~Past(l)
  BY <1>2, <1>4 DEF LoginSound, ClaimSound, Past
<1> QED
  BY <1>2, <1>3, <1>4, <1>5, OnlyLogin

LEMMA ResetPasswordStep ==
  ASSUME AccountInv, NEW w \in Workers, ResetPassword(w)
  PROVE  AccountInv'
<1>1. /\ login[w] \in Login /\ login[w].step = "resetPassword" /\ LoginSound(login[w])
  BY DEF ResetPassword, AtLogin, AccountInv, LoginsSound
<1>2. PICK u : u = login[w].user /\ u \in DOMAIN users
  BY <1>1 DEF LoginSound
<1>3. /\ users' = [users EXCEPT ![u].rotate = TRUE]
      /\ LoggingIn(w, NoLogin) /\ UNCHANGED <<states, sessions, orphans, contended>>
  BY <1>2 DEF ResetPassword, LoginDone
<1>4. users[u] \in UserRow
  BY <1>2 DEF AccountInv, TablesTyped
<1>5. /\ users' \in [DOMAIN users' -> UserRow] /\ DOMAIN users' = DOMAIN users
      /\ \A v \in DOMAIN users :
           /\ users'[v].email = users[v].email /\ users'[v].person = users[v].person
           /\ users'[v].microsoft = users[v].microsoft /\ users'[v].local = users[v].local
           /\ users'[v].roles = users[v].roles
  BY <1>3, <1>4 DEF AccountInv, TablesTyped, UserRow
<1>6. KeysUnique'
  BY <1>5, KeysKept DEF AccountInv
<1>7. NoLogin \in Login /\ NoLogin.step = "idle"
  BY DEF NoLogin, Login, LoginStep
<1>8. RolesWanted(w, NoLogin)
  BY <1>1, <1>3, <1>5 DEF RolesWanted
<1>9. LoginSound(NoLogin)' /\ ClaimSound(NoLogin) /\ ~Past(NoLogin)
  BY <1>7 DEF LoginSound, ClaimSound, Past, NoLogin
<1> QED
  BY <1>3, <1>5, <1>6, <1>7, <1>8, <1>9, UsersStep DEF AccountInv, TablesTyped

LEMMA BuildAuthorizeRedirectStep ==
  ASSUME AccountInv, NEW w \in Workers, NEW s \in States, BuildAuthorizeRedirect(w, s)
  PROVE  AccountInv'
<1>1. PICK l : l = login[w]
  OBVIOUS
<1>2. l \in Login /\ l.step = "idle" /\ LoggingIn(w, l)
  BY <1>1 DEF BuildAuthorizeRedirect, AtLogin, AccountInv, LoggingIn
<1>3. /\ s \notin DOMAIN states /\ DOMAIN states' = DOMAIN states \cup {s}
      /\ \A x \in DOMAIN states : states'[x] = states[x]
      /\ states' \in [DOMAIN states' -> BOOLEAN]
      /\ UNCHANGED <<users, sessions, orphans, contended>>
  BY DEF BuildAuthorizeRedirect, Put, AccountInv, TablesTyped
<1>4. TablesTyped' /\ KeysUnique'
  BY <1>3 DEF AccountInv, TablesTyped, KeysUnique, KeysAreUnique, UsersWith
<1>5. SessionsSound'
  BY <1>3 DEF AccountInv, TablesTyped, SessionsSound
<1>6. RolesWanted(w, l) /\ LoginSound(l)' /\ ClaimSound(l)'
  BY <1>1, <1>2, <1>3 DEF AccountInv, LoginsSound, RolesWanted, LoginSound, ClaimSound, Past
<1>7. ASSUME NEW v \in Workers \ {w}, Past(login[v]), login[v].state \notin contended'
      PROVE  /\ \A k \in DOMAIN sessions' : sessions'[k].state # login[v].state
             /\ Past(l) => l.state # login[v].state
  BY <1>1, <1>3, <1>7 DEF AccountInv, LoginsSound, ClaimSound, ClaimsDiffer, Past
<1> QED
  BY <1>2, <1>3, <1>4, <1>5, <1>6, <1>7, Step DEF AccountInv, TablesTyped

LEMMA StartCallbackStep ==
  ASSUME AccountInv, NEW w \in Workers, NEW s \in States, NEW i \in Identities,
         NEW e \in Emails, StartCallback(w, s, i, e)
  PROVE  AccountInv'
<1>1. PICK l : l = [NoLogin EXCEPT !.step = "exchangeCode", !.state = s,
                                   !.identity = i, !.email = e]
  OBVIOUS
<1>2. l \in Login /\ l.step = "exchangeCode" /\ l.state = s /\ l.email = e
  BY <1>1 DEF NoLogin, Login, LoginStep
<1>3. /\ LoggingIn(w, l) /\ UNCHANGED <<users, states, sessions, orphans>>
      /\ contended' = contended \cup {x \in {s} : \E v \in Workers : login[v].state = x}
  BY <1>1 DEF StartCallback
<1>4. login[w].step = "idle" /\ s \in DOMAIN states /\ ~states[s]
  BY DEF StartCallback, OpenState, AtLogin
<1>5. TablesTyped' /\ KeysUnique' /\ SessionsSound'
  BY <1>3 DEF AccountInv, TablesTyped, KeysUnique, KeysAreUnique, UsersWith, SessionsSound
<1>6. RolesWanted(w, l) /\ LoginSound(l)'
  BY <1>2, <1>3, <1>4 DEF RolesWanted, LoginSound
<1>7. ClaimSound(l)'
  BY <1>2, <1>3, <1>4 DEF ClaimSound, AccountInv, SessionsSound, Past
<1>8. ASSUME NEW v \in Workers \ {w}, Past(login[v]), login[v].state \notin contended'
      PROVE  /\ \A k \in DOMAIN sessions' : sessions'[k].state # login[v].state
             /\ l.state # login[v].state
  BY <1>2, <1>3, <1>8 DEF AccountInv, LoginsSound, ClaimSound, Past
<1> QED
  BY <1>2, <1>3, <1>5, <1>6, <1>7, <1>8, Step

LEMMA ExchangeCodeStep ==
  ASSUME AccountInv, NEW w \in Workers, ExchangeCode(w)
  PROVE  AccountInv'
<1>1. /\ login[w] \in Login /\ login[w].step = "exchangeCode"
      /\ LoginSound(login[w]) /\ ClaimSound(login[w])
  BY DEF ExchangeCode, AtLogin, AccountInv, LoginsSound
<1>2. UNCHANGED <<users, states, sessions, orphans, contended>>
  BY DEF ExchangeCode
<1>3. CASE LoggingIn(w, [login[w] EXCEPT !.step = "findUser"])
  <2>1. PICK l : l = [login[w] EXCEPT !.step = "findUser"]
    OBVIOUS
  <2>2. /\ l \in Login /\ l.step = "findUser" /\ l.state = login[w].state
        /\ l.email = login[w].email /\ LoggingIn(w, l)
    BY <1>1, <1>3, <2>1 DEF Login, LoginStep
  <2>3. LoginSound(l) /\ ClaimSound(l)
    BY <1>1, <2>2 DEF LoginSound, ClaimSound, Past
  <2> QED
    BY <1>1, <1>2, <2>2, <2>3, OnlyLogin
<1>4. CASE LoginDone(w)
  <2>1. NoLogin \in Login /\ NoLogin.step = "idle" /\ LoggingIn(w, NoLogin)
    BY <1>4 DEF NoLogin, Login, LoginStep, LoginDone
  <2>2. LoginSound(NoLogin) /\ ClaimSound(NoLogin) /\ ~Past(NoLogin)
    BY <2>1 DEF LoginSound, ClaimSound, Past, NoLogin
  <2> QED
    BY <1>1, <1>2, <2>1, <2>2, OnlyLogin
<1> QED
  BY <1>3, <1>4 DEF ExchangeCode

LEMMA FindUserStep ==
  ASSUME AccountInv, NEW w \in Workers, FindUser(w)
  PROVE  AccountInv'
<1>1. PICK known : known = UsersWith("microsoft", login[w].identity)
  OBVIOUS
<1>2. PICK u : u = CHOOSE v \in known : TRUE
  OBVIOUS
<1>3. known # {} => u \in DOMAIN users
  BY <1>1, <1>2 DEF UsersWith
<1>4. /\ login[w] \in Login /\ login[w].step = "findUser"
      /\ LoginSound(login[w]) /\ ClaimSound(login[w])
  BY DEF FindUser, AtLogin, AccountInv, LoginsSound
<1>5. login[w].state \in DOMAIN states /\ login[w].state # None /\ login[w].email \in Emails
  BY <1>4, AccountsAssumption DEF LoginSound, AccountInv, TablesTyped
<1>6. UNCHANGED <<users, states, sessions, orphans, contended>>
  BY DEF FindUser
<1>7. CASE known # {}
  <2>1. PICK l : l = [login[w] EXCEPT !.step = "consume", !.user = u]
    OBVIOUS
  <2>2. /\ l \in Login /\ l.step = "consume" /\ l.user = u /\ l.state = login[w].state
    BY <1>3, <1>4, <1>7, <2>1 DEF Login, LoginStep, AccountInv, TablesTyped
  <2>3. LoggingIn(w, l)
    BY <1>1, <1>2, <1>7, <2>1 DEF FindUser
  <2>4. LoginSound(l) /\ ClaimSound(l)
    BY <1>3, <1>4, <1>5, <1>7, <2>2 DEF LoginSound, ClaimSound, Past
  <2> QED
    BY <1>4, <1>6, <2>2, <2>3, <2>4, OnlyLogin
<1>8. CASE known = {} /\ Jit
  <2>1. PICK l : l = [login[w] EXCEPT !.step = "createUser"]
    OBVIOUS
  <2>2. /\ l \in Login /\ l.step = "createUser" /\ l.state = login[w].state
        /\ l.email = login[w].email
    BY <1>4, <2>1 DEF Login, LoginStep
  <2>3. LoggingIn(w, l)
    BY <1>1, <1>8, <2>1 DEF FindUser
  <2>4. LoginSound(l) /\ ClaimSound(l)
    BY <1>4, <1>5, <2>2 DEF LoginSound, ClaimSound, Past
  <2> QED
    BY <1>4, <1>6, <2>2, <2>3, <2>4, OnlyLogin
<1>9. CASE known = {} /\ ~Jit
  <2>1. LoggingIn(w, NoLogin)
    BY <1>1, <1>9 DEF FindUser
  <2>2. NoLogin \in Login /\ NoLogin.step = "idle"
    BY DEF NoLogin, Login, LoginStep
  <2>3. LoginSound(NoLogin) /\ ClaimSound(NoLogin) /\ ~Past(NoLogin)
    BY <2>2 DEF LoginSound, ClaimSound, Past, NoLogin
  <2> QED
    BY <1>4, <1>6, <2>1, <2>2, <2>3, OnlyLogin
<1> QED
  BY <1>7, <1>8, <1>9

LEMMA CreateUserStep ==
  ASSUME AccountInv, NEW w \in Workers, CreateUser(w)
  PROVE  AccountInv'
<1>1. PICK row : row = JitRow(login[w])
  OBVIOUS
<1>2. /\ login[w] \in Login /\ login[w].step = "createUser"
      /\ LoginSound(login[w]) /\ ClaimSound(login[w])
  BY DEF CreateUser, AtLogin, AccountInv, LoginsSound
<1>3. login[w].state \in DOMAIN states /\ login[w].state # None /\ login[w].email \in Emails
  BY <1>2, AccountsAssumption DEF LoginSound, AccountInv, TablesTyped
<1>4. row \in UserRow
  BY <1>1, <1>2, <1>3 DEF JitRow, UserRow, UserStatus, Login
<1>5. PICK u \in Users :
        /\ FreshUser(u) /\ WriteUser(u, row)
        /\ LoggingIn(w, IF KeysAreUnique(u, row)
                        THEN [login[w] EXCEPT !.step = "assignRole", !.user = u, !.role = Guest]
                        ELSE NoLogin)
  BY <1>1 DEF CreateUser
<1>6. /\ users' \in [DOMAIN users' -> UserRow] /\ DOMAIN users' \subseteq Users
      /\ DOMAIN users \subseteq DOMAIN users'
      /\ KeysUnique'
      /\ \A v \in DOMAIN users' : v # u => v \in DOMAIN users /\ users'[v] = users[v]
      /\ IF KeysAreUnique(u, row) THEN u \in DOMAIN users' /\ users'[u] = row
                                  ELSE users' = users
  BY <1>4, <1>5, UserWritten DEF AccountInv
<1>7. UNCHANGED <<states, sessions, orphans, contended>>
  BY DEF CreateUser
<1>8. CASE KeysAreUnique(u, row)
  <2>1. PICK l : l = [login[w] EXCEPT !.step = "assignRole", !.user = u, !.role = Guest]
    OBVIOUS
  <2>2. /\ l \in Login /\ l.step = "assignRole" /\ l.state = login[w].state
        /\ l.user = u /\ l.role \in Roles
    BY <1>2, <2>1, AccountsAssumption DEF Login, LoginStep
  <2>3. LoggingIn(w, l)
    BY <1>5, <1>8, <2>1
  <2>4. LoginSound(l)'
    BY <1>6, <1>8, <2>2 DEF LoginSound
  <2>5. ClaimSound(l)
    BY <1>2, <1>3, <2>2 DEF ClaimSound, Past
  <2>6. RolesWanted(w, l)
    BY <1>2, <1>6, <1>7, <2>2 DEF RolesWanted
  <2> QED
    BY <1>6, <1>7, <2>2, <2>3, <2>4, <2>5, <2>6, UsersStep
<1>9. CASE ~KeysAreUnique(u, row)
  <2>1. LoggingIn(w, NoLogin)
    BY <1>5, <1>9
  <2>2. NoLogin \in Login /\ NoLogin.step = "idle"
    BY DEF NoLogin, Login, LoginStep
  <2>3. LoginSound(NoLogin)' /\ ClaimSound(NoLogin) /\ ~Past(NoLogin)
    BY <2>2 DEF LoginSound, ClaimSound, Past, NoLogin
  <2>4. RolesWanted(w, NoLogin)
    BY <1>2, <1>6, <1>7, <1>9 DEF RolesWanted
  <2> QED
    BY <1>6, <1>7, <2>1, <2>2, <2>3, <2>4, UsersStep
<1> QED
  BY <1>8, <1>9

LEMMA AssignRoleStep ==
  ASSUME AccountInv, NEW w \in Workers, AssignRole(w)
  PROVE  AccountInv'
<1>1. /\ login[w] \in Login /\ login[w].step = "assignRole"
      /\ LoginSound(login[w]) /\ ClaimSound(login[w])
  BY DEF AssignRole, AtLogin, AccountInv, LoginsSound
<1>2. PICK u, role : u = login[w].user /\ role = login[w].role
  OBVIOUS
<1>3. u \in DOMAIN users /\ role \in Roles
  BY <1>1, <1>2 DEF LoginSound
<1>4. PICK step : step = IF login[w].state = None THEN "createSession" ELSE "consume"
  OBVIOUS
<1>5. PICK l : l = [login[w] EXCEPT !.step = step]
  OBVIOUS
<1>6. /\ l \in Login /\ l.step = step /\ l.state = login[w].state /\ l.user = u
  BY <1>1, <1>2, <1>4, <1>5 DEF Login, LoginStep
<1>7. /\ users' = [users EXCEPT ![u].roles = @ \cup {role}]
      /\ LoggingIn(w, l) /\ UNCHANGED <<states, sessions, orphans, contended>>
  BY <1>2, <1>4, <1>5 DEF AssignRole, RoleGiven
<1>8. users[u] \in UserRow
  BY <1>3 DEF AccountInv, TablesTyped
<1>9. /\ users' \in [DOMAIN users' -> UserRow] /\ DOMAIN users' = DOMAIN users
      /\ \A v \in DOMAIN users :
           /\ users'[v].email = users[v].email /\ users'[v].person = users[v].person
           /\ users'[v].microsoft = users[v].microsoft /\ users'[v].local = users[v].local
      /\ \A v \in DOMAIN users : v # u => users'[v] = users[v]
      /\ role \in users'[u].roles
  BY <1>3, <1>7, <1>8 DEF AccountInv, TablesTyped, UserRow
<1>10. KeysUnique'
  BY <1>9, KeysKept DEF AccountInv
<1>11. RolesWanted(w, l)
  BY <1>2, <1>7, <1>9 DEF RolesWanted
<1>12. LoginSound(l)'
  <2>1. CASE login[w].state = None
    BY <1>3, <1>4, <1>6, <1>9, <2>1 DEF LoginSound
  <2>2. CASE login[w].state # None
    <3>1. l.state \in DOMAIN states
      BY <1>1, <1>6, <2>2 DEF ClaimSound, Past
    <3> QED
      BY <1>3, <1>4, <1>6, <1>7, <1>9, <2>2, <3>1 DEF LoginSound
  <2> QED
    BY <2>1, <2>2
<1>13. ClaimSound(l)
  BY <1>1, <1>4, <1>6 DEF ClaimSound, Past
<1> QED
  BY <1>6, <1>7, <1>9, <1>10, <1>11, <1>12, <1>13, UsersStep DEF AccountInv, TablesTyped

LEMMA ConsumeStep ==
  ASSUME AccountInv, NEW w \in Workers, Consume(w)
  PROVE  AccountInv'
<1>1. /\ login[w] \in Login /\ login[w].step = "consume"
      /\ LoginSound(login[w]) /\ ClaimSound(login[w])
  BY DEF Consume, AtLogin, AccountInv, LoginsSound
<1>2. PICK s : s = login[w].state
  OBVIOUS
<1>3. s \in DOMAIN states /\ s # None /\ Past(login[w])
  BY <1>1, <1>2, AccountsAssumption DEF LoginSound, AccountInv, TablesTyped, Past
<1>4. PICK l : l = [login[w] EXCEPT !.step = "createSession"]
  OBVIOUS
<1>5. /\ l \in Login /\ l.step = "createSession" /\ l.state = s /\ l.user = login[w].user
  BY <1>1, <1>2, <1>4 DEF Login, LoginStep
<1>6. /\ states' = [states EXCEPT ![s] = TRUE]
      /\ LoggingIn(w, l) /\ UNCHANGED <<users, sessions, orphans, contended>>
  BY <1>2, <1>4 DEF Consume
<1>7. /\ DOMAIN states' = DOMAIN states /\ states' \in [DOMAIN states' -> BOOLEAN]
      /\ \A x \in DOMAIN states : states[x] => states'[x]
      /\ states'[s] = TRUE
  BY <1>3, <1>6 DEF AccountInv, TablesTyped
<1>8. TablesTyped' /\ KeysUnique' /\ SessionsSound'
  BY <1>6, <1>7
     DEF AccountInv, TablesTyped, KeysUnique, KeysAreUnique, UsersWith, SessionsSound
<1>9. RolesWanted(w, l) /\ LoginSound(l)' /\ ClaimSound(l)'
  BY <1>1, <1>2, <1>3, <1>5, <1>6, <1>7 DEF RolesWanted, LoginSound, ClaimSound, Past
<1>10. ASSUME NEW v \in Workers \ {w}, Past(login[v]), login[v].state \notin contended'
       PROVE  /\ \A k \in DOMAIN sessions' : sessions'[k].state # login[v].state
              /\ l.state # login[v].state
  BY <1>2, <1>3, <1>5, <1>6, <1>10 DEF AccountInv, LoginsSound, ClaimSound, ClaimsDiffer, Past
<1> QED
  BY <1>5, <1>6, <1>7, <1>8, <1>9, <1>10, Step

\* The session takes over the claim of its handler.
LEMMA CreateSessionStep ==
  ASSUME AccountInv, NEW w \in Workers, CreateSession(w)
  PROVE  AccountInv'
<1>1. /\ login[w] \in Login /\ login[w].step = "createSession"
      /\ LoginSound(login[w]) /\ ClaimSound(login[w])
  BY DEF CreateSession, AtLogin, AccountInv, LoginsSound
<1>2. PICK u, s : u = login[w].user /\ s = login[w].state
  OBVIOUS
<1>3. /\ u \in DOMAIN users /\ u \in Users
      /\ s # None => /\ s \in DOMAIN states /\ states[s]
                     /\ s \notin contended =>
                          \A k \in DOMAIN sessions : sessions[k].state # s
  BY <1>1, <1>2 DEF LoginSound, ClaimSound, Past, AccountInv, TablesTyped
<1>4. /\ users' = [users EXCEPT ![u].status = "ACTIVE"]
      /\ LoggingIn(w, NoLogin) /\ UNCHANGED <<states, orphans, contended>>
  BY <1>2 DEF CreateSession, LoginDone
<1>5. users[u] \in UserRow
  BY <1>3 DEF AccountInv, TablesTyped
<1>6. /\ users' \in [DOMAIN users' -> UserRow] /\ DOMAIN users' = DOMAIN users
      /\ \A v \in DOMAIN users :
           /\ users'[v].email = users[v].email /\ users'[v].person = users[v].person
           /\ users'[v].microsoft = users[v].microsoft /\ users'[v].local = users[v].local
           /\ users'[v].roles = users[v].roles
  BY <1>4, <1>5 DEF AccountInv, TablesTyped, UserRow, UserStatus
<1>7. KeysUnique'
  BY <1>6, KeysKept DEF AccountInv
<1>8. NoLogin \in Login /\ NoLogin.step = "idle"
  BY DEF NoLogin, Login, LoginStep
<1>9. RolesWanted(w, NoLogin)
  BY <1>1, <1>4, <1>6 DEF RolesWanted
<1>10. LoginSound(NoLogin)' /\ ClaimSound(NoLogin)' /\ ~Past(NoLogin)
  BY <1>8 DEF LoginSound, ClaimSound, Past, NoLogin
<1>11. \A v \in Workers \ {w} : Past(login[v]) /\ login[v].state \notin contended =>
         /\ \A k \in DOMAIN sessions : sessions[k].state # login[v].state
         /\ s # login[v].state
  BY <1>1, <1>2 DEF AccountInv, LoginsSound, ClaimSound, ClaimsDiffer, Past
<1>12. CASE UNCHANGED sessions
  <2>1. TablesTyped' /\ SessionsSound'
    BY <1>4, <1>6, <1>12 DEF AccountInv, TablesTyped, SessionsSound
  <2> QED
    BY <1>4, <1>6, <1>7, <1>8, <1>9, <1>10, <1>11, <1>12, <2>1, Step
<1>13. ASSUME NEW k \in Sessions \ DOMAIN sessions,
              sessions' = Put(sessions, k, [user |-> u, state |-> s, revoked |-> FALSE])
       PROVE  AccountInv'
  <2>1. PICK row : row = [user |-> u, state |-> s, revoked |-> FALSE]
    OBVIOUS
  <2>2. row \in SessionRow /\ row.state = s
    BY <1>1, <1>2, <1>3, <2>1 DEF SessionRow, Login
  <2>3. /\ DOMAIN sessions' = DOMAIN sessions \cup {k}
        /\ \A m \in DOMAIN sessions : sessions'[m] = sessions[m]
        /\ sessions'[k] = row
        /\ sessions' \in [DOMAIN sessions' -> SessionRow]
    BY <1>13, <2>1, <2>2 DEF Put, AccountInv, TablesTyped
  <2>4. TablesTyped'
    BY <1>4, <1>6, <2>3 DEF AccountInv, TablesTyped
  <2>5. SessionsSound'
    BY <1>3, <1>4, <2>2, <2>3 DEF AccountInv, SessionsSound
  <2>6. \A v \in Workers \ {w} : Past(login[v]) /\ login[v].state \notin contended' =>
          \A m \in DOMAIN sessions' : sessions'[m].state # login[v].state
    BY <1>4, <1>11, <2>2, <2>3
  <2> QED
    BY <1>4, <1>6, <1>7, <1>8, <1>9, <1>10, <2>4, <2>5, <2>6, Step
<1> QED
  BY <1>2, <1>12, <1>13 DEF CreateSession

LEMMA StartAdminLoginStep ==
  ASSUME AccountInv, NEW w \in Workers, StartAdminLogin(w)
  PROVE  AccountInv'
<1>1. PICK l : l = [NoLogin EXCEPT !.step = "upsertAdmin", !.email = AdminEmail]
  OBVIOUS
<1>2. l \in Login /\ l.step = "upsertAdmin" /\ l.state = None
  BY <1>1, AccountsAssumption DEF NoLogin, Login, LoginStep
<1>3. LoggingIn(w, l) /\ UNCHANGED <<users, states, sessions, orphans, contended>>
  BY <1>1 DEF StartAdminLogin
<1>4. login[w].step = "idle"
  BY DEF StartAdminLogin, AtLogin
<1>5. LoginSound(l) /\ ClaimSound(l) /\ ~Past(l)
  BY <1>2 DEF LoginSound, ClaimSound, Past
<1> QED
  BY <1>2, <1>3, <1>4, <1>5, OnlyLogin

LEMMA UpsertAdminStep ==
  ASSUME AccountInv, NEW w \in Workers, UpsertAdmin(w)
  PROVE  AccountInv'
<1>1. /\ login[w] \in Login /\ login[w].step = "upsertAdmin" /\ login[w].state = None
  BY DEF UpsertAdmin, AtLogin, AccountInv, LoginsSound, LoginSound
<1>2. PICK u, row :
        /\ u \in Users
        /\ row = IF UsersWith("email", AdminEmail) = {} THEN AdminRow
                 ELSE [users[u] EXCEPT !.status = "ACTIVE", !.local = AdminUsername]
        /\ IF UsersWith("email", AdminEmail) = {} THEN FreshUser(u)
           ELSE u \in UsersWith("email", AdminEmail)
        /\ WriteUser(u, row)
        /\ LoggingIn(w, IF KeysAreUnique(u, row)
                        THEN [login[w] EXCEPT !.step = "assignRole", !.user = u, !.role = Admin]
                        ELSE NoLogin)
  BY DEF UpsertAdmin
<1>3. row \in UserRow
  <2>1. CASE UsersWith("email", AdminEmail) = {}
    BY <1>2, <2>1, AccountsAssumption DEF AdminRow, UserRow, UserStatus
  <2>2. CASE UsersWith("email", AdminEmail) # {}
    <3>1. users[u] \in UserRow
      BY <1>2, <2>2 DEF UsersWith, AccountInv, TablesTyped
    <3> QED
      BY <1>2, <2>2, <3>1, AccountsAssumption DEF UserRow, UserStatus
  <2> QED
    BY <2>1, <2>2
<1>4. /\ users' \in [DOMAIN users' -> UserRow] /\ DOMAIN users' \subseteq Users
      /\ DOMAIN users \subseteq DOMAIN users'
      /\ KeysUnique'
      /\ \A v \in DOMAIN users' : v # u => v \in DOMAIN users /\ users'[v] = users[v]
      /\ IF KeysAreUnique(u, row) THEN u \in DOMAIN users' /\ users'[u] = row
                                  ELSE users' = users
  BY <1>2, <1>3, UserWritten DEF AccountInv
<1>5. UNCHANGED <<states, sessions, orphans, contended>>
  BY DEF UpsertAdmin
<1>6. CASE KeysAreUnique(u, row)
  <2>1. PICK l : l = [login[w] EXCEPT !.step = "assignRole", !.user = u, !.role = Admin]
    OBVIOUS
  <2>2. /\ l \in Login /\ l.step = "assignRole" /\ l.state = None
        /\ l.user = u /\ l.role \in Roles
    BY <1>1, <1>2, <2>1, AccountsAssumption DEF Login, LoginStep
  <2>3. LoggingIn(w, l)
    BY <1>2, <1>6, <2>1
  <2>4. LoginSound(l)' /\ ClaimSound(l) /\ ~Past(l)
    BY <1>4, <1>6, <2>2 DEF LoginSound, ClaimSound, Past
  <2>5. RolesWanted(w, l)
    BY <1>1, <1>4, <1>5, <2>2 DEF RolesWanted
  <2> QED
    BY <1>4, <1>5, <2>2, <2>3, <2>4, <2>5, UsersStep
<1>7. CASE ~KeysAreUnique(u, row)
  <2>1. LoggingIn(w, NoLogin)
    BY <1>2, <1>7
  <2>2. NoLogin \in Login /\ NoLogin.step = "idle"
    BY DEF NoLogin, Login, LoginStep
  <2>3. LoginSound(NoLogin)' /\ ClaimSound(NoLogin) /\ ~Past(NoLogin)
    BY <2>2 DEF LoginSound, ClaimSound, Past, NoLogin
  <2>4. RolesWanted(w, NoLogin)
    BY <1>1, <1>4, <1>5, <1>7 DEF RolesWanted
  <2> QED
    BY <1>4, <1>5, <2>1, <2>2, <2>3, <2>4, UsersStep
<1> QED
  BY <1>6, <1>7

LEMMA StartLocalLoginStep ==
  ASSUME AccountInv, NEW w \in Workers, NEW u \in Users, StartLocalLogin(w, u)
  PROVE  AccountInv'
<1>1. PICK l : l = [NoLogin EXCEPT !.step = "createSession", !.user = u]
  OBVIOUS
<1>2. l \in Login /\ l.step = "createSession" /\ l.state = None /\ l.user = u
  BY <1>1 DEF NoLogin, Login, LoginStep
<1>3. LoggingIn(w, l) /\ UNCHANGED <<users, states, sessions, orphans, contended>>
  BY <1>1 DEF StartLocalLogin
<1>4. login[w].step = "idle" /\ u \in DOMAIN users
  BY DEF StartLocalLogin, AtLogin
<1>5. LoginSound(l) /\ ClaimSound(l) /\ ~Past(l)
  BY <1>2, <1>4 DEF LoginSound, ClaimSound, Past
<1> QED
  BY <1>2, <1>3, <1>4, <1>5, OnlyLogin

LEMMA RevokeSessionStep ==
  ASSUME AccountInv, NEW w \in Workers, NEW k \in Sessions, RevokeSession(w, k)
  PROVE  AccountInv'
<1>1. PICK l : l = login[w]
  OBVIOUS
<1>2. l \in Login /\ l.step = "idle" /\ LoggingIn(w, l)
  BY <1>1 DEF RevokeSession, AtLogin, AccountInv, LoggingIn
<1>3. /\ k \in DOMAIN sessions /\ sessions' = [sessions EXCEPT ![k].revoked = TRUE]
      /\ UNCHANGED <<users, states, orphans, contended>>
  BY DEF RevokeSession
<1>4. sessions[k] \in SessionRow
  BY <1>3 DEF AccountInv, TablesTyped
<1>5. /\ sessions' \in [DOMAIN sessions' -> SessionRow] /\ DOMAIN sessions' = DOMAIN sessions
      /\ \A m \in DOMAIN sessions : sessions'[m].state = sessions[m].state
  BY <1>3, <1>4 DEF AccountInv, TablesTyped, SessionRow
<1>6. TablesTyped' /\ KeysUnique' /\ SessionsSound'
  BY <1>3, <1>5
     DEF AccountInv, TablesTyped, KeysUnique, KeysAreUnique, UsersWith, SessionsSound
<1>7. RolesWanted(w, l) /\ LoginSound(l)' /\ ClaimSound(l)'
  BY <1>1, <1>2, <1>3, <1>5 DEF AccountInv, LoginsSound, RolesWanted, LoginSound, ClaimSound, Past
<1>8. ASSUME NEW v \in Workers \ {w}, Past(login[v]), login[v].state \notin contended'
      PROVE  /\ \A m \in DOMAIN sessions' : sessions'[m].state # login[v].state
             /\ Past(l) => l.state # login[v].state
  BY <1>1, <1>3, <1>5, <1>8 DEF AccountInv, LoginsSound, ClaimSound, ClaimsDiffer, Past
<1> QED
  BY <1>2, <1>3, <1>6, <1>7, <1>8, Step

\* A sign-in that dies before it wrote the role leaves an orphan.
LEMMA DieInLoginStep ==
  ASSUME AccountInv, NEW w \in Workers, DieInLogin(w)
  PROVE  AccountInv'
<1>1. login[w] \in Login /\ LoginSound(login[w])
  BY DEF AccountInv, LoginsSound
<1>2. /\ orphans' = orphans \cup (IF AtLogin(w, "assignRole") THEN {login[w].user} ELSE {})
      /\ LoggingIn(w, NoLogin) /\ UNCHANGED <<users, states, sessions, contended>>
  BY DEF DieInLogin, LoginDone
<1>3. orphans' \subseteq Users
  BY <1>1, <1>2 DEF AtLogin, LoginSound, AccountInv, TablesTyped
<1>4. TablesTyped' /\ KeysUnique' /\ SessionsSound'
  BY <1>2, <1>3
     DEF AccountInv, TablesTyped, KeysUnique, KeysAreUnique, UsersWith, SessionsSound
<1>5. NoLogin \in Login /\ NoLogin.step = "idle"
  BY DEF NoLogin, Login, LoginStep
<1>6. RolesWanted(w, NoLogin)
  BY <1>2 DEF RolesWanted, AtLogin
<1>7. LoginSound(NoLogin)' /\ ClaimSound(NoLogin)' /\ ~Past(NoLogin)
  BY <1>5 DEF LoginSound, ClaimSound, Past, NoLogin
<1>8. ASSUME NEW v \in Workers \ {w}, Past(login[v]), login[v].state \notin contended'
      PROVE  \A k \in DOMAIN sessions' : sessions'[k].state # login[v].state
  BY <1>2, <1>8 DEF AccountInv, LoginsSound, ClaimSound
<1> QED
  BY <1>2, <1>4, <1>5, <1>6, <1>7, <1>8, Step

-----------------------------------------------------------------------------
(* Every step *)

LEMMA AccountInitInv == AccountsInit => AccountInv
<1> SUFFICES ASSUME AccountsInit PROVE AccountInv
  OBVIOUS
<1>1. DOMAIN users = {} /\ DOMAIN states = {} /\ DOMAIN sessions = {}
  BY DEF AccountsInit
<1>2. /\ users \in [DOMAIN users -> UserRow] /\ states \in [DOMAIN states -> BOOLEAN]
      /\ sessions \in [DOMAIN sessions -> SessionRow]
  BY DEF AccountsInit
<1>3. TablesTyped
  BY <1>1, <1>2 DEF AccountsInit, TablesTyped
<1>4. NoLogin \in Login /\ NoLogin.step = "idle"
  BY DEF NoLogin, Login, LoginStep
<1>5. login \in [Workers -> Login] /\ \A w \in Workers : login[w] = NoLogin
  BY <1>4 DEF AccountsInit
<1>6. LoginsSound /\ ClaimsDiffer
  BY <1>4, <1>5 DEF LoginsSound, LoginSound, ClaimSound, ClaimsDiffer, Past, NoLogin
<1>7. SessionsSound /\ KeysUnique /\ AccountsHaveRoles
  BY <1>1 DEF SessionsSound, KeysUnique, AccountsHaveRoles
<1> QED
  BY <1>3, <1>5, <1>6, <1>7 DEF AccountInv

LEMMA AccountsUnchanged ==
  ASSUME AccountInv, UNCHANGED accountVars
  PROVE  AccountInv'
<1> USE DEF accountVars
<1>1. TablesTyped' /\ login' \in [Workers -> Login]
  BY DEF AccountInv, TablesTyped
<1>2. LoginsSound' /\ ClaimsDiffer'
  BY DEF AccountInv, LoginsSound, LoginSound, ClaimSound, ClaimsDiffer, Past
<1>3. SessionsSound' /\ KeysUnique' /\ AccountsHaveRoles'
  BY DEF AccountInv, SessionsSound, KeysUnique, KeysAreUnique, UsersWith, AccountsHaveRoles, AtLogin
<1> QED
  BY <1>1, <1>2, <1>3 DEF AccountInv

LEMMA AccountsNext ==
  ASSUME AccountInv, [AccessNext]_accessVars
  PROVE  AccountInv'
<1>1. CASE UNCHANGED accessVars
  BY <1>1, AccountsUnchanged DEF accessVars
<1>2. ASSUME NEW w \in Workers, RolesPart(w)
      PROVE  AccountInv'
  BY <1>2, AccountsUnchanged DEF RolesPart
<1>3. ASSUME NEW w \in Workers, AccountStart(w)
      PROVE  AccountInv'
  BY <1>3, StartUpsertAccountStep, BuildAuthorizeRedirectStep, StartResetPasswordStep,
     StartLocalLoginStep, StartCallbackStep, RevokeSessionStep, StartAdminLoginStep
     DEF AccountStart
<1>4. ASSUME NEW w \in Workers, ResumeLogin(w)
      PROVE  AccountInv'
  BY <1>4, CommitAccountStep, ResetPasswordStep, ExchangeCodeStep, FindUserStep,
     CreateUserStep, AssignRoleStep, ConsumeStep, CreateSessionStep, UpsertAdminStep
     DEF ResumeLogin
<1> QED
  BY <1>1, <1>2, <1>3, <1>4, DieInLoginStep DEF AccessNext, AccountsPart, StartAccountCall

-----------------------------------------------------------------------------
(* Theorems *)

\* What the tables and the handlers of accounts keep, between any two awaits.
THEOREM AccountInvariant == AccessSpec => []AccountInv
<1>1. AccessInit => AccountInv
  BY AccountInitInv DEF AccessInit
<1>2. AccountInv /\ [AccessNext]_accessVars => AccountInv'
  BY AccountsNext
<1> QED
  BY <1>1, <1>2, PTL DEF AccessSpec

\* The rows of users, states and sessions, and what handlers remember of them,
\* have their types.
THEOREM AccountTypes == AccessSpec => []AccountsTypeOK
<1>1. AccountInv => AccountsTypeOK
  BY DEF AccountInv, TablesTyped, AccountsTypeOK
<1> QED
  BY <1>1, AccountInvariant, PTL

\* An account without a role is one whose sign-in is about to write it, or died.
THEOREM AccountsWithRole == AccessSpec => []AccountsHaveRoles
<1>1. AccountInv => AccountsHaveRoles
  BY DEF AccountInv
<1> QED
  BY <1>1, AccountInvariant, PTL

\* A sign-in state that no two callbacks had in flight at once gives at most one
\* session, wherever its handlers die, because it is consumed first.
THEOREM SignedInOnce == AccessSpec => []SignInIsOnce
<1>1. AccountInv => SignInIsOnce
  BY DEF AccountInv, SessionsSound, SignInIsOnce
<1> QED
  BY <1>1, AccountInvariant, PTL
=============================================================================
