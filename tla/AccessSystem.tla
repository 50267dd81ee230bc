---------------------------- MODULE AccessSystem ----------------------------
(***************************************************************************)
(* Roles, accounts and sessions over one database: any handler may be in   *)
(* flight in any worker.                                                   *)
(***************************************************************************)
EXTENDS Accounts

accessVars == <<catalogVars, accountVars>>

AccessInit == CatalogInit /\ AccountsInit

RolesPart(w) ==
  /\ AtLogin(w, "idle")
  /\ RoleStep(w)
  /\ UNCHANGED accountVars

StartAccountCall(w) ==
  /\ AtSync(w, "idle")
  /\ calls < CallBound
  /\ calls' = calls + 1
  /\ AccountStart(w) \/ DieInLogin(w)
  /\ UNCHANGED <<setting, rolePermissions, sync, synced>>

AccountsPart(w) ==
  \/ StartAccountCall(w)
  \/ ResumeLogin(w) /\ UNCHANGED catalogVars

AccessNext == \E w \in Workers : RolesPart(w) \/ AccountsPart(w)

AccessSpec == AccessInit /\ [][AccessNext]_accessVars

\* A handler in flight goes on: the event loop takes up every settled promise.
FairAccessSpec ==
  AccessSpec /\ \A w \in Workers : WF_accessVars(ResumeSync(w) /\ UNCHANGED accountVars)

-----------------------------------------------------------------------------
(* Roles *)

InStep == setting # <<>> /\ rolePermissions = Desired(setting)

EnsureAgain == \E w \in Workers : StartEnsure(w) /\ UNCHANGED accountVars

\* Overlapping synchronisations, and handlers that die between their two
\* statements, can leave rows of an older setting: once the setting is no
\* longer edited, calls of ensureCatalog bring the rows back in step for good.
CatalogSettles == []<><<EnsureAgain>>_accessVars => <>[]InStep

\* Once the synchronisations that overlapped have all written, and none of them
\* died, a permission that each of their maps wants is granted and one that none
\* wants is not, whatever the rows were before and however their reads and
\* writes were interleaved; where the maps differ, either may have won.
GrantsFollowMaps ==
  synced # {} /\ (\A w \in Workers : ~Writing(w)) =>
    \A x \in Granted :
      /\ (\A map \in synced : x \in Desired(map)) => x \in rolePermissions
      /\ x \in rolePermissions => \E map \in synced : x \in Desired(map)

-----------------------------------------------------------------------------
(* Accounts and sessions *)

\* Every account has a role, unless the sign-in that created it is on its way
\* to give it one, or died before it did: later sign-ins find the account and
\* leave its roles alone.
AccountsHaveRoles ==
  \A u \in DOMAIN users \ orphans :
    users[u].roles = {} => \E w \in Workers : AtLogin(w, "assignRole") /\ login[w].user = u

\* A sign-in state gives one session, consumed before the session is there,
\* however often the callback is sent and wherever a handler dies: unless two
\* callbacks of the state were in flight at once, which both find it open.
SignInIsOnce ==
  \A k \in DOMAIN sessions :
    LET s == sessions[k].state IN
    s # None =>
      /\ states[s]
      /\ s \notin contended => \A m \in DOMAIN sessions : sessions[m].state = s => m = k
==============================================================================
