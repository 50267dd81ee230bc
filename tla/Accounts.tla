------------------------------ MODULE Accounts ------------------------------
(***************************************************************************)
(* User accounts, sign-in states and sessions: modules/auth/auth.service   *)
(* and the account handlers of modules/people/people.service.ts.           *)
(*                                                                         *)
(* ensureCatalog, which several of them await first, only touches what     *)
(* RoleCatalog models: it is a handler of its own there. Passwords,        *)
(* tokens, expiry and the directory's signatures are left out: a check     *)
(* that fails is a call that changes nothing.                              *)
(***************************************************************************)
EXTENDS RoleCatalog

CONSTANTS
  Users, States, Sessions,  \* identifiers of the tables
  Persons, Emails,
  Identities,               \* microsoftUserId, the oid claim of the directory
  Usernames,
  AdminEmail, AdminUsername, \* the local administrator of the setting
  Guest, Admin,             \* codes of Roles
  AccountRows,              \* the accounts callers ask for, UserRow with a person
  Jit                       \* AUTH_JIT_ENABLED

ASSUME AccountsAssumption ==
  /\ AdminEmail \in Emails /\ AdminUsername \in Usernames
  /\ Guest \in Roles /\ Admin \in Roles
  /\ Jit \in BOOLEAN
  /\ None \notin Users \cup States \cup Sessions \cup Persons
  /\ None \notin Emails \cup Identities \cup Usernames

VARIABLES
  users,     \* user with its user_role rows: id -> UserRow
  states,    \* oidc_auth_state: id -> consumed
  sessions,  \* auth_session: id -> SessionRow
  login,     \* worker -> what its handler remembers
  orphans,   \* history: accounts whose sign-in died before their role was written
  contended  \* history: sign-in states that two callbacks had in flight at once

accountVars == <<users, states, sessions, login, orphans, contended>>

UserStatus == {"INVITED", "ACTIVE", "SUSPENDED", "DEACTIVATED"}

UserRow == [person: Persons \cup {None}, email: Emails,
            microsoft: Identities \cup {None}, local: Usernames \cup {None},
            status: UserStatus, rotate: BOOLEAN, roles: SUBSET Roles]

ASSUME AccountRowsAssumption == AccountRows \subseteq UserRow

\* state is the sign-in state a session came from: the row does not keep it.
SessionRow == [user: Users, state: States \cup {None}, revoked: BOOLEAN]

LoginStep == {"idle", "commitAccount", "resetPassword", "exchangeCode", "findUser",
              "createUser", "assignRole", "consume", "createSession", "upsertAdmin"}

Login == [step: LoginStep, user: Users \cup {None}, state: States \cup {None},
          identity: Identities \cup {None}, email: Emails \cup {None},
          row: UserRow \cup {None}, role: Roles \cup {None}]

NoLogin == [step |-> "idle", user |-> None, state |-> None, identity |-> None,
            email |-> None, row |-> None, role |-> None]

AccountsTypeOK ==
  /\ users \in [DOMAIN users -> UserRow] /\ DOMAIN users \subseteq Users
  /\ states \in [DOMAIN states -> BOOLEAN] /\ DOMAIN states \subseteq States
  /\ sessions \in [DOMAIN sessions -> SessionRow] /\ DOMAIN sessions \subseteq Sessions
  /\ login \in [Workers -> Login]
  /\ orphans \subseteq Users
  /\ contended \subseteq States

AccountsInit ==
  /\ users = <<>> /\ states = <<>> /\ sessions = <<>>
  /\ login = [w \in Workers |-> NoLogin]
  /\ orphans = {} /\ contended = {}

-----------------------------------------------------------------------------
(* Queries *)

Put(table, k, row) == [x \in DOMAIN table \cup {k} |-> IF x = k THEN row ELSE table[x]]

UsersWith(column, value) == {u \in DOMAIN users : users[u][column] = value}

\* The unique keys of user, which NULL never violates.
KeysAreUnique(u, row) ==
  \A column \in {"email", "person", "microsoft", "local"} :
    row[column] # None => UsersWith(column, row[column]) \subseteq {u}

\* The insert or update of u fails when another row has one of its keys.
WriteUser(u, row) ==
  users' = IF KeysAreUnique(u, row) THEN Put(users, u, row) ELSE users

AtLogin(w, step) == login[w].step = step

LoggingIn(w, l) == login' = [login EXCEPT ![w] = l]

LoginDone(w) == LoggingIn(w, NoLogin)

FreshUser(u) == u \in Users \ DOMAIN users

-----------------------------------------------------------------------------
(* upsertPersonAccount: the account of the person is looked up before the   *)
(* transaction that updates it, or creates one, and replaces its roles.     *)

StartUpsertAccount(w, row) ==
  LET linked == UsersWith("person", row.person) IN
  /\ AtLogin(w, "idle")
  /\ row.roles # {}
  /\ (row.microsoft = None) # (row.local = None)
  /\ row.microsoft # None => ~row.rotate
  /\ LoggingIn(w, [NoLogin EXCEPT !.step = "commitAccount", !.row = row,
                     !.user = IF linked = {} THEN None ELSE CHOOSE u \in linked : TRUE])
  /\ UNCHANGED <<users, states, sessions, orphans, contended>>

CommitAccount(w) ==
  LET l == login[w] IN
  /\ AtLogin(w, "commitAccount")
  /\ \E u \in Users :
       /\ IF l.user = None THEN FreshUser(u) ELSE u = l.user
       /\ WriteUser(u, l.row)
  /\ LoginDone(w)
  /\ UNCHANGED <<states, sessions, orphans, contended>>

\* resetPersonAccountPassword
StartResetPassword(w, u) ==
  /\ AtLogin(w, "idle")
  /\ u \in DOMAIN users
  /\ users[u].person # None /\ users[u].local # None
  /\ LoggingIn(w, [NoLogin EXCEPT !.step = "resetPassword", !.user = u])
  /\ UNCHANGED <<users, states, sessions, orphans, contended>>

ResetPassword(w) ==
  /\ AtLogin(w, "resetPassword")
  /\ users' = [users EXCEPT ![login[w].user].rotate = TRUE]
  /\ LoginDone(w)
  /\ UNCHANGED <<states, sessions, orphans, contended>>

-----------------------------------------------------------------------------
(* Sign-in with Microsoft: buildAuthorizeRedirect, then                     *)
(* completeAuthorizationCodeFlow when the browser comes back.               *)

BuildAuthorizeRedirect(w, s) ==
  /\ AtLogin(w, "idle")
  /\ s \notin DOMAIN states
  /\ states' = Put(states, s, FALSE)
  /\ UNCHANGED <<users, sessions, login, orphans, contended>>

\* Mutant: a consumed state is found too.
AnyState(s) == s \in DOMAIN states

\* The row with consumedAt null
OpenState(s) == s \in DOMAIN states /\ ~states[s]

\* The browser may send the callback more than once, with the same code or with
\* another that the same address got from the directory.
StartCallback(w, s, identity, email) ==
  /\ AtLogin(w, "idle")
  /\ OpenState(s)
  /\ LoggingIn(w, [NoLogin EXCEPT !.step = "exchangeCode", !.state = s,
                                  !.identity = identity, !.email = email])
  /\ contended' = contended \cup {x \in {s} : \E v \in Workers : login[v].state = x}
  /\ UNCHANGED <<users, states, sessions, orphans>>

\* The directory accepts the code or does not.
ExchangeCode(w) ==
  /\ AtLogin(w, "exchangeCode")
  /\ LoggingIn(w, [login[w] EXCEPT !.step = "findUser"]) \/ LoginDone(w)
  /\ UNCHANGED <<users, states, sessions, orphans, contended>>

FindUser(w) ==
  LET l == login[w]
      known == UsersWith("microsoft", l.identity) IN
  /\ AtLogin(w, "findUser")
  /\ LoggingIn(w, IF known # {}
                  THEN [l EXCEPT !.step = "consume", !.user = CHOOSE u \in known : TRUE]
                  ELSE IF Jit THEN [l EXCEPT !.step = "createUser"] ELSE NoLogin)
  /\ UNCHANGED <<users, states, sessions, orphans, contended>>

JitRow(l) ==
  [person |-> None, email |-> l.email, microsoft |-> l.identity, local |-> None,
   status |-> "ACTIVE", rotate |-> FALSE, roles |-> {}]

\* Two first sign-ins of one identity: the key lets one of them create it.
CreateUser(w) ==
  LET l == login[w] IN
  /\ AtLogin(w, "createUser")
  /\ \E u \in Users :
       /\ FreshUser(u)
       /\ WriteUser(u, JitRow(l))
       /\ LoggingIn(w, IF KeysAreUnique(u, JitRow(l))
                       THEN [l EXCEPT !.step = "assignRole", !.user = u, !.role = Guest]
                       ELSE NoLogin)
  /\ UNCHANGED <<states, sessions, orphans, contended>>

\* Mutant: the role is looked up before the catalogue has it, and left out.
NoRoleGiven(u, role) == users

RoleGiven(u, role) == [users EXCEPT ![u].roles = @ \cup {role}]

\* ensureRoleAssignment: an upsert of its own, after the row of the user.
AssignRole(w) ==
  LET l == login[w] IN
  /\ AtLogin(w, "assignRole")
  /\ users' = RoleGiven(l.user, l.role)
  /\ LoggingIn(w, [l EXCEPT !.step = IF l.state = None THEN "createSession" ELSE "consume"])
  /\ UNCHANGED <<states, sessions, orphans, contended>>

Consume(w) ==
  /\ AtLogin(w, "consume")
  /\ states' = [states EXCEPT ![login[w].state] = TRUE]
  /\ LoggingIn(w, [login[w] EXCEPT !.step = "createSession"])
  /\ UNCHANGED <<users, sessions, orphans, contended>>

\* createSessionForUser: the session and the status of its user, together; a
\* bound: no id left, no session.
CreateSession(w) ==
  LET l == login[w] IN
  /\ AtLogin(w, "createSession")
  /\ \/ \E k \in Sessions \ DOMAIN sessions :
          sessions' = Put(sessions, k, [user |-> l.user, state |-> l.state, revoked |-> FALSE])
     \/ Sessions \subseteq DOMAIN sessions /\ UNCHANGED sessions
  /\ users' = [users EXCEPT ![l.user].status = "ACTIVE"]
  /\ LoginDone(w)
  /\ UNCHANGED <<states, orphans, contended>>

-----------------------------------------------------------------------------
(* localAdminLogin: the administrator of the setting, or a local account. *)

StartAdminLogin(w) ==
  /\ AtLogin(w, "idle")
  /\ LoggingIn(w, [NoLogin EXCEPT !.step = "upsertAdmin", !.email = AdminEmail])
  /\ UNCHANGED <<users, states, sessions, orphans, contended>>

AdminRow ==
  [person |-> None, email |-> AdminEmail, microsoft |-> None, local |-> AdminUsername,
   status |-> "ACTIVE", rotate |-> FALSE, roles |-> {}]

\* user.upsert by email; the username may be taken by another account.
UpsertAdmin(w) ==
  LET known == UsersWith("email", AdminEmail) IN
  /\ AtLogin(w, "upsertAdmin")
  /\ \E u \in Users :
       LET row == IF known = {} THEN AdminRow
                  ELSE [users[u] EXCEPT !.status = "ACTIVE", !.local = AdminUsername] IN
       /\ IF known = {} THEN FreshUser(u) ELSE u \in known
       /\ WriteUser(u, row)
       /\ LoggingIn(w, IF KeysAreUnique(u, row)
                       THEN [login[w] EXCEPT !.step = "assignRole", !.user = u, !.role = Admin]
                       ELSE NoLogin)
  /\ UNCHANGED <<states, sessions, orphans, contended>>

\* authenticateLocalUser
StartLocalLogin(w, u) ==
  /\ AtLogin(w, "idle")
  /\ u \in DOMAIN users
  /\ users[u].local # None
  /\ users[u].status \notin {"SUSPENDED", "DEACTIVATED"}
  /\ LoggingIn(w, [NoLogin EXCEPT !.step = "createSession", !.user = u])
  /\ UNCHANGED <<users, states, sessions, orphans, contended>>

RevokeSession(w, k) ==
  /\ AtLogin(w, "idle")
  /\ k \in DOMAIN sessions
  /\ sessions' = [sessions EXCEPT ![k].revoked = TRUE]
  /\ UNCHANGED <<users, states, login, orphans, contended>>

-----------------------------------------------------------------------------

\* The API stops in the middle of a handler.
DieInLogin(w) ==
  /\ ~AtLogin(w, "idle")
  /\ orphans' = orphans \cup (IF AtLogin(w, "assignRole") THEN {login[w].user} ELSE {})
  /\ LoginDone(w)
  /\ UNCHANGED <<users, states, sessions, contended>>

ResumeLogin(w) ==
  \/ CommitAccount(w) \/ ResetPassword(w)
  \/ ExchangeCode(w) \/ FindUser(w) \/ CreateUser(w) \/ AssignRole(w) \/ Consume(w)
  \/ CreateSession(w) \/ UpsertAdmin(w)

AccountStart(w) ==
  \/ \E row \in AccountRows : StartUpsertAccount(w, row)
  \/ \E s \in States : BuildAuthorizeRedirect(w, s)
  \/ \E u \in Users : StartResetPassword(w, u) \/ StartLocalLogin(w, u)
  \/ \E s \in States, i \in Identities, e \in Emails : StartCallback(w, s, i, e)
  \/ \E k \in Sessions : RevokeSession(w, k)
  \/ StartAdminLogin(w)
==============================================================================
