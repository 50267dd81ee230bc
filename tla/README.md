# Formal model of Arkive ERP

TLA+ models of Arkive ERP, TLC runs over small instances of them,
and theorems checked by TLAPS for every value of the constants. The reference
is the code: `PROJECT.json` gives, for every definition that models code, the
lines it stands for. Paths below are relative to `src/`, and
`M` stands for `apps/api/src/modules`.

## 1. The system

Arkive ERP is a NestJS API (`apps/api`) over one PostgreSQL database accessed
through Prisma, a Next.js client (`apps/web`), and a BullMQ worker
(`apps/worker`). The API is where the rules are. Every request is served by one
async handler of a service; handlers share nothing but the database, the object
store and the queue.

Two facts decide what can go wrong:

* **Handlers interleave at every `await`.** Between two awaits a handler runs
  alone; at an await any number of others may run, in the same process or in
  another instance of the API.
* **Transactions are READ COMMITTED** (`prisma.$transaction` without an
  isolation level). A statement of a transaction sees what has been committed
  when it runs, plus the transaction's own writes. Two transactions that each
  read, decide and write do not see each other. Only unique keys, foreign keys
  and the row locks of updates stop them.

### Components

| Component | State | Operations that write | Interacts with |
|---|---|---|---|
| Plans, grants, ledger (`M/equity/equity.service.ts`) | `equity_plan`, `grant_award`, `vesting_schedule`, `equity_transaction` (the ledger), pool setting | createPlan, updatePlan, updateCapTablePools, updateCapTableBase, createGrant, updateGrant, deleteGrant, createTransaction, createGrantESignPackage | shares all its tables with the exercise lifecycle; writes documents and signature requests |
| Exercise lifecycle (`M/equity-lifecycle`) | `exercise_request`, `termination_record`, ledger rows of type EXERCISE | recordTermination, createExerciseRequest, approve, decline, cancel, complete | reads grants and vesting; appends to the ledger |
| Vesting (`M/vesting`) | none | - | called by both equity services |
| E-signature (`M/signatures`) | `signature_request`, `signature_participant`, `signature_event` | createNativeRequest, view, sign and decline (signed in or through a link), captureSignedArtifact | writes a new version of the document it is about; object store; mail |
| Documents (`M/documents`) | `document`, `document_version` | createDocument, finalizeVersion | versions shared with the signature capture |
| Approvals (`M/approvals`) | `approval_request`, `approval_decision` | create, decide | none |
| People (`M/people`) | `person`, `engagement`, and the columns that link other tables to a person | create, update and delete a person; create, update and archive engagements; archive documents; remove provisioning jobs | the equity and signature services link people; deletion counts their rows |
| Provisioning (`M/m365`, `apps/worker`) | `m365_provisioning_job`, a BullMQ queue | createJob; the worker consumes | row, then queue: two stores |
| Authentication (`M/auth/auth.service.ts`, accounts in `M/people`) | `oidc_auth_state`, `auth_session`, `user`, `user_role` | OIDC start and callback, local administrator, local accounts, sessions and revocation, account upsert and password reset | calls `ensureCatalog` |
| Roles, record access (`M/auth/rbac.service.ts`, `M/authorization`) | `role_permission`, the setting `rbac.sectionRoles` | ensureCatalog (with syncRolePermissions), updateSectionRoleAssignments | every guarded handler |
| Audit (`M/audit`) | `audit_event` | one insert after each handler | nothing reads it back |
| Tasks, fundraising, valuations | one table each | single-statement writes | none |
| Reports, search, portal, admin | settings | reads; an upsert of settings | none |
| Web client (`apps/web`) | per page: loaded rows, the open modal, the row of a form, flags that disable buttons | async event handlers that call the API and load again | the API, one `fetch` at a time or several |
| Scripts | none | - | install and start the system |

What makes the modelled ones correct, and what is hard about them:

* **Equity.** The ledger is the authority: numbered without a gap, consistent
  with grants and with completed exercises; grants fit their plan's reserve; no
  one exercises more than has vested. Hard: four handlers compute
  `MAX(ledgerSequence)+1` before they insert; every check (capacity, status,
  quantity, window, lifecycle counts) is a statement of its own, before the
  write that relies on it.
* **E-signature and documents.** Signing order, evidence for every signature,
  completion exactly when all have signed, one signed copy on file. Hard: the
  order is checked before the transaction, the count of signers is taken in a
  transaction that does not lock the request, and the capture is a long
  sequence of awaits after the commit that nothing ever resumes.
* **Approvals.** A status is justified by the decisions. Hard: decisions in
  overlapping transactions do not see each other, and the status is recomputed
  at every decision, also after finalization.
* **People and provisioning.** A person goes only when nothing is linked to
  them; dates of an engagement stay ordered; a queued job has a row. Hard: the
  links are made by three services, each of which has to ask for a person that
  is not archived; a job's row and its queue entry are in two stores.
* **Authentication and roles.** One account per identity, one session per
  sign-in state where its callbacks do not overlap; every account has a role; the
  role catalogue follows its setting. Hard: the state is read, then a code
  exchanged, and consumed three statements later without another look; the
  catalogue is synchronised without a transaction on every sign-in, from a
  difference computed before.
* **Web client.** A save carries the fields of its own row, buttons come back, a
  page at rest shows what its handlers wrote and what was selected. Hard: handlers go on after an `await` with
  what they captured when the event came, and loads answer in any order.

The full list of hazards, each at its line and with the properties that cover
it, is `hazards` in `PROJECT.json`.

## 2. Modules

| Module | What it is |
|---|---|
| `VestingCalc` | `calculate` of the vesting service as operators over whole months |
| `EquityStore` | the equity tables, their keys, the queries, the handlers in flight |
| `ExerciseLifecycle` | the handlers of the lifecycle service |
| `GrantAdmin` | the handlers of the equity service |
| `CapTable` | the reads that fold the tables, each with the limit of its queries: cap table, dashboard, a grant's page |
| `EquitySystem` | both services over the shared tables, with the clock; properties |
| `LedgerContract` | abstract: what the services keep of the ledger |
| `EquitySystemProofs` | inductive invariant and theorems of `EquitySystem` under any interleaving |
| `SumTheorems` | lemmas about `MapThenSumSet` of the community modules, for every finite set |
| `EquitySequentialProofs` | theorems of `EquitySystem` with one handler at a time |
| `SignatureStore` | document and signature tables, queries, handlers in flight |
| `DocumentFlow` | documents, uploaded versions, archiving |
| `SignatureFlow` | signature requests from creation to the mailed signed copy |
| `SignatureSystem` | both over the shared tables, with crashes; properties |
| `SigningContract` | abstract: what the service promises of its evidence |
| `SignatureProofs` | inductive invariants and theorems of `SignatureSystem`, under any interleaving and with one handler at a time |
| `ApprovalFlow` | approval requests and decisions; properties |
| `ApprovalProofs` | inductive invariant and theorems of `ApprovalFlow` |
| `PeopleAdmin` | people, engagements, their documents, signers and provisioning jobs; the queue and its worker |
| `OrganizationSystem` | `PeopleAdmin` and `EquitySystem` over one database: equity handlers ask for their people; properties |
| `OrganizationProofs` | inductive invariants and theorems of `OrganizationSystem` |
| `RoleCatalog` | the setting of section roles, and its synchronisation with the granted permissions |
| `Accounts` | users, sign-in states, sessions: sign-ins and the account handlers |
| `AccessSystem` | `RoleCatalog` and `Accounts`, with crashes; properties |
| `AccessProofs` | inductive invariants and theorems of both |
| `PageKit` | what the pages of the web client have in common: handlers, loads, flags, modals |
| `EquityPage`, `PeoplePage`, `GrantPage`, `SignerPages`, `ListPages` | the event handlers of each page |
| `ClientSystem` | a visit of any page; properties |
| `ClientProofs` | inductive invariant and theorems of `ClientSystem` |
| `MCEquity`, `MCSignature`, `MCApproval`, `MCOrganization`, `MCAccess`, `MCClient` | constants of the TLC models |

### How code becomes actions

Tables are functions from keys to rows, with the columns some rule reads.
`Workers` bounds how many handlers are in flight; `job[w]` is what the handler
of worker `w` remembers across its awaits: the step it takes next and the local
variables that later code uses. An action is the code between two awaits,
together with the statement it awaits. So

* a read and the check on it are one action that leaves the tables alone and
  remembers the result. A failed check ends the handler (`Finish`), which is
  the exception the code throws;
* the writes of a transaction are one action, at its commit, because no one
  sees them earlier; reads inside a READ COMMITTED transaction are actions of
  their own, before it. Where the transaction's own write is visible to a later
  read of it, the read adds it (`Seen` of `ApprovalFlow`, `CountSigned` of
  `SignatureFlow`);
* a unique key or a foreign key that fails rolls back the whole transaction:
  the alternative of the commit that leaves the tables alone;
* an update by id waits for a transaction in flight that has updated the same
  row (`Locked` of `SignatureFlow`); where the update is the last thing a
  transaction does, the commit alone stands for both.

Actions carry the names of the service methods, split into the steps of each:
`StartSign`, `CountSigned`, `CommitSignature` are `completeMySignature`;
`CheckCaptured` to `MailSignedCopies` are `captureSignedArtifact`;
`StartCompletion` to `CommitCompletion` are `completeExerciseRequest`;
`ReadSetting` to `DeleteExtra` are `ensureCatalog`.

`OrganizationSystem` composes by conjunction: a step of the equity handlers
(`EquityStep`) that begins a handler naming a person is taken only where
`ensurePersonInOrg` lets it, and a worker serves one request at a time, of either
service.

In the **web client** an action is the code between two awaits of a React event
handler or effect, and `calls` keeps the handlers in flight of the page mounted.
The server is reduced to versions: `stored[r]` counts the writes that changed what
route `r` returns, and `shown[r]` is the count, with the search text or row it was
loaded for, that the page has set. A reply is accepted, refused, or lost after the
write. `troubled` is a history variable, the routes of which the code does not
promise that the page shows what is stored. A route enters it
* when its load fails (`Taken`, `NotLoaded` in `Deliver`), or when what a handler sets was
  overtaken: a write or a new selection came between its read and its setter
  (`Judged`). Handlers that merely overlap, and selections that change, do not put
  a route there;
* when a call changed it and its reply is lost, or the second call of
  `saveGrantLetters` is refused after the first was taken (`Refused`, `Answer`);
* when one of the forms whose `reset()` throws has written it (`ResetThrows`), with what
  the write changed and nothing else.

A load that is set and not overtaken takes it out again.

### What is abstracted

* Everything is one organization. Permission checks and the access policy are
  left out of the handlers: a refused call changes nothing. `RoleCatalog` models
  which permissions a role has.
* Time is whole months and every schedule keeps its day of the month, so
  `addMonthsClampedUtc` is addition. Quantities are integers that count
  10^-6 of a share, the scale of the `Decimal(24, 6)` columns.
* No code sets `paused` of a schedule, so the runs use FALSE.
  `vestedQuantityAtEnd` and `unvestedQuantityAtEnd` of a termination are not read
  by any modelled handler.
* A read with Prisma `include` is one snapshot, and consecutive reads of rows
  that are never deleted are merged: the plan and pool reads of `updateGrant`,
  the participant before a decline.
* The handlers for signed-in users and those behind a signer link read and
  write the same, so one action stands for both. The event REQUEST_CREATED is
  implied by the request. Events are a set: two of one type and participant
  tell the properties nothing one does not.
* A stored version is an upload or the record of a request: the statuses of its
  participants and which of them have evidence. PDF layout, hashes and mail
  text are left out; a failed upload or render is a handler that dies.
* A person is a set of fields (`Profiles`) and `archivedAt`. No code sets
  `legalHold` or changes the status of a provisioning job, so the removal of a job
  reads and deletes in one step.
* The permissions and roles of the catalogue are constants that are upserted and
  never deleted: they are no state. Passwords, tokens, cookies, expiry and the
  directory's signatures are left out: a check that fails is a call that changes
  nothing. The directory may accept or refuse any code: nothing is assumed of how many
  it gives for one address (`ExchangeCode`).
* In the client, what fields hold, wording, tabs, the drawn signature, and the
  address of a download (`openDownload` reads and writes no state of the page) are
  left out. Unmounting a page ends its visit.
* `take` of a query is a constant (`CapTableTake`, `DashboardTake`), and which rows it
  returns is any choice of that many: the order of `effectiveAt` is not in the state.
* `decision` of an approval is any text (`@IsString`): ABSTAINED stands for all
  that count neither way. Approvers are not named, as the code never compares
  them.

## 3. TLC runs

| Run | Instance | Shows | Distinct states |
|---|---|---|---|
| `equity_sequential` | 1 worker, 2 grants, 2 requests, quantities 1-2, a schedule of two steps, clock 0-2, 3 ledger rows, of which the cap table reads 2 | `ExercisedHasVested`, `ExercisedOnce`, `GrantsFitReserve`, `CapTableConserves`, `PagesAgree`, `TerminalIsFinal`, `LifecycleFreezesGrant` | 350,019 |
| `equity_transfers` | 1 worker, 2 grants, 2 persons, quantities 1-2, transfers and cancellations by hand, 4 ledger rows | `HoldersSolvent` | 617,059 |
| `equity_interleaved` | 2 workers, any handlers, 2 grants, 1 request, 2 ledger rows | `TypeOK`, `LedgerHasNoGap`, `CompletionsAreLedgered`, `RequestsKeepGrant`, `GrantsMirrorLedger`, `ImplementsContract` | 375,469 |
| `equity_immutable` | 1 worker | **violated**: `LedgerIsImmutable` | - |
| `equity_overexercise` | 2 workers, 1 grant, 1 request | **violated**: `ExercisedHasVested` | - |
| `signatures_sequential` | 1 worker, 2 documents, 1 request, orders 1-2, 2 versions | `CompletionIsDeterministic`, `CapturedOnce`, `SignedIsFiled` | 126,651 |
| `signatures_interleaved` | 2 workers that may die, 1 document, 1 request | `TypeOK`, `EvidenceInOrder`, `SignedHasEvidence`, `VersionsNumbered`, `ImplementsContract` | 1,011,786 |
| `signatures_completion` | 2 workers | **violated**: `CompletionIsDeterministic` | - |
| `approvals` | 2 workers, 2 requests (one contended), required counts 1-2, 2 decisions of each kind | `TypeOK`, `StatusIsJustified`, `EnoughIsApproved`, `ApprovalIsFinal` | 1,741,649 |
| `organization` | 1 worker, 2 persons, 1 engagement with dates 0-1, 1 document, 1 job, 1 grant, 1 request, 2 links and 2 ledger rows | `ArchivedIsClear`, `EngagementDatesOrdered`, `QueuedHasRow`, `JobKeepsPerson` | 856,050 |
| `access` | 2 workers that may die, 2 roles, 2 sections, 3 users, 1 sign-in state, 2 sessions, 3 calls next to ensureCatalog | `AccountsHaveRoles`, `SignInIsOnce`, `GrantsFollowMaps`, `CatalogSettles` | 1,421,652 |
| `client` | each of 16 pages, 2 rows, 2 or 3 events that call the API | `EditsMatchTheirRow`, `ButtonsComeBack`, `ShowsWhatIsStored` | 1,199,440 |

**Two kinds of instance.** The *interleaved* runs put two handlers in flight and
check what the database's keys and transactions guarantee whatever happens. The
*sequential* runs put one in flight (the clock still moves between its awaits)
and check the rules the handlers themselves enforce by reading before writing:
a race can break those, and the violation runs show the ones a document of the
repository promises. With a second handler in flight none of the properties of a sequential run
is claimed. Two completions, two grants of one plan, an edit next to a request, two
transfers of one sender, a decline over a completion, two captures of one request, a
link made to a person who is being archived, a document archived while it is being
signed, and two patches of one engagement can each break the rule that one handler
alone keeps; the notes of the hazards say which. `organization` and `equity_transfers` are
sequential; `access` is interleaved, and in `client` handlers overlap as far as a
user can make them.

**Bounds.** `LedgerBound` and `VersionBound` stop new handlers and uploads once
the ledger or a document has that many rows; handlers in flight, and captures of
signed copies, still finish and may go beyond. Two workers suffice for a lost update, a
write skew or a key collision, each of which takes two transactions; every
invariant of the interleaved equity, signature and approval runs is proved for
any number of them. Two ledger
rows let a GRANT and an EXERCISE compete for a number, and a manual entry with
either. Two orders let one signer wait for another. `DecisionBound = 2` lets
approvals reach the required number and be followed by rejections. Numbers of
requests, grants and documents are such that the second is there where a rule
compares two (capacity of a plan, exclusivity of a GRANT row, the version
numbers of the document of a grant package).

`LinkBound` stops new rows that are linked to a person once there are two: enough
for a document with a signature request, an engagement or a job next to a grant,
and for each of the six counts of `deletePerson` to be the only one that is not
zero. `CallBound` counts calls and deaths; `ensureCatalog` is free, since
`CatalogSettles` is about calling it again. Three calls let two sign-ins
overlap with an account page, or a setting be edited next to two synchronisations.
In `equity_transfers` four ledger rows let a holder receive from a grant and a
transfer and send on twice. `UseBound` is the number of events of a visit that
call the API, three (two on the pages with most handlers): two rows opened and
one saved, or a save between two loads. The pages share no state but the server,
so that a visit of each is enough. `client` checks no deadlock: a visit ends when
its events are used up.

`Contended` of `approvals` is an assumption on the callers, not on the code: on
the requests outside it callers decide one after the other. `StatusIsJustified`
needs no such assumption; `EnoughIsApproved` and `ApprovalIsFinal` do.

**Fairness.** The equity, approval, organization and client runs check safety
only and assume none.
`FairSpec` of `SignatureSystem` is weak fairness of `Resume(w)` for each worker:
a handler whose awaited statement has settled is taken up again by the event
loop. New calls are never assumed to come. `SignedIsFiled` is checked without
failures: nothing in the code takes up a capture whose handler died (`Die`), so
no liveness holds then. `FairAccessSpec` is weak fairness of `ResumeSync(w)`, the same
event loop; `CatalogSettles` has as its premise that `ensureCatalog` keeps being
called, which sign-ins and the role page do, and says that the rows are in step
with the setting for good, whatever overlapping or dying handlers left behind.

### What the violations show

* **`equity_immutable`.** `docs/equity-domain-assumptions.md` and
  `docs/architecture/equity-ledger-design.md` call the ledger append-only;
  `updateGrant` rewrites the GRANT row of a grant and `deleteGrant` unlinks its
  rows. What does hold is `LedgerContract`: no row is lost or renumbered, and
  only GRANT rows are amended.
* **`equity_overexercise`.** Two completions of one approved request, in flight
  together, both pass the checks; if the second reads the ledger sequence after
  the first commits, the unique key does not stop it and the request is
  exercised twice.
* **`signatures_completion`.** The completion transaction counts the signers,
  and writes the status that count gave after others have committed: a decline
  in between is overwritten by SIGNED. `docs/architecture/esign-abstraction.md`
  promises deterministic completion rules.

Every property of a passing run has a mutant in `PROJECT.json`: a changed
definition of the model, as a plausible mistake in the code would change it,
under which TLC finds the property violated.

## 4. Proofs

The theorems hold for every value of the constants, from assumptions that only
give the constants their types and keep `None` apart (`ConstantsAssumption` of
`EquityStore`, `SignatureAssumption`, `ApprovalAssumption`, `PeopleAssumption`,
`CatalogAssumption`, `AccountsAssumption`, `AccountRowsAssumption` and
`PageAssumption`); TLC
evaluates them in every run.
Each proof module has the same plan: an inductive invariant, one lemma per
step, one that collects them, and the theorems as consequences by PTL.

* **`EquitySystemProofs`.** The invariants of the interleaved run are not
  inductive: a commit writes what an earlier step of the same handler read.
  `IInv` adds to them, for every handler in flight, what it may rely on at each
  step (`Sound`): a remembered number is 1 or one above a row that exists,
  the request it decides on or completes exists and was approved, a remembered
  row is well typed. All of these are monotone, which is why they survive the steps of
  others. From it: `TypeCorrect`, `LedgerNumbered`, `CompletionLedgered`,
  `RequestsHaveGrant`, `GrantsMirrored`, and `LedgerImplementsContract` (every
  step maps to an append, an amendment, an unlinking or a stutter).
* **`SumTheorems`.** Reserves, exercised quantities, balances and the cap table
  are sums over sets of rows, which `MapThenSumSet` computes by a recursive
  function on subsets, in the order `CHOOSE` picks. The lemmas show for any finite
  set that such a function exists and is unique, that the sum is what adding one
  element at a time gives in any order, and from that the sums of unions, of
  pointwise sums and of classes (`TotalByClass`: the sum over holders of what each
  holds). No induction rule is used: each takes a counterexample of least
  cardinality (`TakeAway`, from the well-foundedness of `<` on the naturals).
* **`EquitySequentialProofs`** assumes `OneAtATime`: any two workers are the
  same, so that one handler is in flight and only the clock moves between its awaits.
  `SeqInv` adds to `IInv` that the tables fit together (`TablesFit`: grants fit
  their reserve; what the ledger says was exercised of a grant is what its completed
  requests ask for, and has vested) and that the handler in flight is `Ready`: what it has
  checked still holds of the rows it will write. Without `Ready` the invariants are not
  inductive, since a commit relies on a capacity, a status or a vested quantity
  that an earlier step read. The one step that is not a handler's is the clock's,
  and vested quantities only grow with it, which takes lemmas about `VestingCalc`:
  the calculation never exceeds the grant and is monotone in its date. From
  `SeqInv`: `SequentialOnce`, `SequentialReserve`, `SequentialVested`,
  `SequentialPages`, and the action properties `SequentialTerminal` and
  `SequentialFreeze`.
  Two theorems have a further hypothesis, the choice of `Handlers` and entry types
  that the run of the same property makes, because the property is false without it:
  `SequentialHolders` assumes that entries by hand are of the types whose sender
  `createTransaction` checks and that no grant is edited (an edited GRANT row takes
  shares from a holder who may have passed them on), and `SequentialCapTable` that
  completions are all that issues shares and that `Persons` is finite. Its argument adds
  up the ledger by holder, by grant and by request. The query returns at most `CapTableTake`
  rows, whichever: the sum is exact where the ledger fits in the limit, and on a
  longer one it is a sum over a subset, and so at most what was granted.
  `SequentialPages` has the same premise for the two queries of the dashboard.
* **`SignatureProofs`.** The key observation is that statuses of participants
  go back and forth (views and declines overwrite signatures) but *evidence*,
  the PARTICIPANT_SIGNED events, only grows. A participant that was SIGNED when
  the order was checked has evidence then and ever after; a count that reached
  the total implies everyone's evidence. `Grows` states what no step takes
  away, `SoundKept` that what a handler relies on follows from it. From `IInv`:
  `SignatureTypes`, `EvidenceOrdered`, `SignedComplete`, `VersionsInSequence`,
  and `EvidenceImplementsContract`: creation of a request maps to `Ask`, a
  committed signature to `Sign`, a committed capture to `File`, everything else
  to a stutter. With one handler at a time, which may still die between any two
  awaits, more holds: a view or a signature writes the status its count justifies,
  and a capture that has found no record finds none when it commits. `SeqInv` of this
  module states that, and that stored records fit their requests. From it:
  `SequentialCompletion` and `SequentialCapture`.
* **`ApprovalProofs`.** A handler's counts are at most what the table holds when
  it commits, and exactly that where callers do not contend. From `IInv`:
  `ApprovalTypes`, `ApprovalJustified`, `ApprovalComplete`, and the action
  property `ApprovalKept`.
* **`AccessProofs`, roles.** `synced` remembers the maps of the synchronisations
  that overlap, until the next begins to write alone. `RoundSound` says of a permission that all of these maps
  want: it is granted, or a handler in flight has it on its list to create, and no list to
  delete has it; and the other way round for one that none wants. A handler that reads
  the rows while others write finds each such permission in its place or
  owed by a handler that will write it. When the last has written nothing is owed, which
  is `GrantsFollow`; a handler that dies forgets the round.
* **`AccessProofs`, accounts.** A sign-in state in which two callbacks never overlapped
  has at most one *claim*: a handler past the check of the state, or a session. A session
  means that the state is consumed, and a callback that finds it consumed ends, which is
  why a callback sent again later gives nothing. Nothing is assumed of the directory: it may
  give a code for every visit of one authorize URL. `contended` collects the states in which two callbacks were in flight
  at once; both may then get a session, as `consumedAt` is not
  checked again (`SignedInOnce` says nothing of their number). Next to it: unique
  keys hold because every write of a user row is refused otherwise, and the
  account a handler is about to give a role exists and no one else is creating it.
* **`OrganizationProofs`** builds on `EquitySystemProofs`, as its steps are those of
  both services. Under any interleaving (`PeopleInv`): a handler in flight writes
  rows that exist, and no step takes a job out of QUEUED; hence `PeopleTypes` and
  `JobsHaveRows`. The other theorems assume `OneAtATime`, that any two workers
  are the same: the code reads, checks and writes in statements of their own, and
  a second handler in between breaks each of the three. `SequentialInv` states
  what a check is still worth when its handler writes (`ChecksHeld`: nothing
  is linked, the patched dates are ordered, the person is there), that the row an
  equity handler is about to insert or update belongs to a person who is not
  archived (`RowsLinked`), and that a worker serves one store at a time
  (`OneStore`). From it: `DatesStayOrdered`, `ArchivedStaysClear` and the action
  property `PersonKept`.
* **`ClientProofs`.** Sixteen pages have about a hundred actions of few kinds. The
  module names them (`Kinds`): an event that sends nothing, a call sent with its flag, a
  load started, a reply, a read, a failure, an end, an end that reloads or sends again, the
  delivery of a batch. Each part of `ClientInv` is shown to survive every kind
  (`TypeStep`, `ButtonStep`, `EditStep`, `FreshStep`), and every action of every page
  to be of one (`EquityKinds` and its like). `ButtonInv` adds to `ButtonsComeBack`
  that a flag remembered in flight is still raised, or its handler would lower the flag
  of the next one. `EditInv` adds the forms that are open, and that while an
  account's fields are on their way no account form is open and its button is
  down. `FreshInv` says at every moment of a route that is not in
  doubt: what the page shows of it is what is stored, for what is wanted, or a
  handler in flight owes it (`Owes`): a load that still has the route in its batches,
  or an accepted write that will load it. That a load may be
  set although it is old needs no invariant: the handler that made it old owes the
  route, or the setter puts it in doubt. From it:
  `ButtonsAlwaysComeBack`, `EditsAlwaysMatchTheirRow`, `AlwaysShowsWhatIsStored`,
  for any rows, events and handlers that overlap.

TLC found each of these inductive invariants to hold before it was proved, as an
invariant of the instance of the matching run: the `SeqInv` of equity on that of
`equity_sequential` (350,019 states), the `SeqInv` of signatures on that of
`signatures_sequential` with handlers that may die (179,291 states), the parts of
`ClientInv` on that of `client` (1,199,440 states), and the parts of the invariants of roles
and accounts, `RoundSound` among them, on that of `access` (1,421,652 states).

Only model-checked: liveness (`SignedIsFiled`, `CatalogSettles`), which the
installed provers do not reach.
The properties of the sequential runs are theorems with one handler at a time only;
the runs `equity_overexercise` and `signatures_completion` show two of them broken by a race.

## 5. Not modelled

`components` of `PROJECT.json` gives the reason for each part left out. In
short: scripts and framework wiring have no protocol of their own; audit, tasks,
fundraising, valuations, reports, search, portal and settings are single
statements or reads on the server (their pages are in the client model); signer
links and object storage have no state the rules depend on. In the modelled
parts:

* `updateCapTableBase` writes a setting that only a percentage of the cap table
  is computed from; prices and percentages are left out of `CapTable`.
* The access policy of single records is a predicate over one request.
* Expiry of sessions and sign-in states, the rotation of the administrator's
  password, and logging out, which is `RevokeSession` with a cookie.

Some behaviours that were met while modelling are hazards with a note instead of
a property, because no text of the repository says what should hold:

* `expiresAt` of a signature request, which nothing reads. One approver may decide
  twice, and each decision counts: `decide` never compares approvers. An exercise may
  complete after the window of a termination was checked, in which case the check is
  made again with a later clock (`CheckExerciseWindow`).
* The cap table reads 4000 rows of the ledger, and GRANT rows use up that limit: on a
  longer ledger issued shares are missing from the page, and the dashboard, which reads
  200 grants and requests, differs from it. `CapTableConserves` is exact within
  the limit and an upper bound beyond it.
* The cap table keeps positions per share type and drops negative ones, so that
  entries of several kinds by hand can show more shares than were issued.
* The dashboard counts the unvested shares of every termination, the cap table
  zeroes a terminated grant: the two agree until someone leaves, and while the queries
  return all rows, which is how `PagesAgree` is stated.
* The balance `createTransaction` checks counts the GRANT rows of grants that
  have been deleted: `HoldersSolvent` is about the ledger, not about grants.
* Documents, signature requests and provisioning jobs are created for a person
  without asking whether they are archived; `ArchivedIsClear` leaves them out.
* Provisioning jobs stay QUEUED (the worker writes no row): they cannot be removed
  and keep their person from being deleted. `JobKeepsPerson` states it with one handler
  at a time; a job inserted between the counts of a deletion and its update is not
  counted. A job whose handler stops before the queue has it stays a row that no
  worker will see.
* `updateSectionRoleAssignments` reads, merges and writes the whole setting: of
  two updates in flight one may be lost.
* A stop between the account and its role leaves an account without a role that no later
  sign-in repairs; `AccountsHaveRoles` names these accounts (`orphans`) and shows that
  there are no others.
* Two callbacks of one sign-in state that overlap can give two sessions.
* An archived document whose request is being signed is set ACTIVE again by the
  capture, and a request made while the document is being archived is on an
  archived document.
* `event.currentTarget.reset()` after an `await` throws, so that twelve forms of the
  client (opening balance, manual transaction, exercise request, engagement, document, version,
  round, scenario, task, approval, job and valuation)
  report an error after a write that succeeded, and keep the list from before it.
  `ShowsWhatIsStored` would be false of them. It leaves out what they wrote until it is
  loaded again, as it does what a failed or an overtaken load and a
  lost reply leave behind; a search text changed twice in a row may so end
  with the rows of the older one.

## 6. Plan

Done, in this order: equity, documents and e-signature, approvals, each with its
proofs; the cap table and its pages; people and provisioning; accounts and
roles with their proofs; the pages of the web client.

Proved since: the sequential properties of equity and of signatures, and the client.

What could follow:

1. Signatures and people over one database, with the race of archiving a document
   that is being signed; today each side models the other's write.
2. The installation scripts: which step may be repeated after a failure.
