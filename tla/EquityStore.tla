----------------------------- MODULE EquityStore -----------------------------
(***************************************************************************)
(* The equity tables of prisma/schema.prisma, the queries the two equity   *)
(* services run on them, and the request handlers in flight.               *)
(*                                                                         *)
(* A handler is an async function: between two awaits it runs alone, and   *)
(* at every await any other handler may run. job[w] is what the handler    *)
(* run by worker w remembers across its awaits; every action of the        *)
(* modules that extend this one is the code between two awaits, with the   *)
(* statement (or the whole write part of a transaction) it awaits.         *)
(***************************************************************************)
EXTENDS VestingCalc, FiniteSets

CONSTANTS
  Plans, Grants, Requests, Persons,   \* the identifiers the tables may use
  Workers,        \* handlers that may be in flight at the same time
  Handlers,       \* the handlers a model runs, of HandlerNames
  Quantities,     \* the share quantities callers ask for
  Schedules,      \* the vesting schedules callers ask for
  ManualTypes,    \* the types callers give createTransaction
  PteMonths,      \* DEFAULT_PTE_MONTHS
  LastMonth,      \* bound: the clock stops here
  LedgerBound,    \* bound: no handler starts once the ledger has this many rows
  None            \* SQL NULL

HandlerNames ==
  {"createPlan", "updatePlan", "updateCapTablePools", "createGrant",
   "updateGrant", "deleteGrant", "createTransaction", "recordTermination",
   "createExerciseRequest", "approve", "decline", "cancel", "complete"}

\* enum EquityTransactionType
TransactionType ==
  {"ISSUE", "GRANT", "VEST", "EXERCISE", "CANCEL", "TRANSFER", "CONVERT",
   "SPLIT", "REVERSE", "CORRECT"}

\* The statuses of enum ExerciseRequestStatus that the code writes: no
\* handler writes DRAFT.
RequestStatus == {"SUBMITTED", "APPROVED", "DECLINED", "COMPLETED", "CANCELED"}

ASSUME ConstantsAssumption ==
  /\ Handlers \subseteq HandlerNames
  /\ Quantities \subseteq Nat \ {0}
  /\ Schedules \subseteq Schedule
  /\ ManualTypes \subseteq TransactionType
  /\ PteMonths \in Nat
  /\ LastMonth \in Nat
  /\ LedgerBound \in Nat
  /\ None \notin Plans \cup Grants \cup Requests \cup Persons

VARIABLES
  plans,          \* equity_plan: id -> reservedShares
  poolPlans,      \* the plan ids of the capTablePools setting
  grants,         \* grant_award with its vesting_schedule: id -> GrantRow
  deletedGrants,  \* ids of deleted grants: a UUID is never drawn twice
  requests,       \* exercise_request: id -> RequestRow
  terminations,   \* termination_record, those that name a grant
  ledger,         \* equity_transaction: ledgerSequence -> Entry
  now,            \* the month new Date() returns
  job,            \* worker -> what its handler remembers
  sent            \* worker -> the SUM createTransaction read first

tables == <<plans, poolPlans, grants, deletedGrants, requests, terminations, ledger>>
vars == <<plans, poolPlans, grants, deletedGrants, requests, terminations,
          ledger, now, job, sent>>

-----------------------------------------------------------------------------
(* Rows *)

GrantRow == [plan: Plans, person: Persons, qty: Quantities, schedule: Schedules]

RequestRow == [grant: Grants, person: Persons, qty: Quantities,
               status: RequestStatus, approvedAt: BOOLEAN, completedAt: BOOLEAN]

\* request is metadata.exerciseRequestId, which only a completion sets.
Entry == [type: TransactionType, plan: Plans \cup {None},
          grant: Grants \cup {None}, from: Persons \cup {None},
          to: Persons \cup {None}, qty: Quantities, request: Requests \cup {None}]

\* vestedQuantityAtEnd and unvestedQuantityAtEnd are left out: they are a
\* function of the row at insertion, and no handler modelled here reads them.
Termination == [grant: Grants \cup {None}, person: Persons, at: Nat, exerciseBy: Nat]

\* The step a handler is about to take; "idle" for a worker without one.
Step ==
  {"idle", "insertTermination",
   "exerciseWindow", "exerciseQuantity", "insertRequest",
   "approve", "decline", "cancel",
   "completeWindow", "completeQuantity", "completeSequence", "commitCompletion",
   "updatePlan",
   "grantPlan", "grantCapacity", "grantSequence", "commitGrant",
   "regrantPlan", "regrantCapacity", "commitRegrant", "commitDelete",
   "received", "entrySequence", "insertEntry"}

Job == [step: Step, plan: Plans \cup {None}, grant: Grants \cup {None},
        request: Requests \cup {None}, row: GrantRow \cup {None},
        entry: Entry \cup {None}, qty: Nat, asOf: Nat, seq: Nat]

NoJob == [step |-> "idle", plan |-> None, grant |-> None, request |-> None,
          row |-> None, entry |-> None, qty |-> 0, asOf |-> 0, seq |-> 0]

TypeOK ==
  /\ plans \in [DOMAIN plans -> Quantities] /\ DOMAIN plans \subseteq Plans
  /\ poolPlans \subseteq Plans
  /\ grants \in [DOMAIN grants -> GrantRow] /\ DOMAIN grants \subseteq Grants
  /\ deletedGrants \subseteq Grants
  /\ requests \in [DOMAIN requests -> RequestRow] /\ DOMAIN requests \subseteq Requests
  /\ terminations \subseteq Termination
  /\ ledger \in [DOMAIN ledger -> Entry] /\ DOMAIN ledger \subseteq Nat \ {0}
  /\ now \in Nat
  /\ job \in [Workers -> Job]

\* No rows: the database install.sh leaves.
Init ==
  /\ plans = <<>> /\ poolPlans = {}
  /\ grants = <<>> /\ deletedGrants = {}
  /\ requests = <<>> /\ terminations = {}
  /\ ledger = <<>>
  /\ now = 0
  /\ job = [w \in Workers |-> NoJob]
  /\ sent = [w \in Workers |-> 0]

-----------------------------------------------------------------------------
(* Queries *)

\* INSERT or UPDATE of the row k of a table.
Put(table, k, row) ==
  [x \in DOMAIN table \cup {k} |-> IF x = k THEN row ELSE table[x]]

\* MAX(ledgerSequence) ?? 0; used alone, it is a mutant of the next
LastSequence ==
  CHOOSE m \in {0} \cup DOMAIN ledger : \A s \in DOMAIN ledger : s <= m

\* nextLedgerSequence
NextSequence == LastSequence + 1

\* Mutant: no unique key on the number.
AnySequence(s) == s \in Nat

\* @@unique([organizationId, ledgerSequence]): the insert fails on a used number.
SequenceFree(s) == s \notin DOMAIN ledger

\* SUM(quantity) over the rows S of a table
QuantitySum(table, S) == MapThenSumSet(LAMBDA k : table[k].qty, S)

GrantSum(S) == QuantitySum(grants, S)
RequestSum(S) == QuantitySum(requests, S)
EntrySum(S) == QuantitySum(ledger, S)

GrantsOf(p) == {g \in DOMAIN grants : grants[g].plan = p}

\* assertPlanCapacity's aggregate: excluded is the grant being updated, or None.
PlanAllocated(p, excluded) == GrantSum(GrantsOf(p) \ {excluded})

RequestsOf(g) == {r \in DOMAIN requests : requests[r].grant = g}

RequestedQuantity(g, statuses) ==
  RequestSum({r \in RequestsOf(g) : requests[r].status \in statuses})

SentBy(p) == EntrySum({s \in DOMAIN ledger : ledger[s].from = p})
ReceivedBy(p) == EntrySum({s \in DOMAIN ledger : ledger[s].to = p})

\* The termination of g and p with the latest terminatedAt has its window over.
WindowExpired(g, p, date) ==
  \E t \in terminations :
    /\ t.grant = g /\ t.person = p
    /\ \A u \in terminations : u.grant = g /\ u.person = p => u.at <= t.at
    /\ date > t.exerciseBy

\* calculate() as the lifecycle service calls it: without acceleration.
Vested(row, date) == VestedQuantity(row.qty, row.schedule, 0, date)

\* Mutant: terminations are not counted.
HasRequests(g) == RequestsOf(g) # {}

\* exerciseRequest.count + terminationRecord.count of a grant
HasLifecycle(g) ==
  RequestsOf(g) # {} \/ \E t \in terminations : t.grant = g

-----------------------------------------------------------------------------
(* Handlers in flight *)

\* Worker w takes up handler h and remembers j.
Begin(w, h, j) ==
  /\ h \in Handlers
  /\ job[w].step = "idle"
  /\ Cardinality(DOMAIN ledger) < LedgerBound
  /\ job' = [job EXCEPT ![w] = j]

At(w, step) == job[w].step = step

\* The handler goes on to its next await, or returns (or throws).
Continue(w, j) == job' = [job EXCEPT ![w] = j]
Finish(w) == Continue(w, NoJob)

\* A check: the handler remembers j when it passes and throws when it does not.
Check(w, passes, j) ==
  \/ passes /\ Continue(w, j)
  \/ ~passes /\ Finish(w)

\* Time passes, up to LastMonth.
Tick ==
  /\ now < LastMonth
  /\ now' = now + 1
  /\ UNCHANGED <<tables, job, sent>>
==============================================================================
