------------------------------ MODULE CapTable ------------------------------
(***************************************************************************)
(* The reads of modules/equity/equity.service.ts that fold the equity      *)
(* tables into a page: the cap table, the dashboard and the page of a      *)
(* grant. All of GrantRow are options.                                     *)
(*                                                                         *)
(* Some of the reads are cut off after a number of rows. Which rows are    *)
(* cut off is decided by dates that callers choose and the model leaves    *)
(* out, so a read may return any rows of that number.                      *)
(***************************************************************************)
EXTENDS EquityStore

CONSTANTS
  CapTableTake,   \* take of the ledger query of getCapTable
  DashboardTake   \* take of the three queries of getDashboard

ASSUME TakeAssumption == CapTableTake \in Nat /\ DashboardTake \in Nat

\* findMany with take
FindMany(rows, take) ==
  {S \in SUBSET rows : Cardinality(S) = Min({take, Cardinality(rows)})}

\* clampNonNegative
NonNegative(n) == Max({0, n})

-----------------------------------------------------------------------------
(* Grants *)

\* Mutant: approved requests are counted as exercised.
TakenFrom(g) == RequestedQuantity(g, {"APPROVED", "COMPLETED"})

\* exerciseByGrant, and exercisedCompleted of the grant's page
ExercisedFrom(g) == RequestedQuantity(g, {"COMPLETED"})

\* remainingQuantity of the grant's page
RemainingQuantity(g) == NonNegative(grants[g].qty - ExercisedFrom(g))

\* terminationByGrant: one termination ends a grant, vested shares included.
Terminated(g) == \E t \in terminations : t.grant = g

OutstandingFrom(g) == IF Terminated(g) THEN 0 ELSE RemainingQuantity(g)

ReturnedFrom(g) == IF Terminated(g) THEN RemainingQuantity(g) ELSE 0

\* assigned, outstanding and returned shares, over both pools: which pool a
\* grant counts in is decided by its plan alone.
AssignedShares == GrantSum(DOMAIN grants)
OutstandingOptions == MapThenSumSet(OutstandingFrom, DOMAIN grants)
ReturnedShares == MapThenSumSet(ReturnedFrom, DOMAIN grants)

-----------------------------------------------------------------------------
(* Issued shares *)

\* readTransactionInstrumentType, for the rows without an instrumentType.
InstrumentType(type) ==
  CASE type = "EXERCISE" -> "COMMON_EXERCISED"
    [] type = "CONVERT" -> "COMMON_SAFE"
    [] type = "ISSUE" -> "COMMON_FOUNDER"
    [] OTHER -> "COMMON_OTHER"

ShareTypes == {InstrumentType(type) : type \in TransactionType}

\* The ledger query of getCapTable: GRANT rows count against the limit.
CapTableReads ==
  FindMany({s \in DOMAIN ledger : ledger[s].to # None \/ ledger[s].from # None},
           CapTableTake)

\* positionMap of the rows read: GRANT rows are left out, as grants are counted
\* above.
PositionRows(rows, shareType) ==
  {s \in rows : ledger[s].type # "GRANT" /\ InstrumentType(ledger[s].type) = shareType}

Position(rows, p, shareType) ==
  EntrySum({s \in PositionRows(rows, shareType) : ledger[s].to = p})
    - EntrySum({s \in PositionRows(rows, shareType) : ledger[s].from = p})

\* commonIssuedShares: the positive positions only.
CommonIssuedShares(rows) ==
  MapThenSumSet(LAMBDA x : NonNegative(Position(rows, x[1], x[2])), Persons \X ShareTypes)

-----------------------------------------------------------------------------
(* Dashboard *)

\* unvestedQuantityAtEnd, which recordTermination stored: the grant has not
\* changed since, as a termination freezes it.
ForfeitedBy(t) ==
  UnvestedQuantity(grants[t.grant].qty, grants[t.grant].schedule, 0, t.at)

\* Mutant: requests that are not completed count as exercised too.
RequestedIn(reqs) == RequestSum(reqs)

\* exercised, of the requests read
DashboardExercised(reqs) == RequestSum({r \in reqs : requests[r].status = "COMPLETED"})

\* outstandingOptions, of the grants, requests and terminations read: every
\* termination counts.
DashboardOutstanding(awards, reqs, terms) ==
  NonNegative(GrantSum(awards) - DashboardExercised(reqs)
              - MapThenSumSet(ForfeitedBy, {t \in terms : t.grant # None}))
==============================================================================
