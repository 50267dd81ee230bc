---------------------------- MODULE EquitySystem ----------------------------
(***************************************************************************)
(* The two equity services over their shared tables: any handler of either *)
(* may be in flight in any worker, and the clock advances between steps.   *)
(***************************************************************************)
EXTENDS ExerciseLifecycle, GrantAdmin, CapTable

\* No handler is in flight and no caller calls: the server waits.
Quiescent ==
  /\ \A w \in Workers : At(w, "idle")
  /\ UNCHANGED vars

Next ==
  \/ \E w \in Workers : ExerciseStep(w) \/ AdminStep(w)
  \/ Tick
  \/ Quiescent

Spec == Init /\ [][Next]_vars

-----------------------------------------------------------------------------
(* What every interleaving of the handlers keeps *)

\* The ledger numbers its rows 1, 2, 3, ... without a gap: every handler
\* inserts at a maximum it read earlier, plus one, and the unique key turns
\* the loser of a race away instead of letting it skip or share a number.
LedgerHasNoGap == DOMAIN ledger = 1..Cardinality(DOMAIN ledger)

\* completedAt and the EXERCISE row of a request are written together or not
\* at all, only a request that was approved at some time gets one, and the row
\* names the request's grant, holder and quantity.
CompletionsAreLedgered ==
  /\ \A r \in DOMAIN requests :
       requests[r].completedAt => \E s \in DOMAIN ledger : ledger[s].request = r
  /\ \A s \in DOMAIN ledger : ledger[s].request # None =>
       LET r == ledger[s].request IN
       /\ r \in DOMAIN requests
       /\ requests[r].completedAt /\ requests[r].approvedAt
       /\ ledger[s] = ExerciseEntry(r)

\* An exercise request never outlives its grant, though deleteGrant counted the
\* requests before its transaction: the foreign keys catch what the count missed.
RequestsKeepGrant == \A r \in DOMAIN requests : requests[r].grant \in DOMAIN grants

\* Every grant has exactly one GRANT row in the ledger, with its plan, holder
\* and quantity, through updates in place and deletions of other grants.
GrantMirrored(g, s) ==
  /\ ledger[s].type = "GRANT"
  /\ ledger[s].grant = g

GrantsMirrorLedger ==
  /\ \A g \in DOMAIN grants : \E s \in DOMAIN ledger : ledger[s] = GrantEntry(g, grants[g])
  /\ \A s, t \in DOMAIN ledger, g \in Grants :
       GrantMirrored(g, s) /\ GrantMirrored(g, t) => s = t /\ g \in DOMAIN grants

\* The shared ledger is the contract's log.
Contract == INSTANCE LedgerContract WITH log <- ledger

ImplementsContract == Contract!Spec

-----------------------------------------------------------------------------
(* What holds when handlers run one at a time, and a race can break *)

ExercisedQuantity(g) ==
  EntrySum({s \in DOMAIN ledger : ledger[s].request # None /\ ledger[s].grant = g})

\* The options of a grant exercised through requests have vested.
ExercisedHasVested ==
  \A g \in DOMAIN grants : ExercisedQuantity(g) <= Vested(grants[g], now)

\* A request is exercised once.
ExercisedOnce ==
  \A s, t \in DOMAIN ledger :
    ledger[s].request # None /\ ledger[s].request = ledger[t].request => s = t

\* The grants of a plan fit in its reserve.
GrantsFitReserve ==
  \A p \in DOMAIN plans : PlanAllocated(p, None) <= plans[p]

\* While completions are all that issues shares, the cap table accounts for
\* every granted share once: issued to its holder, outstanding, or returned by
\* a termination. Issued shares come from the ledger, the others from grants,
\* requests and terminations. On a ledger longer than the query's limit issued
\* shares are missing from the page, but none is counted twice.
CapTableConserves ==
  \A rows \in CapTableReads :
    LET shown == CommonIssuedShares(rows) + OutstandingOptions + ReturnedShares IN
    /\ shown <= AssignedShares
    /\ Cardinality(DOMAIN ledger) <= CapTableTake => shown = AssignedShares

\* Until someone leaves, and while its queries return all rows, the dashboard
\* has as many options outstanding as the cap table, though it sums the requests
\* and not the grants; and the page of a grant, which cuts off at zero, never
\* needs to.
PagesAgree ==
  /\ \A awards \in FindMany(DOMAIN grants, DashboardTake),
        reqs \in FindMany(DOMAIN requests, DashboardTake) :
       awards = DOMAIN grants /\ reqs = DOMAIN requests /\ terminations = {} =>
         DashboardOutstanding(awards, reqs, terminations) = OutstandingOptions
  /\ \A g \in DOMAIN grants : RemainingQuantity(g) + ExercisedFrom(g) = grants[g].qty

\* No one has sent more shares than they received, while transfers and
\* cancellations are all that is entered by hand and no grant is edited: the
\* balance that createTransaction checks is that of the whole ledger, rows of
\* deleted grants included.
HoldersSolvent == \A p \in Persons : SentBy(p) <= ReceivedBy(p)

\* A request in a terminal state stays in it.
Terminal == {"COMPLETED", "DECLINED", "CANCELED"}

TerminalIsFinal ==
  [][\A r \in DOMAIN requests : requests[r].status \in Terminal =>
       requests'[r].status = requests[r].status]_vars

\* A grant with lifecycle events is neither edited nor deleted.
LifecycleFreezesGrant ==
  [][\A g \in DOMAIN grants :
       (RequestsOf(g) # {} \/ \E t \in terminations : t.grant = g) =>
         g \in DOMAIN grants' /\ grants'[g] = grants[g]]_vars

-----------------------------------------------------------------------------
(* What the design says of the ledger and the code does not keep *)

\* A row of the ledger never changes once written.
LedgerIsImmutable ==
  [][\A s \in DOMAIN ledger : s \in DOMAIN ledger' /\ ledger'[s] = ledger[s]]_vars
==============================================================================
