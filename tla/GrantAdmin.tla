----------------------------- MODULE GrantAdmin -----------------------------
(***************************************************************************)
(* The handlers of modules/equity/equity.service.ts that write plans,      *)
(* grants and the ledger. Postgres runs their transactions at its default  *)
(* READ COMMITTED: every statement sees what is committed when it runs, so *)
(* the reads of a transaction are steps of their own and its writes one    *)
(* step, at commit.                                                        *)
(***************************************************************************)
EXTENDS EquityStore

-----------------------------------------------------------------------------
(* Plans *)

CreatePlan(w, p, reserved) ==
  /\ "createPlan" \in Handlers
  /\ job[w].step = "idle"
  /\ p \notin DOMAIN plans
  /\ plans' = Put(plans, p, reserved)
  /\ UNCHANGED <<poolPlans, grants, deletedGrants, requests, terminations, ledger,
                 now, job, sent>>

\* updatePlan reads the granted total, checks, then updates, without a transaction.
StartUpdatePlan(w, p, reserved) ==
  /\ p \in DOMAIN plans
  /\ PlanAllocated(p, None) <= reserved
  /\ Begin(w, "updatePlan",
           [NoJob EXCEPT !.step = "updatePlan", !.plan = p, !.qty = reserved])
  /\ UNCHANGED <<tables, now, sent>>

UpdatePlan(w) ==
  /\ At(w, "updatePlan")
  /\ plans' = [plans EXCEPT ![job[w].plan] = job[w].qty]
  /\ Finish(w)
  /\ UNCHANGED <<poolPlans, grants, deletedGrants, requests, terminations, ledger,
                 now, sent>>

\* updateCapTablePools: the ids must exist; plans are never deleted.
UpdateCapTablePools(w, S) ==
  /\ "updateCapTablePools" \in Handlers
  /\ job[w].step = "idle"
  /\ S \subseteq DOMAIN plans
  /\ poolPlans' = S
  /\ UNCHANGED <<plans, grants, deletedGrants, requests, terminations, ledger,
                 now, job, sent>>

\* assertGrantPoolPlanSelection: any plan while no pool is configured.
PoolAllows(p) == poolPlans = {} \/ p \in poolPlans

ValidSchedule(s) == s.duration >= s.cliff /\ s.duration % s.interval = 0

-----------------------------------------------------------------------------
(* createGrant: pool configuration, then in a transaction the plan, its    *)
(* granted total, the next sequence number, and the three inserts.         *)

StartCreateGrant(w, row) ==
  /\ ValidSchedule(row.schedule)
  /\ PoolAllows(row.plan)
  /\ Begin(w, "createGrant", [NoJob EXCEPT !.step = "grantPlan", !.row = row])
  /\ UNCHANGED <<tables, now, sent>>

\* job.qty becomes reservedShares as this transaction saw it.
ReadGrantPlan(w) ==
  LET j == job[w] IN
  /\ At(w, "grantPlan")
  /\ \/ /\ j.row.plan \in DOMAIN plans
        /\ Continue(w, [j EXCEPT !.step = "grantCapacity", !.qty = plans[j.row.plan]])
     \/ j.row.plan \notin DOMAIN plans /\ Finish(w)
  /\ UNCHANGED <<tables, now, sent>>

\* Mutant: some room is enough.
HasRoom(reserved, row, excluded) == reserved - PlanAllocated(row.plan, excluded) > 0

\* assertPlanCapacity
HasCapacity(reserved, row, excluded) ==
  reserved - PlanAllocated(row.plan, excluded) >= row.qty

CheckGrantCapacity(w) ==
  LET j == job[w] IN
  /\ At(w, "grantCapacity")
  /\ Check(w, HasCapacity(j.qty, j.row, None), [j EXCEPT !.step = "grantSequence"])
  /\ UNCHANGED <<tables, now, sent>>

ReadGrantSequence(w) ==
  /\ At(w, "grantSequence")
  /\ Continue(w, [job[w] EXCEPT !.step = "commitGrant", !.seq = NextSequence])
  /\ UNCHANGED <<tables, now, sent>>

GrantEntry(g, row) ==
  [request |-> None, grant |-> g, type |-> "GRANT", qty |-> row.qty,
   plan |-> row.plan, from |-> None, to |-> row.person]

\* Grant, schedule and ledger row commit together, or the unique sequence
\* number rolls them back. Grants is a bound: no id left, no grant.
CommitGrant(w) ==
  LET j == job[w] IN
  /\ At(w, "commitGrant")
  /\ \/ /\ SequenceFree(j.seq)
        /\ \E g \in Grants \ (DOMAIN grants \cup deletedGrants) :
             /\ grants' = Put(grants, g, j.row)
             /\ ledger' = Put(ledger, j.seq, GrantEntry(g, j.row))
     \/ /\ \/ ~SequenceFree(j.seq)
           \/ Grants \subseteq DOMAIN grants \cup deletedGrants
        /\ UNCHANGED <<grants, ledger>>
  /\ Finish(w)
  /\ UNCHANGED <<plans, poolPlans, deletedGrants, requests, terminations, now, sent>>

-----------------------------------------------------------------------------
(* updateGrant: existence and lifecycle counts, pool configuration and     *)
(* plan, then in a transaction the granted total without this grant and    *)
(* the writes, which rewrite the GRANT row of the ledger in place.         *)

StartUpdateGrant(w, g, row) ==
  /\ ValidSchedule(row.schedule)
  /\ g \in DOMAIN grants
  /\ ~HasLifecycle(g)
  /\ Begin(w, "updateGrant",
           [NoJob EXCEPT !.step = "regrantPlan", !.grant = g, !.row = row])
  /\ UNCHANGED <<tables, now, sent>>

ReadUpdatePlan(w) ==
  LET j == job[w] IN
  /\ At(w, "regrantPlan")
  /\ \/ /\ PoolAllows(j.row.plan) /\ j.row.plan \in DOMAIN plans
        /\ Continue(w, [j EXCEPT !.step = "regrantCapacity", !.qty = plans[j.row.plan]])
     \/ ~(PoolAllows(j.row.plan) /\ j.row.plan \in DOMAIN plans) /\ Finish(w)
  /\ UNCHANGED <<tables, now, sent>>

CheckUpdateCapacity(w) ==
  LET j == job[w] IN
  /\ At(w, "regrantCapacity")
  /\ Check(w, HasCapacity(j.qty, j.row, j.grant), [j EXCEPT !.step = "commitRegrant"])
  /\ UNCHANGED <<tables, now, sent>>

\* Mutant: the quantity of the ledger row stays.
RegrantedHolder(e, g, row) ==
  IF e.grant = g /\ e.type = "GRANT"
  THEN [e EXCEPT !.plan = row.plan, !.to = row.person]
  ELSE e

\* updateMany where grantId = g and type = GRANT
Regranted(e, g, row) ==
  IF e.grant = g /\ e.type = "GRANT"
  THEN [e EXCEPT !.plan = row.plan, !.to = row.person, !.qty = row.qty]
  ELSE e

\* The update of a grant that has gone throws, and all of it is rolled back.
CommitUpdate(w) ==
  LET j == job[w] IN
  /\ At(w, "commitRegrant")
  /\ \/ /\ j.grant \in DOMAIN grants
        /\ grants' = [grants EXCEPT ![j.grant] = j.row]
        /\ ledger' = [s \in DOMAIN ledger |-> Regranted(ledger[s], j.grant, j.row)]
     \/ j.grant \notin DOMAIN grants /\ UNCHANGED <<grants, ledger>>
  /\ Finish(w)
  /\ UNCHANGED <<plans, poolPlans, deletedGrants, requests, terminations, now, sent>>

-----------------------------------------------------------------------------
(* deleteGrant: existence and lifecycle counts, then the transaction. *)

StartDeleteGrant(w, g) ==
  /\ g \in DOMAIN grants
  /\ ~HasLifecycle(g)
  /\ Begin(w, "deleteGrant", [NoJob EXCEPT !.step = "commitDelete", !.grant = g])
  /\ UNCHANGED <<tables, now, sent>>

Unlinked(row, g) == IF row.grant = g THEN [row EXCEPT !.grant = None] ELSE row

\* Mutant: the rows of the grant are deleted with it.
LedgerWithout(g) == Restrict(ledger, {s \in DOMAIN ledger : ledger[s].grant # g})

UnlinkedLedger(g) == [s \in DOMAIN ledger |-> Unlinked(ledger[s], g)]

\* Mutant: the foreign key of a request does not hold the grant.
GrantExists(g) == g \in DOMAIN grants

\* ExerciseRequest.grant is onDelete: Restrict.
DeleteAllowed(g) == g \in DOMAIN grants /\ RequestsOf(g) = {}

\* TerminationRecord.grant is onDelete: SetNull, as the ledger rows are by hand.
CommitDelete(w) ==
  LET g == job[w].grant IN
  /\ At(w, "commitDelete")
  /\ \/ /\ DeleteAllowed(g)
        /\ grants' = Restrict(grants, DOMAIN grants \ {g})
        /\ deletedGrants' = deletedGrants \cup {g}
        /\ ledger' = UnlinkedLedger(g)
        /\ terminations' = {Unlinked(t, g) : t \in terminations}
     \/ ~DeleteAllowed(g) /\ UNCHANGED <<grants, deletedGrants, ledger, terminations>>
  /\ Finish(w)
  /\ UNCHANGED <<plans, poolPlans, requests, now, sent>>

-----------------------------------------------------------------------------
(* createTransaction: what the sender sent, what it received, the next     *)
(* sequence number, the insert; no transaction around them.                *)

ManualEntry(type, from, to, q) ==
  [request |-> None, grant |-> None, type |-> type, qty |-> q,
   plan |-> None, from |-> from, to |-> to]

\* The types whose sender's balance is checked.
CheckedTypes == {"TRANSFER", "EXERCISE", "CANCEL"}

StartTransaction(w, e) ==
  LET checked == e.type \in CheckedTypes /\ e.from # None IN
  /\ e.type = "TRANSFER" => e.from # None /\ e.to # None
  /\ e.type = "GRANT" => e.from = None
  /\ Begin(w, "createTransaction",
           [NoJob EXCEPT !.step = IF checked THEN "received" ELSE "entrySequence",
                         !.entry = e])
  /\ sent' = [sent EXCEPT ![w] = IF checked THEN SentBy(e.from) ELSE 0]
  /\ UNCHANGED <<tables, now>>

\* Mutant: what was sent is not subtracted.
HasReceived(p, outgoing, q) == ReceivedBy(p) >= q

HasBalance(p, outgoing, q) == ReceivedBy(p) - outgoing >= q

CheckBalance(w) ==
  LET j == job[w] IN
  /\ At(w, "received")
  /\ Check(w, HasBalance(j.entry.from, sent[w], j.entry.qty),
           [j EXCEPT !.step = "entrySequence"])
  /\ sent' = [sent EXCEPT ![w] = 0]
  /\ UNCHANGED <<tables, now>>

ReadEntrySequence(w) ==
  /\ At(w, "entrySequence")
  /\ Continue(w, [job[w] EXCEPT !.step = "insertEntry", !.seq = NextSequence])
  /\ UNCHANGED <<tables, now, sent>>

InsertEntry(w) ==
  LET j == job[w] IN
  /\ At(w, "insertEntry")
  /\ \/ SequenceFree(j.seq) /\ ledger' = Put(ledger, j.seq, j.entry)
     \/ ~SequenceFree(j.seq) /\ UNCHANGED ledger
  /\ Finish(w)
  /\ UNCHANGED <<plans, poolPlans, grants, deletedGrants, requests, terminations,
                 now, sent>>

-----------------------------------------------------------------------------

AdminStep(w) ==
  \/ \E p \in Plans, q \in Quantities : CreatePlan(w, p, q) \/ StartUpdatePlan(w, p, q)
  \/ UpdatePlan(w)
  \/ \E S \in SUBSET Plans : UpdateCapTablePools(w, S)
  \/ \E row \in GrantRow : StartCreateGrant(w, row)
  \/ ReadGrantPlan(w)
  \/ CheckGrantCapacity(w)
  \/ ReadGrantSequence(w)
  \/ CommitGrant(w)
  \/ \E g \in Grants, row \in GrantRow : StartUpdateGrant(w, g, row)
  \/ ReadUpdatePlan(w)
  \/ CheckUpdateCapacity(w)
  \/ CommitUpdate(w)
  \/ \E g \in Grants : StartDeleteGrant(w, g)
  \/ CommitDelete(w)
  \/ \E type \in ManualTypes, from \in Persons \cup {None}, to \in Persons \cup {None},
        q \in Quantities : StartTransaction(w, ManualEntry(type, from, to, q))
  \/ CheckBalance(w)
  \/ ReadEntrySequence(w)
  \/ InsertEntry(w)
==============================================================================
