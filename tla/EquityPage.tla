----------------------------- MODULE EquityPage -----------------------------
(***************************************************************************)
(* apps/web/app/app/equity/page.tsx: the workspace of grants, plans, cap   *)
(* table and ledger, with six modals over it.                              *)
(***************************************************************************)
EXTENDS PageKit

\* loadData: six fetches at once, whose results are set one by one.
EquityLoad == <<{"lists", "capTable"}>>

\* What the forms write, and what of the page it changes.
EquityTouched(form) ==
  IF form \in {"base", "pools"} THEN {"capTable"} ELSE {"lists", "capTable"}

\* Mutant: the page keeps the rows it had.
NotReloading(i) == End(i) /\ UNCHANGED <<page, stored, shown, uses, troubled>>

\* Writes that answer with a new row or nothing: the page loads itself again.
Reloading(i) == Reload(i, EquityLoad)

-----------------------------------------------------------------------------
(* Grants *)

\* The table of grants, below the modals.
GrantList == shown["lists"] # NotShown

\* The form in its modal needs a person to choose.
GrantForm == modal = "grant" /\ shown["lists"] # NotShown

\* openCreateGrantModal
OpenCreateGrant == Open("grant") /\ edit' = [edit EXCEPT !.grant = NoEdit]

\* startGrantEdit: any row of the list.
StartGrantEdit(g) ==
  /\ GrantList
  /\ Open("grant")
  /\ edit' = [edit EXCEPT !.grant = [target |-> g, origin |-> g]]

\* cancelGrantEdit, the grant modal's onClose.
CancelGrantEdit ==
  /\ modal = "grant"
  /\ Close
  /\ edit' = [edit EXCEPT !.grant = NoEdit]

\* onSubmitGrant: a POST, or a PATCH of the row that is edited, with the whole form.
SubmitGrant ==
  /\ GrantForm
  /\ Send("grant", Flag("grant"), edit.grant)
  /\ UNCHANGED <<wanted, modal, edit>>

RejectGrant == GrantForm /\ Reject(Flag("grant"))

GrantSaved(i) ==
  /\ At(i, "accepted") /\ calls[i].form = "grant"
  /\ modal' = None
  /\ edit' = [edit EXCEPT !.grant = NoEdit]
  /\ Reloading(i)
  /\ UNCHANGED wanted

\* deleteGrant: no flag disables its button. The handler captures editingGrantId,
\* which a form that another handler has closed leaves set.
DeleteGrant(g) ==
  /\ modal = None /\ GrantList
  /\ Send("deleteGrant", None, [target |-> g, origin |-> edit.grant.target])
  /\ UNCHANGED <<wanted, modal, edit>>

GrantDeleted(i) ==
  /\ At(i, "accepted") /\ calls[i].form = "deleteGrant"
  /\ IF calls[i].origin = calls[i].target
     THEN modal' = None /\ edit' = [edit EXCEPT !.grant = NoEdit]
     ELSE UNCHANGED <<modal, edit>>
  /\ Reloading(i)
  /\ UNCHANGED wanted

-----------------------------------------------------------------------------
(* The cap table: the answer is the new cap table. *)

\* openBaseSharesModal, openPoolConfigModal, openOpeningBalanceModal and
\* openManualTxnModal
OpenEquityModal(m) ==
  /\ m \in {"base", "pools", "opening", "txn"}
  /\ Open(m)
  /\ UNCHANGED edit

CloseEquityModal ==
  /\ modal \in {"base", "pools", "opening", "txn"}
  /\ Close
  /\ UNCHANGED <<edit>>

\* The forms of the total and of the two pools.
CapTableForm(form) == form \in {"base", "pools"} /\ modal = form

\* onUpdateCapTableBase, onSavePoolConfig
SubmitCapTable(form) ==
  /\ CapTableForm(form)
  /\ Send(form, Flag(form), NoEdit)
  /\ UNCHANGED <<wanted, modal, edit>>

RejectCapTable(form) == CapTableForm(form) /\ Reject(Flag(form))

\* setCapTable(payload), and the pool form with it.
CapTableSaved(i) ==
  /\ At(i, "accepted") /\ calls[i].form \in {"base", "pools"}
  /\ shown' = [shown EXCEPT !["capTable"] = [version |-> calls[i].got["capTable"], key |-> None]]
  /\ troubled' = Judged(calls[i], {"capTable"})
  /\ modal' = None
  /\ End(i)
  /\ UNCHANGED <<page, stored, wanted, edit, uses>>

-----------------------------------------------------------------------------
(* The ledger *)

\* The form of an opening balance needs a person to choose.
OpeningForm == modal = "opening" /\ shown["lists"] # NotShown

\* onRecordOpeningBalance
SubmitOpening ==
  /\ OpeningForm
  /\ Send("opening", Flag("opening"), NoEdit)
  /\ UNCHANGED <<wanted, modal, edit>>

RejectOpening == OpeningForm /\ Reject(Flag("opening"))

TxnForm == modal = "txn"

\* onCreateManualTxn
SubmitTxn ==
  /\ TxnForm
  /\ Send("txn", Flag("txn"), NoEdit)
  /\ UNCHANGED <<wanted, modal, edit>>

RejectTxn == TxnForm /\ Reject(Flag("txn"))

\* Neither reaches setModalView(null) and loadData().
EntryRecorded(i) ==
  /\ At(i, "accepted") /\ calls[i].form \in {"opening", "txn"}
  /\ ResetThrows(i, EquityTouched(calls[i].form))
  /\ UNCHANGED <<modal, edit>>

-----------------------------------------------------------------------------
(* Plans *)

\* The table of plans, below the modals.
PlanList == shown["lists"] # NotShown

PlanForm == modal = "plan"

\* openCreatePlanModal
OpenCreatePlan == Open("plan") /\ edit' = [edit EXCEPT !.plan = NoEdit]

StartPlanEdit(p) ==
  /\ PlanList
  /\ Open("plan")
  /\ edit' = [edit EXCEPT !.plan = [target |-> p, origin |-> p]]

\* resetPlanEditor
ResetPlanEditor ==
  /\ PlanForm
  /\ Close
  /\ edit' = [edit EXCEPT !.plan = NoEdit]

\* onSavePlan
SubmitPlan ==
  /\ PlanForm
  /\ Send("plan", Flag("plan"), edit.plan)
  /\ UNCHANGED <<wanted, modal, edit>>

RejectPlan == PlanForm /\ Reject(Flag("plan"))

PlanSaved(i) ==
  /\ At(i, "accepted") /\ calls[i].form = "plan"
  /\ modal' = None
  /\ edit' = [edit EXCEPT !.plan = NoEdit]
  /\ Reloading(i)
  /\ UNCHANGED wanted

-----------------------------------------------------------------------------

EquityUse ==
  \/ OpenCreateGrant \/ CancelGrantEdit \/ SubmitGrant \/ RejectGrant
  \/ \E r \in Rows : StartGrantEdit(r) \/ DeleteGrant(r) \/ StartPlanEdit(r)
  \/ \E m \in {"base", "pools", "opening", "txn"} :
       OpenEquityModal(m) \/ SubmitCapTable(m) \/ RejectCapTable(m)
  \/ CloseEquityModal \/ SubmitOpening \/ RejectOpening \/ SubmitTxn \/ RejectTxn
  \/ OpenCreatePlan \/ ResetPlanEditor \/ SubmitPlan \/ RejectPlan
  \/ Refresh(EquityLoad)

EquityGoesOn(i) ==
  \/ GrantSaved(i) \/ GrantDeleted(i) \/ CapTableSaved(i) \/ EntryRecorded(i) \/ PlanSaved(i)
  \/ Deliver(i, <<>>, {}) /\ UNCHANGED <<wanted, modal, edit>>

EquityNext ==
  /\ page = "equity"
  /\ \/ EquityUse
     \/ \E i \in DOMAIN calls : EquityGoesOn(i) \/ Answer(i, EquityTouched(calls[i].form))
=============================================================================
