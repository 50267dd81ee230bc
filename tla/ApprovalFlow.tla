---------------------------- MODULE ApprovalFlow ----------------------------
(***************************************************************************)
(* modules/approvals/approvals.service.ts: requests for approval and the   *)
(* decisions taken on them. An action is the code between two awaits; the  *)
(* decision, the status and finalizedAt are written by one transaction,    *)
(* which counts the decisions it can see before it commits.                *)
(***************************************************************************)
EXTENDS Integers

CONSTANTS
  Approvals,       \* the identifiers of approval_request
  Counts,          \* the required counts callers ask for
  Workers,         \* handlers that may be in flight at the same time
  Contended,       \* the requests on which callers decide at the same time
  DecisionBound,   \* bound: decisions of one kind on one request
  None

\* Any other text, stored like these, counts neither for nor against.
Decision == {"APPROVED", "REJECTED", "ABSTAINED"}

\* The statuses the code writes of enum ApprovalStatus.
ApprovalStatus == {"SUBMITTED", "APPROVED", "REJECTED"}

ASSUME ApprovalAssumption ==
  /\ Counts \subseteq Nat \ {0}
  /\ Contended \subseteq Approvals
  /\ DecisionBound \in Nat
  /\ None \notin Approvals \cup Decision

VARIABLES
  approvals,   \* approval_request: id -> ApprovalRow
  decided,     \* approval_decision: id -> decision -> the number of rows
  job          \* worker -> what its handler remembers

vars == <<approvals, decided, job>>

ApprovalRow == [required: Counts, status: ApprovalStatus]

\* approved and rejected are the counts of the transaction.
Job == [step: {"idle", "countApproved", "countRejected", "commit"},
        approval: Approvals \cup {None}, decision: Decision \cup {None},
        approved: Nat, rejected: Nat]

NoJob == [step |-> "idle", approval |-> None, decision |-> None,
          approved |-> 0, rejected |-> 0]

TypeOK ==
  /\ approvals \in [DOMAIN approvals -> ApprovalRow]
  /\ DOMAIN approvals \subseteq Approvals
  /\ decided \in [DOMAIN approvals -> [Decision -> Nat]]
  /\ job \in [Workers -> Job]

Init ==
  /\ approvals = <<>> /\ decided = <<>>
  /\ job = [w \in Workers |-> NoJob]

At(w, step) == job[w].step = step

-----------------------------------------------------------------------------

Create(w, a, n) ==
  /\ At(w, "idle")
  /\ a \notin DOMAIN approvals
  /\ approvals' = [x \in DOMAIN approvals \cup {a} |->
                     IF x = a THEN [required |-> n, status |-> "SUBMITTED"] ELSE approvals[x]]
  /\ decided' = [x \in DOMAIN approvals \cup {a} |->
                   IF x = a THEN [d \in Decision |-> 0] ELSE decided[x]]
  /\ UNCHANGED job

\* decide reads the request, whatever its status and whoever decided before.
StartDecision(w, a, d) ==
  /\ At(w, "idle")
  /\ a \in DOMAIN approvals
  /\ decided[a][d] < DecisionBound
  /\ a \in Contended \/ \A v \in Workers : job[v].approval # a
  /\ job' = [job EXCEPT ![w] = [NoJob EXCEPT !.step = "countApproved", !.approval = a,
                                             !.decision = d]]
  /\ UNCHANGED <<approvals, decided>>

\* Mutant: the count comes before the insert.
Committed(j, d) == decided[j.approval][d]

\* count of the decisions d: those committed, and the transaction's own.
Seen(j, d) == decided[j.approval][d] + (IF j.decision = d THEN 1 ELSE 0)

CountApproved(w) ==
  /\ At(w, "countApproved")
  /\ job' = [job EXCEPT ![w].step = "countRejected",
                        ![w].approved = Seen(job[w], "APPROVED")]
  /\ UNCHANGED <<approvals, decided>>

CountRejected(w) ==
  /\ At(w, "countRejected")
  /\ job' = [job EXCEPT ![w].step = "commit",
                        ![w].rejected = Seen(job[w], "REJECTED")]
  /\ UNCHANGED <<approvals, decided>>

\* Mutant: a rejection outweighs any number of approvals.
RejectedFirst(approved, rejected, required) ==
  IF rejected > 0 THEN "REJECTED" ELSE IF approved >= required THEN "APPROVED" ELSE "SUBMITTED"

\* Mutant: all decisions count towards the required number.
AnyDecision(approved, rejected, required) ==
  IF approved + rejected >= required THEN "APPROVED" ELSE "SUBMITTED"

\* Mutant: an undecided request goes back to DRAFT.
BackToDraft(approved, rejected, required) ==
  IF approved >= required THEN "APPROVED" ELSE IF rejected > 0 THEN "REJECTED" ELSE "DRAFT"

\* nextStatus
NextStatus(approved, rejected, required) ==
  IF approved >= required THEN "APPROVED" ELSE IF rejected > 0 THEN "REJECTED" ELSE "SUBMITTED"

CommitDecision(w) ==
  LET j == job[w] IN
  /\ At(w, "commit")
  /\ decided' = [decided EXCEPT ![j.approval][j.decision] = @ + 1]
  /\ approvals' = [approvals EXCEPT ![j.approval].status =
                     NextStatus(j.approved, j.rejected, approvals[j.approval].required)]
  /\ job' = [job EXCEPT ![w] = NoJob]

\* No handler is in flight and no caller calls: the server waits.
Quiescent ==
  /\ \A w \in Workers : At(w, "idle")
  /\ UNCHANGED vars

Next ==
  \/ \E w \in Workers :
       \/ \E a \in Approvals, n \in Counts : Create(w, a, n)
       \/ \E a \in Approvals, d \in Decision : StartDecision(w, a, d)
       \/ CountApproved(w) \/ CountRejected(w) \/ CommitDecision(w)
  \/ Quiescent

Spec == Init /\ [][Next]_vars

-----------------------------------------------------------------------------

\* An APPROVED request has as many approvals as it requires and a REJECTED one
\* a rejection, though the counts are taken before the transaction commits and
\* others commit in between.
StatusIsJustified ==
  \A a \in DOMAIN approvals :
    /\ approvals[a].status = "APPROVED" => decided[a]["APPROVED"] >= approvals[a].required
    /\ approvals[a].status = "REJECTED" => decided[a]["REJECTED"] > 0

\* While its callers decide one after the other, a request is APPROVED as soon
\* as enough of them approve: no approval is left uncounted.
EnoughIsApproved ==
  \A a \in DOMAIN approvals \ Contended :
    decided[a]["APPROVED"] >= approvals[a].required => approvals[a].status = "APPROVED"

\* And then it stays APPROVED, whatever is decided later.
ApprovalIsFinal ==
  [][\A a \in DOMAIN approvals \ Contended :
       approvals[a].status = "APPROVED" => approvals'[a].status = "APPROVED"]_vars
==============================================================================
