-------------------------- MODULE ExerciseLifecycle --------------------------
(***************************************************************************)
(* The handlers of modules/equity-lifecycle/equity-lifecycle.service.ts:   *)
(* terminations, and exercise requests from SUBMITTED to COMPLETED.        *)
(***************************************************************************)
EXTENDS EquityStore

\* Everything but the table a handler writes and its own memory.
OtherThanRequests == <<plans, poolPlans, grants, deletedGrants, terminations, ledger, now, sent>>

\* Columns of a new row of exercise_request: row is the grant that was read.
NewRequest(g, row, q) ==
  [grant |-> g, person |-> row.person, qty |-> q, status |-> "SUBMITTED",
   approvedAt |-> FALSE, completedAt |-> FALSE]

-----------------------------------------------------------------------------
(* recordTermination: the grant is read, then the record is created. *)

StartTermination(w, g, at) ==
  /\ g \in DOMAIN grants
  /\ Begin(w, "recordTermination",
           [NoJob EXCEPT !.step = "insertTermination", !.grant = g,
                         !.row = grants[g], !.asOf = at])
  /\ UNCHANGED <<tables, now, sent>>

\* The foreign key refuses a grant that has gone since.
InsertTermination(w) ==
  LET j == job[w] IN
  /\ At(w, "insertTermination")
  /\ terminations' =
       IF j.grant \in DOMAIN grants
       THEN terminations \cup {[grant |-> j.grant, person |-> j.row.person,
                                at |-> j.asOf, exerciseBy |-> j.asOf + PteMonths]}
       ELSE terminations
  /\ Finish(w)
  /\ UNCHANGED <<plans, poolPlans, grants, deletedGrants, requests, ledger, now, sent>>

-----------------------------------------------------------------------------
(* createExerciseRequest: grant, termination, reserved quantity, insert. *)

StartExerciseRequest(w, g, q) ==
  /\ g \in DOMAIN grants
  /\ Begin(w, "createExerciseRequest",
           [NoJob EXCEPT !.step = "exerciseWindow", !.grant = g,
                         !.row = grants[g], !.qty = q])
  /\ UNCHANGED <<tables, now, sent>>

CheckExerciseWindow(w) ==
  LET j == job[w] IN
  /\ At(w, "exerciseWindow")
  /\ Check(w, ~WindowExpired(j.grant, j.row.person, now),
           [j EXCEPT !.step = "exerciseQuantity", !.asOf = now])
  /\ UNCHANGED <<tables, now, sent>>

\* Approved requests count as exercised here, submitted ones do not.
Exercisable(j) ==
  Vested(j.row, j.asOf) - RequestedQuantity(j.grant, {"APPROVED", "COMPLETED"})

CheckExercisable(w) ==
  LET j == job[w] IN
  /\ At(w, "exerciseQuantity")
  /\ Check(w, Exercisable(j) >= j.qty, [j EXCEPT !.step = "insertRequest"])
  /\ UNCHANGED <<tables, now, sent>>

\* The foreign key refuses a grant that has gone since; ids are fresh, and
\* (a bound) the insert also fails when Requests has no id left.
InsertRequest(w) ==
  LET j == job[w] IN
  /\ At(w, "insertRequest")
  /\ \/ /\ j.grant \in DOMAIN grants
        /\ \E r \in Requests \ DOMAIN requests :
             requests' = Put(requests, r, NewRequest(j.grant, j.row, j.qty))
     \/ /\ j.grant \notin DOMAIN grants \/ Requests \subseteq DOMAIN requests
        /\ UNCHANGED requests
  /\ Finish(w)
  /\ UNCHANGED OtherThanRequests

-----------------------------------------------------------------------------
(* approve, decline, cancel: the status is read and checked, then the row  *)
(* is updated by its id.                                                   *)

StartDecision(w, r, h, allowed) ==
  /\ r \in DOMAIN requests
  /\ requests[r].status \in allowed
  /\ Begin(w, h, [NoJob EXCEPT !.step = h, !.request = r])
  /\ UNCHANGED <<tables, now, sent>>

\* Mutant: only COMPLETED is taken for terminal.
StartCancelUnlessCompleted(w, r) ==
  StartDecision(w, r, "cancel", RequestStatus \ {"COMPLETED"})

StartApprove(w, r) == StartDecision(w, r, "approve", {"SUBMITTED"})
StartDecline(w, r) == StartDecision(w, r, "decline", {"SUBMITTED"})
StartCancel(w, r) == StartDecision(w, r, "cancel", {"SUBMITTED", "APPROVED"})

WriteDecision(w, h, row) ==
  /\ At(w, h)
  /\ requests' = [requests EXCEPT ![job[w].request] = row]
  /\ Finish(w)
  /\ UNCHANGED OtherThanRequests

Approve(w) ==
  WriteDecision(w, "approve",
    [requests[job[w].request] EXCEPT !.status = "APPROVED", !.approvedAt = TRUE])

Decline(w) ==
  WriteDecision(w, "decline", [requests[job[w].request] EXCEPT !.status = "DECLINED"])

Cancel(w) ==
  WriteDecision(w, "cancel", [requests[job[w].request] EXCEPT !.status = "CANCELED"])

-----------------------------------------------------------------------------
(* completeExerciseRequest: request with its grant, termination, completed *)
(* quantity, next sequence number, then the transaction.                   *)

\* Mutant: a completed request can be completed.
ApprovedOrCompleted(r) == requests[r].status \in {"APPROVED", "COMPLETED"}

Completable(r) == requests[r].status = "APPROVED"

StartCompletion(w, r) ==
  /\ r \in DOMAIN requests
  /\ Completable(r)
  /\ requests[r].grant \in DOMAIN grants
  /\ Begin(w, "complete",
           [NoJob EXCEPT !.step = "completeWindow", !.request = r,
                         !.grant = requests[r].grant, !.row = grants[requests[r].grant]])
  /\ UNCHANGED <<tables, now, sent>>

\* The person is the request's, which is never updated.
CheckCompletionWindow(w) ==
  LET j == job[w] IN
  /\ At(w, "completeWindow")
  /\ Check(w, ~WindowExpired(j.grant, requests[j.request].person, now),
           [j EXCEPT !.step = "completeQuantity", !.asOf = now])
  /\ UNCHANGED <<tables, now, sent>>

\* Mutant: what was completed is not subtracted.
AllVested(j) == Vested(j.row, j.asOf)

Available(j) ==
  Vested(j.row, j.asOf) - RequestedQuantity(j.grant, {"COMPLETED"})

CheckAvailable(w) ==
  LET j == job[w] IN
  /\ At(w, "completeQuantity")
  /\ Check(w, Available(j) >= requests[j.request].qty,
           [j EXCEPT !.step = "completeSequence"])
  /\ UNCHANGED <<tables, now, sent>>

ReadCompletionSequence(w) ==
  /\ At(w, "completeSequence")
  /\ Continue(w, [job[w] EXCEPT !.step = "commitCompletion", !.seq = NextSequence])
  /\ UNCHANGED <<tables, now, sent>>

ExerciseEntry(r) ==
  [type |-> "EXERCISE", plan |-> None, grant |-> requests[r].grant, from |-> None,
   to |-> requests[r].person, qty |-> requests[r].qty, request |-> r]

\* Mutant: the row is updated before the insert fails, outside a transaction.
CompletedAnyway(j) ==
  /\ requests' = [requests EXCEPT ![j.request].status = "COMPLETED",
                                  ![j.request].completedAt = TRUE]
  /\ UNCHANGED ledger

\* The unique sequence number rolls both writes back.
CompletionRolledBack(j) == UNCHANGED <<requests, ledger>>

CompletionWrites(j) ==
  /\ requests' = [requests EXCEPT ![j.request].status = "COMPLETED",
                                  ![j.request].completedAt = TRUE]
  /\ ledger' = Put(ledger, j.seq, ExerciseEntry(j.request))

CommitCompletion(w) ==
  LET j == job[w] IN
  /\ At(w, "commitCompletion")
  /\ \/ SequenceFree(j.seq) /\ CompletionWrites(j)
     \/ ~SequenceFree(j.seq) /\ CompletionRolledBack(j)
  /\ Finish(w)
  /\ UNCHANGED <<plans, poolPlans, grants, deletedGrants, terminations, now, sent>>

-----------------------------------------------------------------------------

ExerciseStep(w) ==
  \/ \E g \in Grants, at \in 0..LastMonth : StartTermination(w, g, at)
  \/ InsertTermination(w)
  \/ \E g \in Grants, q \in Quantities : StartExerciseRequest(w, g, q)
  \/ CheckExerciseWindow(w)
  \/ CheckExercisable(w)
  \/ InsertRequest(w)
  \/ \E r \in Requests : StartApprove(w, r) \/ StartDecline(w, r) \/ StartCancel(w, r)
  \/ Approve(w)
  \/ Decline(w)
  \/ Cancel(w)
  \/ \E r \in Requests : StartCompletion(w, r)
  \/ CheckCompletionWindow(w)
  \/ CheckAvailable(w)
  \/ ReadCompletionSequence(w)
  \/ CommitCompletion(w)
==============================================================================
