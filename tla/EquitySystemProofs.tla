------------------------- MODULE EquitySystemProofs -------------------------
(***************************************************************************)
(* Proofs about EquitySystem: its type invariant, and the safety           *)
(* properties every interleaving of the handlers keeps.                    *)
(***************************************************************************)
EXTENDS EquitySystem, FiniteSetTheorems, TLAPS

-----------------------------------------------------------------------------
(* The inductive invariant *)

ExerciseSteps == {"exerciseWindow", "exerciseQuantity", "insertRequest"}
DecisionSteps == {"approve", "decline", "cancel"}
CompletionSteps ==
  {"completeWindow", "completeQuantity", "completeSequence", "commitCompletion"}
GrantSteps == {"grantPlan", "grantCapacity", "grantSequence", "commitGrant"}
UpdateSteps == {"regrantPlan", "regrantCapacity", "commitRegrant"}
EntrySteps == {"received", "entrySequence", "insertEntry"}

\* What a handler remembers, by the step it is about to take.
Remembers(j) ==
  /\ j.step \in ExerciseSteps \cup UpdateSteps \cup {"insertTermination", "commitDelete"}
       => j.grant \in Grants
  /\ j.step \in ExerciseSteps \cup GrantSteps \cup UpdateSteps \cup {"insertTermination"}
       => j.row \in GrantRow
  /\ j.step \in ExerciseSteps \cup {"updatePlan"} => j.qty \in Quantities
  /\ j.step = "updatePlan" => j.plan \in Plans
  /\ j.step \in EntrySteps =>
       j.entry \in Entry /\ j.entry.grant = None /\ j.entry.request = None

\* A handler in flight decides on a request that exists, completes one that was
\* approved, and inserts at a number at most one above the last row's.
Sound(j) ==
  /\ Remembers(j)
  /\ j.step \in DecisionSteps \cup CompletionSteps => j.request \in DOMAIN requests
  /\ j.step \in CompletionSteps => requests[j.request].approvedAt
  /\ j.step \in {"commitCompletion", "commitGrant", "insertEntry"} =>
       \E m \in {0} \cup DOMAIN ledger : j.seq = m + 1

JobsSound == \A w \in Workers : Sound(job[w])

Numbered == \E n \in Nat : DOMAIN ledger = 1..n

ApprovedHasDate ==
  \A r \in DOMAIN requests : requests[r].status = "APPROVED" => requests[r].approvedAt

TablesSound ==
  /\ Numbered
  /\ ApprovedHasDate
  /\ CompletionsAreLedgered
  /\ RequestsKeepGrant
  /\ GrantsMirrorLedger

IInv == TypeOK /\ JobsSound /\ TablesSound

-----------------------------------------------------------------------------
(* Lemmas about the ledger *)

\* MAX + 1 on rows numbered 1..n is n + 1: nextLedgerSequence.
LEMMA NextIsSuccessor ==
  ASSUME NEW n \in Nat, DOMAIN ledger = 1..n
  PROVE  NextSequence = n + 1
<1>1. n \in {0} \cup DOMAIN ledger
  OBVIOUS
<1>2. \A s \in DOMAIN ledger : s <= n
  OBVIOUS
<1>3. \A m \in {0} \cup DOMAIN ledger : (\A s \in DOMAIN ledger : s <= m) => m = n
  OBVIOUS
<1>4. LastSequence \in {0} \cup DOMAIN ledger /\ \A s \in DOMAIN ledger : s <= LastSequence
  BY <1>1, <1>2 DEF LastSequence
<1> QED
  BY <1>3, <1>4 DEF NextSequence

LEMMA PutTyped ==
  ASSUME NEW S, NEW T, T \in [DOMAIN T -> S], NEW k, NEW row \in S
  PROVE  /\ DOMAIN Put(T, k, row) = DOMAIN T \cup {k}
         /\ Put(T, k, row) \in [DOMAIN T \cup {k} -> S]
         /\ Put(T, k, row)[k] = row
         /\ \A x \in DOMAIN T : x # k => Put(T, k, row)[x] = T[x]
BY DEF Put

\* A row put at a free number at most one above the last gets the next number.
LEMMA PutAppends ==
  ASSUME NEW n \in Nat, DOMAIN ledger = 1..n, NEW s, SequenceFree(s),
         \E m \in {0} \cup DOMAIN ledger : s = m + 1, NEW e
  PROVE  /\ s = n + 1
         /\ DOMAIN Put(ledger, s, e) = 1..(n + 1)
         /\ Put(ledger, s, e)[n + 1] = e
         /\ \A i \in 1..n : Put(ledger, s, e)[i] = ledger[i]
<1>1. s = n + 1
  BY DEF SequenceFree
<1> QED
  BY <1>1 DEF Put

-----------------------------------------------------------------------------
(* Steps that write no table *)

LEMMA NoJobSound == NoJob \in Job /\ Sound(NoJob)
BY DEF NoJob, Job, Step, Sound, Remembers, ExerciseSteps, DecisionSteps,
       CompletionSteps, GrantSteps, UpdateSteps, EntrySteps

\* Worker w goes on to remember j, and nothing another job relies on goes away.
LEMMA JobStep ==
  ASSUME IInv, NEW w \in Workers, NEW j \in Job, Sound(j)',
         job' = [job EXCEPT ![w] = j],
         DOMAIN requests \subseteq DOMAIN requests',
         \A r \in DOMAIN requests : requests[r].approvedAt => requests'[r].approvedAt,
         DOMAIN ledger \subseteq DOMAIN ledger'
  PROVE  job' \in [Workers -> Job] /\ JobsSound'
<1>1. job \in [Workers -> Job]
  BY DEF IInv, TypeOK
<1>2. job' \in [Workers -> Job]
  BY <1>1
<1>3. ASSUME NEW v \in Workers PROVE Sound(job[v])'
  <2>1. CASE v = w
    BY <1>1, <2>1
  <2>2. CASE v # w
    <3>1. job'[v] = job[v] /\ Sound(job[v])
      BY <1>1, <2>2 DEF IInv, JobsSound
    <3> QED
      BY <3>1 DEF Sound, Remembers
  <2> QED
    BY <2>1, <2>2
<1> QED
  BY <1>2, <1>3 DEF JobsSound

LEMMA ReadStep ==
  ASSUME IInv, NEW w \in Workers, NEW j \in Job, Sound(j),
         job' = [job EXCEPT ![w] = j], UNCHANGED <<tables, now>>
  PROVE  IInv'
<1>1. Sound(j)'
  BY DEF Sound, Remembers, tables
<1>2. job' \in [Workers -> Job] /\ JobsSound'
  BY <1>1, JobStep DEF tables
<1>3. TypeOK'
  BY <1>2 DEF IInv, TypeOK, tables
<1>4. TablesSound'
  BY DEF IInv, TablesSound, Numbered, ApprovedHasDate, CompletionsAreLedgered,
         RequestsKeepGrant, GrantsMirrorLedger, GrantMirrored, ExerciseEntry,
         GrantEntry, tables
<1> QED
  BY <1>2, <1>3, <1>4 DEF IInv

\* A handler that returns or throws without writing.
LEMMA FinishStep ==
  ASSUME IInv, NEW w \in Workers, Finish(w), UNCHANGED <<tables, now>>
  PROVE  IInv'
BY NoJobSound, ReadStep DEF Finish, Continue

\* A check that passes or throws.
LEMMA CheckStep ==
  ASSUME IInv, NEW w \in Workers, NEW j \in Job, Sound(j), NEW passes,
         Check(w, passes, j), UNCHANGED <<tables, now>>
  PROVE  IInv'
<1>1. CASE Continue(w, j)
  BY <1>1, ReadStep DEF Continue
<1>2. CASE Finish(w)
  BY <1>2, FinishStep
<1> QED
  BY <1>1, <1>2 DEF Check

\* What the invariant says of one worker.
LEMMA SoundWorker ==
  ASSUME IInv, NEW w \in Workers
  PROVE  job[w] \in Job /\ Sound(job[w])
BY DEF IInv, TypeOK, JobsSound

\* The handlers of the exercise lifecycle, up to their writes.
LEMMA ExerciseReads ==
  ASSUME IInv, NEW w \in Workers
  PROVE  /\ \A g \in Grants, at \in 0..LastMonth : StartTermination(w, g, at) => IInv'
         /\ \A g \in Grants, q \in Quantities : StartExerciseRequest(w, g, q) => IInv'
         /\ CheckExerciseWindow(w) => IInv'
         /\ CheckExercisable(w) => IInv'
         /\ \A r \in Requests :
              StartApprove(w, r) \/ StartDecline(w, r) \/ StartCancel(w, r) => IInv'
         /\ \A r \in Requests : StartCompletion(w, r) => IInv'
         /\ CheckCompletionWindow(w) => IInv'
         /\ CheckAvailable(w) => IInv'
         /\ ReadCompletionSequence(w) => IInv'
<1> USE ConstantsAssumption DEF Step, ExerciseSteps, DecisionSteps, CompletionSteps, GrantSteps,
            UpdateSteps, EntrySteps
<1>1. TypeOK /\ Numbered /\ ApprovedHasDate /\ job[w] \in Job /\ Sound(job[w])
  BY SoundWorker DEF IInv, TablesSound
<1>2. ASSUME NEW g \in Grants, NEW at \in 0..LastMonth, StartTermination(w, g, at)
      PROVE  IInv'
  <2> DEFINE j == [NoJob EXCEPT !.step = "insertTermination", !.grant = g,
                                !.row = grants[g], !.asOf = at]
  <2>0. grants[g] \in GrantRow /\ at \in Nat
    BY <1>1, <1>2 DEF StartTermination, TypeOK
  <2>1. j \in Job /\ Sound(j)
    BY <2>0 DEF NoJob, Job, Sound, Remembers
  <2> QED
    BY <1>2, <2>1, ReadStep DEF StartTermination, Begin, tables
<1>3. ASSUME NEW g \in Grants, NEW q \in Quantities, StartExerciseRequest(w, g, q)
      PROVE  IInv'
  <2> DEFINE j == [NoJob EXCEPT !.step = "exerciseWindow", !.grant = g,
                                !.row = grants[g], !.qty = q]
  <2>0. grants[g] \in GrantRow /\ q \in Nat
    BY <1>1, <1>3 DEF StartExerciseRequest, TypeOK
  <2>1. j \in Job /\ Sound(j)
    BY <2>0 DEF NoJob, Job, Sound, Remembers
  <2> QED
    BY <1>3, <2>1, ReadStep DEF StartExerciseRequest, Begin, tables
<1>4. ASSUME CheckExerciseWindow(w) PROVE IInv'
  <2> DEFINE j == [job[w] EXCEPT !.step = "exerciseQuantity", !.asOf = now]
  <2>1. j \in Job /\ Sound(j)
    BY <1>1, <1>4 DEF CheckExerciseWindow, At, TypeOK, Job, Sound, Remembers
  <2> QED
    BY <1>4, <2>1, CheckStep DEF CheckExerciseWindow, tables
<1>5. ASSUME CheckExercisable(w) PROVE IInv'
  <2> DEFINE j == [job[w] EXCEPT !.step = "insertRequest"]
  <2>1. j \in Job /\ Sound(j)
    BY <1>1, <1>5 DEF CheckExercisable, At, TypeOK, Job, Sound, Remembers
  <2> QED
    BY <1>5, <2>1, CheckStep DEF CheckExercisable, tables
<1>6. ASSUME NEW r \in Requests, NEW h \in DecisionSteps, NEW allowed,
             StartDecision(w, r, h, allowed)
      PROVE  IInv'
  <2> DEFINE j == [NoJob EXCEPT !.step = h, !.request = r]
  <2>1. j \in Job /\ Sound(j)
    BY <1>1, <1>6 DEF StartDecision, TypeOK, NoJob, Job, Sound, Remembers
  <2> QED
    BY <1>6, <2>1, ReadStep DEF StartDecision, Begin, tables
<1>7. ASSUME NEW r \in Requests, StartCompletion(w, r) PROVE IInv'
  <2> DEFINE j == [NoJob EXCEPT !.step = "completeWindow", !.request = r,
                                !.grant = requests[r].grant,
                                !.row = grants[requests[r].grant]]
  <2>0. /\ requests[r].grant \in Grants /\ grants[requests[r].grant] \in GrantRow
        /\ r \in DOMAIN requests /\ requests[r].approvedAt
    BY <1>1, <1>7 DEF StartCompletion, Completable, ApprovedHasDate, TypeOK, RequestRow
  <2>1. j \in Job /\ Sound(j)
    BY <2>0 DEF NoJob, Job, Sound, Remembers
  <2> QED
    BY <1>7, <2>1, ReadStep DEF StartCompletion, Begin, tables
<1>8. ASSUME CheckCompletionWindow(w) PROVE IInv'
  <2> DEFINE j == [job[w] EXCEPT !.step = "completeQuantity", !.asOf = now]
  <2>1. j \in Job /\ Sound(j)
    BY <1>1, <1>8 DEF CheckCompletionWindow, At, TypeOK, Job, Sound, Remembers
  <2> QED
    BY <1>8, <2>1, CheckStep DEF CheckCompletionWindow, tables
<1>9. ASSUME CheckAvailable(w) PROVE IInv'
  <2> DEFINE j == [job[w] EXCEPT !.step = "completeSequence"]
  <2>1. j \in Job /\ Sound(j)
    BY <1>1, <1>9 DEF CheckAvailable, At, TypeOK, Job, Sound, Remembers
  <2> QED
    BY <1>9, <2>1, CheckStep DEF CheckAvailable, tables
<1>10. ASSUME ReadCompletionSequence(w) PROVE IInv'
  <2> DEFINE j == [job[w] EXCEPT !.step = "commitCompletion", !.seq = NextSequence]
  <2>1. NextSequence \in Nat /\ \E m \in {0} \cup DOMAIN ledger : NextSequence = m + 1
    BY <1>1, NextIsSuccessor DEF Numbered
  <2>2. j \in Job /\ Sound(j)
    BY <1>1, <1>10, <2>1 DEF ReadCompletionSequence, At, TypeOK, Job, Sound, Remembers
  <2> QED
    BY <1>10, <2>2, ReadStep DEF ReadCompletionSequence, Continue, tables
<1> QED
  BY <1>2, <1>3, <1>4, <1>5, <1>6, <1>7, <1>8, <1>9, <1>10
     DEF StartApprove, StartDecline, StartCancel

\* The handlers of plans, grants and ledger entries, up to their writes.
LEMMA AdminReads ==
  ASSUME IInv, NEW w \in Workers
  PROVE  /\ \A p \in Plans, q \in Quantities : StartUpdatePlan(w, p, q) => IInv'
         /\ \A row \in GrantRow : StartCreateGrant(w, row) => IInv'
         /\ ReadGrantPlan(w) => IInv'
         /\ CheckGrantCapacity(w) => IInv'
         /\ ReadGrantSequence(w) => IInv'
         /\ \A g \in Grants, row \in GrantRow : StartUpdateGrant(w, g, row) => IInv'
         /\ ReadUpdatePlan(w) => IInv'
         /\ CheckUpdateCapacity(w) => IInv'
         /\ \A g \in Grants : StartDeleteGrant(w, g) => IInv'
         /\ \A type \in ManualTypes, from \in Persons \cup {None},
               to \in Persons \cup {None}, q \in Quantities :
              StartTransaction(w, ManualEntry(type, from, to, q)) => IInv'
         /\ CheckBalance(w) => IInv'
         /\ ReadEntrySequence(w) => IInv'
<1> USE ConstantsAssumption DEF Step, ExerciseSteps, DecisionSteps, CompletionSteps, GrantSteps,
            UpdateSteps, EntrySteps
<1>0. Quantities \subseteq Nat
  OBVIOUS
<1>1. TypeOK /\ Numbered /\ job[w] \in Job /\ Sound(job[w])
  BY SoundWorker DEF IInv, TablesSound
<1>2. NextSequence \in Nat /\ \E m \in {0} \cup DOMAIN ledger : NextSequence = m + 1
  BY <1>1, NextIsSuccessor DEF Numbered
<1>3. ASSUME NEW p \in Plans, NEW q \in Quantities, StartUpdatePlan(w, p, q) PROVE IInv'
  <2> DEFINE j == [NoJob EXCEPT !.step = "updatePlan", !.plan = p, !.qty = q]
  <2>1. j \in Job /\ Sound(j)
    BY <1>0 DEF NoJob, Job, Sound, Remembers
  <2> QED
    BY <1>3, <2>1, ReadStep DEF StartUpdatePlan, Begin, tables
<1>4. ASSUME NEW row \in GrantRow, StartCreateGrant(w, row) PROVE IInv'
  <2> DEFINE j == [NoJob EXCEPT !.step = "grantPlan", !.row = row]
  <2>1. j \in Job /\ Sound(j)
    BY <1>0 DEF NoJob, Job, Sound, Remembers
  <2> QED
    BY <1>4, <2>1, ReadStep DEF StartCreateGrant, Begin, tables
<1>5. ASSUME ReadGrantPlan(w) PROVE IInv'
  <2> DEFINE j == [job[w] EXCEPT !.step = "grantCapacity", !.qty = plans[job[w].row.plan]]
  <2>1. CASE Finish(w)
    BY <1>5, <2>1, FinishStep DEF ReadGrantPlan, tables
  <2>2. CASE job[w].row.plan \in DOMAIN plans /\ Continue(w, j)
    <3>1. plans[job[w].row.plan] \in Nat
      BY <1>1, <2>2 DEF TypeOK
    <3>2. j \in Job /\ Sound(j)
      BY <1>1, <1>5, <3>1 DEF ReadGrantPlan, At, Job, Sound, Remembers
    <3> QED
      BY <1>5, <2>2, <3>2, ReadStep DEF ReadGrantPlan, Continue, tables
  <2> QED
    BY <1>5, <2>1, <2>2 DEF ReadGrantPlan
<1>6. ASSUME CheckGrantCapacity(w) PROVE IInv'
  <2> DEFINE j == [job[w] EXCEPT !.step = "grantSequence"]
  <2>1. j \in Job /\ Sound(j)
    BY <1>1, <1>6 DEF CheckGrantCapacity, At, Job, Sound, Remembers
  <2> QED
    BY <1>6, <2>1, CheckStep DEF CheckGrantCapacity, tables
<1>7. ASSUME ReadGrantSequence(w) PROVE IInv'
  <2> DEFINE j == [job[w] EXCEPT !.step = "commitGrant", !.seq = NextSequence]
  <2>1. j \in Job /\ Sound(j)
    BY <1>1, <1>2, <1>7 DEF ReadGrantSequence, At, Job, Sound, Remembers
  <2> QED
    BY <1>7, <2>1, ReadStep DEF ReadGrantSequence, Continue, tables
<1>8. ASSUME NEW g \in Grants, NEW row \in GrantRow, StartUpdateGrant(w, g, row)
      PROVE  IInv'
  <2> DEFINE j == [NoJob EXCEPT !.step = "regrantPlan", !.grant = g, !.row = row]
  <2>1. j \in Job /\ Sound(j)
    BY <1>0 DEF NoJob, Job, Sound, Remembers
  <2> QED
    BY <1>8, <2>1, ReadStep DEF StartUpdateGrant, Begin, tables
<1>9. ASSUME ReadUpdatePlan(w) PROVE IInv'
  <2> DEFINE j == [job[w] EXCEPT !.step = "regrantCapacity", !.qty = plans[job[w].row.plan]]
  <2>1. CASE Finish(w)
    BY <1>9, <2>1, FinishStep DEF ReadUpdatePlan, tables
  <2>2. CASE job[w].row.plan \in DOMAIN plans /\ Continue(w, j)
    <3>1. plans[job[w].row.plan] \in Nat
      BY <1>1, <2>2 DEF TypeOK
    <3>2. j \in Job /\ Sound(j)
      BY <1>1, <1>9, <3>1 DEF ReadUpdatePlan, At, Job, Sound, Remembers
    <3> QED
      BY <1>9, <2>2, <3>2, ReadStep DEF ReadUpdatePlan, Continue, tables
  <2> QED
    BY <1>9, <2>1, <2>2 DEF ReadUpdatePlan
<1>10. ASSUME CheckUpdateCapacity(w) PROVE IInv'
  <2> DEFINE j == [job[w] EXCEPT !.step = "commitRegrant"]
  <2>1. j \in Job /\ Sound(j)
    BY <1>1, <1>10 DEF CheckUpdateCapacity, At, Job, Sound, Remembers
  <2> QED
    BY <1>10, <2>1, CheckStep DEF CheckUpdateCapacity, tables
<1>11. ASSUME NEW g \in Grants, StartDeleteGrant(w, g) PROVE IInv'
  <2> DEFINE j == [NoJob EXCEPT !.step = "commitDelete", !.grant = g]
  <2>1. j \in Job /\ Sound(j)
    BY <1>0 DEF NoJob, Job, Sound, Remembers
  <2> QED
    BY <1>11, <2>1, ReadStep DEF StartDeleteGrant, Begin, tables
<1>12. ASSUME NEW type \in ManualTypes, NEW from \in Persons \cup {None},
              NEW to \in Persons \cup {None}, NEW q \in Quantities,
              StartTransaction(w, ManualEntry(type, from, to, q))
       PROVE  IInv'
  <2> DEFINE e == ManualEntry(type, from, to, q)
  <2>1. e \in Entry /\ e.grant = None /\ e.request = None
    BY DEF ManualEntry, Entry
  <2> HIDE DEF e
  <2>2. ASSUME NEW step \in {"received", "entrySequence"},
               job' = [job EXCEPT ![w] = [NoJob EXCEPT !.step = step, !.entry = e]]
        PROVE  IInv'
    <3> DEFINE j == [NoJob EXCEPT !.step = step, !.entry = e]
    <3>1. j \in Job /\ Sound(j)
      BY <2>1 DEF NoJob, Job, Sound, Remembers
    <3> QED
      BY <1>12, <2>2, <3>1, ReadStep DEF StartTransaction, tables
  <2> QED
    BY <1>12, <2>2 DEF StartTransaction, Begin, e
<1>13. ASSUME CheckBalance(w) PROVE IInv'
  <2> DEFINE j == [job[w] EXCEPT !.step = "entrySequence"]
  <2>1. j \in Job /\ Sound(j)
    BY <1>1, <1>13 DEF CheckBalance, HasBalance, At, Job, Sound, Remembers
  <2> QED
    BY <1>13, <2>1, CheckStep DEF CheckBalance, tables
<1>14. ASSUME ReadEntrySequence(w) PROVE IInv'
  <2> DEFINE j == [job[w] EXCEPT !.step = "insertEntry", !.seq = NextSequence]
  <2>1. j \in Job /\ Sound(j)
    BY <1>1, <1>2, <1>14 DEF ReadEntrySequence, At, Job, Sound, Remembers
  <2> QED
    BY <1>14, <2>1, ReadStep DEF ReadEntrySequence, Continue, tables
<1> QED
  BY <1>3, <1>4, <1>5, <1>6, <1>7, <1>8, <1>9, <1>10, <1>11, <1>12, <1>13, <1>14

-----------------------------------------------------------------------------
(* Steps that write *)

\* A handler writes and returns.
LEMMA FinishWriting ==
  ASSUME IInv, NEW w \in Workers, Finish(w),
         DOMAIN requests \subseteq DOMAIN requests',
         \A r \in DOMAIN requests : requests[r].approvedAt => requests'[r].approvedAt,
         DOMAIN ledger \subseteq DOMAIN ledger'
  PROVE  job' \in [Workers -> Job] /\ JobsSound'
<1>1. NoJob \in Job /\ Sound(NoJob)'
  BY DEF NoJob, Job, Step, Sound, Remembers, ExerciseSteps, DecisionSteps,
         CompletionSteps, GrantSteps, UpdateSteps, EntrySteps
<1> QED
  BY <1>1, JobStep DEF Finish, Continue

\* The tables the invariant relates are left alone.
LEMMA TablesKept ==
  ASSUME IInv, UNCHANGED <<grants, requests, ledger>>
  PROVE  TablesSound'
BY DEF IInv, TablesSound, Numbered, ApprovedHasDate, CompletionsAreLedgered,
       RequestsKeepGrant, GrantsMirrorLedger, GrantMirrored, ExerciseEntry, GrantEntry

LEMMA LedgerKept ==
  ASSUME IInv, UNCHANGED <<grants, ledger>>
  PROVE  Numbered' /\ GrantsMirrorLedger'
BY DEF IInv, TablesSound, Numbered, GrantsMirrorLedger, GrantMirrored, GrantEntry

LEMMA PlanWrites ==
  ASSUME IInv, NEW w \in Workers
  PROVE  /\ \A p \in Plans, q \in Quantities : CreatePlan(w, p, q) => IInv'
         /\ UpdatePlan(w) => IInv'
         /\ \A S \in SUBSET Plans : UpdateCapTablePools(w, S) => IInv'
<1>1. TypeOK /\ JobsSound
  BY DEF IInv
<1>2. ASSUME NEW p \in Plans, NEW q \in Quantities, CreatePlan(w, p, q) PROVE IInv'
  <2>1. TypeOK'
    BY <1>1, <1>2 DEF CreatePlan, TypeOK, Put
  <2>2. JobsSound'
    BY <1>1, <1>2 DEF CreatePlan, JobsSound, Sound, Remembers
  <2> QED
    BY <1>2, <2>1, <2>2, TablesKept DEF CreatePlan, IInv
<1>3. ASSUME UpdatePlan(w) PROVE IInv'
  <2>1. job[w].qty \in Quantities
    BY <1>3, SoundWorker DEF UpdatePlan, At, Sound, Remembers
  <2>2. job' \in [Workers -> Job] /\ JobsSound'
    BY <1>3, FinishWriting DEF UpdatePlan
  <2>3. plans' \in [DOMAIN plans' -> Quantities] /\ DOMAIN plans' \subseteq Plans
    BY <1>1, <1>3, <2>1 DEF UpdatePlan, TypeOK
  <2>4. TypeOK'
    BY <1>1, <1>3, <2>2, <2>3 DEF UpdatePlan, TypeOK
  <2> QED
    BY <1>3, <2>2, <2>4, TablesKept DEF UpdatePlan, IInv
<1>4. ASSUME NEW S \in SUBSET Plans, UpdateCapTablePools(w, S) PROVE IInv'
  <2>1. TypeOK'
    BY <1>1, <1>4 DEF UpdateCapTablePools, TypeOK
  <2>2. JobsSound'
    BY <1>1, <1>4 DEF UpdateCapTablePools, JobsSound, Sound, Remembers
  <2> QED
    BY <1>4, <2>1, <2>2, TablesKept DEF UpdateCapTablePools, IInv
<1> QED
  BY <1>2, <1>3, <1>4

LEMMA TerminationWrite ==
  ASSUME IInv, NEW w \in Workers, InsertTermination(w)
  PROVE  IInv'
<1>1. job' \in [Workers -> Job] /\ JobsSound'
  BY FinishWriting DEF InsertTermination
<1>2. job[w] \in Job /\ job[w].grant \in Grants /\ job[w].row \in GrantRow
  BY SoundWorker DEF InsertTermination, At, Sound, Remembers
<1>3. [grant |-> job[w].grant, person |-> job[w].row.person, at |-> job[w].asOf,
       exerciseBy |-> job[w].asOf + PteMonths] \in Termination
  BY <1>2, ConstantsAssumption DEF Job, GrantRow, Termination
<1>4. terminations' \subseteq Termination
  BY <1>3 DEF InsertTermination, IInv, TypeOK
<1>5. TypeOK'
  BY <1>1, <1>4 DEF InsertTermination, IInv, TypeOK
<1> QED
  BY <1>1, <1>5, TablesKept DEF InsertTermination, IInv

\* A row put into the ledger at the number a handler read.
LEMMA LedgerAppend ==
  ASSUME IInv, NEW s, SequenceFree(s), \E m \in {0} \cup DOMAIN ledger : s = m + 1,
         NEW e \in Entry, ledger' = Put(ledger, s, e)
  PROVE  \E n \in Nat :
           /\ DOMAIN ledger = 1..n /\ DOMAIN ledger' = 1..(n + 1)
           /\ ledger' \in [DOMAIN ledger' -> Entry]
           /\ ledger'[n + 1] = e
           /\ \A i \in 1..n : ledger'[i] = ledger[i]
<1>1. PICK n \in Nat : DOMAIN ledger = 1..n
  BY DEF IInv, TablesSound, Numbered
<1>2. /\ DOMAIN ledger' = 1..(n + 1) /\ ledger'[n + 1] = e
      /\ \A i \in 1..n : ledger'[i] = ledger[i]
  BY <1>1, PutAppends
<1>3. ledger \in [DOMAIN ledger -> Entry]
  BY DEF IInv, TypeOK
<1>4. ledger' \in [DOMAIN ledger' -> Entry]
  BY <1>3, PutTyped DEF Put
<1> QED
  BY <1>1, <1>2, <1>4

LEMMA EntryWrite ==
  ASSUME IInv, NEW w \in Workers, InsertEntry(w)
  PROVE  IInv'
<1> DEFINE e == job[w].entry
<1>1. TypeOK /\ TablesSound
  BY DEF IInv
<1>2. CASE UNCHANGED ledger
  BY <1>2, FinishStep DEF InsertEntry, tables
<1>3. CASE SequenceFree(job[w].seq) /\ ledger' = Put(ledger, job[w].seq, e)
  <2>1. /\ e \in Entry /\ e.grant = None /\ e.request = None
        /\ \E m \in {0} \cup DOMAIN ledger : job[w].seq = m + 1
    BY SoundWorker DEF InsertEntry, At, Sound, Remembers, EntrySteps
  <2> HIDE DEF e
  <2>2. PICK n \in Nat :
          /\ DOMAIN ledger = 1..n /\ DOMAIN ledger' = 1..(n + 1)
          /\ ledger' \in [DOMAIN ledger' -> Entry]
          /\ ledger'[n + 1] = e
          /\ \A i \in 1..n : ledger'[i] = ledger[i]
    BY <1>3, <2>1, LedgerAppend
  <2>3. job' \in [Workers -> Job] /\ JobsSound'
    BY <1>1, <2>2, FinishWriting DEF InsertEntry
  <2>4. TypeOK'
    BY <1>1, <2>2, <2>3 DEF InsertEntry, TypeOK
  <2>5. Numbered' /\ ApprovedHasDate' /\ RequestsKeepGrant'
    BY <1>1, <2>2 DEF InsertEntry, TablesSound, Numbered, ApprovedHasDate, RequestsKeepGrant
  <2>6. CompletionsAreLedgered'
    BY <1>1, <2>1, <2>2 DEF InsertEntry, TablesSound, CompletionsAreLedgered, ExerciseEntry
  <2>7. GrantsMirrorLedger'
    <3>1. \A g \in Grants : g # e.grant
      BY <2>1, ConstantsAssumption
    <3> QED
      BY <1>1, <2>2, <3>1 DEF InsertEntry, TablesSound, GrantsMirrorLedger,
                               GrantMirrored, GrantEntry
  <2> QED
    BY <2>3, <2>4, <2>5, <2>6, <2>7 DEF IInv, TablesSound
<1> QED
  BY <1>2, <1>3 DEF InsertEntry

LEMMA RequestWrite ==
  ASSUME IInv, NEW w \in Workers, InsertRequest(w)
  PROVE  IInv'
<1> DEFINE j == job[w]
           row == NewRequest(j.grant, j.row, j.qty)
<1>1. TypeOK /\ TablesSound
  BY DEF IInv
<1>2. j.grant \in Grants /\ j.row \in GrantRow /\ j.qty \in Quantities
  BY SoundWorker DEF InsertRequest, At, Sound, Remembers, ExerciseSteps
<1>3. /\ row \in RequestRow /\ row.grant = j.grant
      /\ row.status = "SUBMITTED" /\ ~row.completedAt
  BY <1>2 DEF NewRequest, RequestRow, RequestStatus, GrantRow
<1>4. CASE UNCHANGED requests
  BY <1>4, FinishStep DEF InsertRequest, OtherThanRequests, tables
<1>5. ASSUME j.grant \in DOMAIN grants, NEW r \in Requests \ DOMAIN requests,
             requests' = Put(requests, r, row)
      PROVE  IInv'
  <2> HIDE DEF row
  <2>0. requests \in [DOMAIN requests -> RequestRow] /\ row \in RequestRow
    BY <1>1, <1>3 DEF TypeOK
  <2>1. /\ DOMAIN requests' = DOMAIN requests \cup {r}
        /\ requests' \in [DOMAIN requests' -> RequestRow]
        /\ requests'[r] = row
        /\ \A x \in DOMAIN requests : requests'[x] = requests[x]
    BY <1>5, <2>0, PutTyped DEF Put
  <2>2. UNCHANGED <<plans, poolPlans, grants, deletedGrants, terminations, ledger, now>>
    BY DEF InsertRequest, OtherThanRequests
  <2>3. job' \in [Workers -> Job] /\ JobsSound'
    BY <2>1, <2>2, FinishWriting DEF InsertRequest
  <2>4. TypeOK'
    BY <1>1, <2>1, <2>2, <2>3 DEF TypeOK
  <2>5. Numbered' /\ GrantsMirrorLedger'
    BY <2>2, LedgerKept
  <2>6. ApprovedHasDate' /\ RequestsKeepGrant'
    BY <1>1, <1>3, <1>5, <2>1, <2>2 DEF TablesSound, ApprovedHasDate, RequestsKeepGrant
  <2>7. CompletionsAreLedgered'
    BY <1>1, <1>3, <1>5, <2>1, <2>2 DEF TablesSound, CompletionsAreLedgered, ExerciseEntry
  <2> QED
    BY <2>3, <2>4, <2>5, <2>6, <2>7 DEF IInv, TablesSound
<1> QED
  BY <1>4, <1>5 DEF InsertRequest

\* An update of one request that keeps its grant, holder, quantity and
\* completedAt, and approvedAt once set.
LEMMA DecisionWrite ==
  ASSUME IInv, NEW w \in Workers, NEW h \in DecisionSteps,
         NEW row, WriteDecision(w, h, row),
         LET r == job[w].request IN
         /\ row \in RequestRow
         /\ row.grant = requests[r].grant /\ row.person = requests[r].person
         /\ row.qty = requests[r].qty /\ row.completedAt = requests[r].completedAt
         /\ requests[r].approvedAt \/ row.status = "APPROVED" => row.approvedAt
  PROVE  IInv'
<1> DEFINE r == job[w].request
<1>1. TypeOK /\ TablesSound /\ r \in DOMAIN requests
  BY SoundWorker DEF IInv, WriteDecision, At, Sound
<1>2. /\ DOMAIN requests' = DOMAIN requests
      /\ requests' \in [DOMAIN requests' -> RequestRow]
      /\ requests'[r] = row
      /\ \A x \in DOMAIN requests : x # r => requests'[x] = requests[x]
  BY <1>1 DEF WriteDecision, TypeOK
<1>3. UNCHANGED <<plans, poolPlans, grants, deletedGrants, terminations, ledger, now>>
  BY DEF WriteDecision, OtherThanRequests
<1>4. \A x \in DOMAIN requests :
        /\ requests'[x].grant = requests[x].grant /\ requests'[x].person = requests[x].person
        /\ requests'[x].qty = requests[x].qty
        /\ requests'[x].completedAt = requests[x].completedAt
        /\ requests[x].approvedAt \/ (x = r /\ row.status = "APPROVED")
             => requests'[x].approvedAt
  BY <1>2
<1>5. job' \in [Workers -> Job] /\ JobsSound'
  BY <1>2, <1>3, <1>4, FinishWriting DEF WriteDecision
<1>6. TypeOK'
  BY <1>1, <1>2, <1>3, <1>5 DEF TypeOK
<1>7. Numbered' /\ GrantsMirrorLedger'
  BY <1>3, LedgerKept
<1>8. ApprovedHasDate'
  BY <1>1, <1>2, <1>4 DEF TablesSound, ApprovedHasDate
<1>9. RequestsKeepGrant'
  BY <1>1, <1>2, <1>3, <1>4 DEF TablesSound, RequestsKeepGrant
<1>10. CompletionsAreLedgered'
  <2>1. \A x \in DOMAIN requests : ExerciseEntry(x)' = ExerciseEntry(x)
    BY <1>4 DEF ExerciseEntry
  <2> QED
    BY <1>1, <1>2, <1>3, <1>4, <2>1 DEF TablesSound, CompletionsAreLedgered
<1> QED
  BY <1>5, <1>6, <1>7, <1>8, <1>9, <1>10 DEF IInv, TablesSound

LEMMA DecisionWrites ==
  ASSUME IInv, NEW w \in Workers
  PROVE  Approve(w) \/ Decline(w) \/ Cancel(w) => IInv'
<1> DEFINE r == job[w].request
<1>1. ASSUME NEW h \in DecisionSteps, At(w, h) PROVE requests[r] \in RequestRow
  BY <1>1, SoundWorker DEF At, Sound, IInv, TypeOK
<1>2. ASSUME Approve(w) PROVE IInv'
  <2> DEFINE row == [requests[r] EXCEPT !.status = "APPROVED", !.approvedAt = TRUE]
  <2>1. requests[r] \in RequestRow
    BY <1>1, <1>2 DEF Approve, WriteDecision, DecisionSteps
  <2>2. /\ row \in RequestRow /\ row.grant = requests[r].grant
        /\ row.person = requests[r].person /\ row.qty = requests[r].qty
        /\ row.completedAt = requests[r].completedAt /\ row.approvedAt
    BY <2>1 DEF RequestRow, RequestStatus
  <2>3. WriteDecision(w, "approve", row)
    BY <1>2 DEF Approve
  <2> HIDE DEF row
  <2> QED
    BY <2>2, <2>3, DecisionWrite DEF DecisionSteps
<1>3. ASSUME NEW h \in {"decline", "cancel"}, NEW status \in {"DECLINED", "CANCELED"},
             WriteDecision(w, h, [requests[r] EXCEPT !.status = status])
      PROVE  IInv'
  <2> DEFINE row == [requests[r] EXCEPT !.status = status]
  <2>1. requests[r] \in RequestRow
    BY <1>1, <1>3 DEF WriteDecision, DecisionSteps
  <2>2. /\ row \in RequestRow /\ row.grant = requests[r].grant
        /\ row.person = requests[r].person /\ row.qty = requests[r].qty
        /\ row.completedAt = requests[r].completedAt /\ row.status # "APPROVED"
        /\ row.approvedAt = requests[r].approvedAt
    BY <2>1 DEF RequestRow, RequestStatus
  <2>3. WriteDecision(w, h, row)
    BY <1>3
  <2> HIDE DEF row
  <2> QED
    BY <2>2, <2>3, DecisionWrite DEF DecisionSteps
<1> QED
  BY <1>2, <1>3 DEF Decline, Cancel

LEMMA CompletionWrite ==
  ASSUME IInv, NEW w \in Workers, CommitCompletion(w)
  PROVE  IInv'
<1> DEFINE r == job[w].request
           e == ExerciseEntry(r)
<1>1. TypeOK /\ TablesSound /\ r \in DOMAIN requests /\ requests[r].approvedAt
  BY SoundWorker DEF IInv, CommitCompletion, At, Sound, CompletionSteps
<1>2. CASE UNCHANGED <<requests, ledger>>
  BY <1>2, FinishStep DEF CommitCompletion, tables
<1>3. CASE SequenceFree(job[w].seq) /\ CompletionWrites(job[w])
  <2>1. r \in Requests /\ requests[r] \in RequestRow
    BY <1>1 DEF TypeOK
  <2>2. /\ e \in Entry /\ e.request = r /\ e.type = "EXERCISE"
    BY <1>1, <2>1 DEF ExerciseEntry, Entry, RequestRow, TransactionType
  <2>3. \E m \in {0} \cup DOMAIN ledger : job[w].seq = m + 1
    BY SoundWorker DEF CommitCompletion, At, Sound
  <2>4. /\ DOMAIN requests' = DOMAIN requests
        /\ requests' \in [DOMAIN requests' -> RequestRow]
        /\ requests'[r].completedAt /\ requests'[r].status = "COMPLETED"
        /\ \A x \in DOMAIN requests :
             /\ requests'[x].grant = requests[x].grant
             /\ requests'[x].person = requests[x].person
             /\ requests'[x].qty = requests[x].qty
             /\ requests'[x].approvedAt = requests[x].approvedAt
             /\ x # r => requests'[x] = requests[x]
    BY <1>1, <1>3, <2>1 DEF CompletionWrites, TypeOK, RequestRow, RequestStatus
  <2>5. \A x \in DOMAIN requests : ExerciseEntry(x)' = ExerciseEntry(x)
    BY <2>4 DEF ExerciseEntry
  <2> HIDE DEF e
  <2>6. PICK n \in Nat :
          /\ DOMAIN ledger = 1..n /\ DOMAIN ledger' = 1..(n + 1)
          /\ ledger' \in [DOMAIN ledger' -> Entry]
          /\ ledger'[n + 1] = e
          /\ \A i \in 1..n : ledger'[i] = ledger[i]
    BY <1>3, <2>2, <2>3, LedgerAppend DEF CompletionWrites, e
  <2>7. UNCHANGED <<plans, poolPlans, grants, deletedGrants, terminations, now>>
    BY DEF CommitCompletion
  <2>8. job' \in [Workers -> Job] /\ JobsSound'
    BY <2>4, <2>6, FinishWriting DEF CommitCompletion
  <2>9. TypeOK'
    BY <1>1, <2>4, <2>6, <2>7, <2>8 DEF TypeOK
  <2>10. Numbered' /\ ApprovedHasDate' /\ RequestsKeepGrant'
    BY <1>1, <2>4, <2>6, <2>7 DEF TablesSound, Numbered, ApprovedHasDate, RequestsKeepGrant
  <2>11. CompletionsAreLedgered'
    <3>1. ASSUME NEW x \in DOMAIN requests', requests'[x].completedAt
          PROVE  \E s \in DOMAIN ledger' : ledger'[s].request = x
      <4>1. CASE x = r
        BY <2>2, <2>6, <4>1
      <4>2. CASE x # r
        BY <1>1, <2>4, <2>6, <3>1, <4>2 DEF TablesSound, CompletionsAreLedgered
      <4> QED
        BY <4>1, <4>2
    <3>2. ASSUME NEW s \in DOMAIN ledger', NEW x, x = ledger'[s].request, x # None
          PROVE  /\ x \in DOMAIN requests'
                 /\ requests'[x].completedAt /\ requests'[x].approvedAt
                 /\ ledger'[s] = ExerciseEntry(x)'
      <4>1. CASE s = n + 1
        <5>1. x = r /\ ledger'[s] = ExerciseEntry(x)
          BY <2>2, <2>6, <3>2, <4>1 DEF e
        <5> QED
          BY <1>1, <2>4, <2>5, <5>1
      <4>2. CASE s \in 1..n
        <5>1. /\ x \in DOMAIN requests /\ ledger'[s] = ExerciseEntry(x)
              /\ requests[x].completedAt /\ requests[x].approvedAt
          BY <1>1, <2>6, <3>2, <4>2 DEF TablesSound, CompletionsAreLedgered
        <5> QED
          BY <2>4, <2>5, <5>1
      <4> QED
        BY <2>6, <4>1, <4>2
    <3> QED
      BY <3>1, <3>2 DEF CompletionsAreLedgered, ExerciseEntry
  <2>12. GrantsMirrorLedger'
    BY <1>1, <2>2, <2>6, <2>7 DEF TablesSound, GrantsMirrorLedger, GrantMirrored, GrantEntry
  <2> QED
    BY <2>8, <2>9, <2>10, <2>11, <2>12 DEF IInv, TablesSound
<1> QED
  BY <1>2, <1>3 DEF CommitCompletion, CompletionRolledBack

LEMMA GrantWrite ==
  ASSUME IInv, NEW w \in Workers, CommitGrant(w)
  PROVE  IInv'
<1> DEFINE row == job[w].row
<1>1. TypeOK /\ TablesSound
  BY DEF IInv
<1>2. CASE UNCHANGED <<grants, ledger>>
  BY <1>2, FinishStep DEF CommitGrant, tables
<1>3. ASSUME SequenceFree(job[w].seq), NEW g \in Grants \ (DOMAIN grants \cup deletedGrants),
             grants' = Put(grants, g, row),
             ledger' = Put(ledger, job[w].seq, GrantEntry(g, row))
      PROVE  IInv'
  <2> DEFINE e == GrantEntry(g, row)
  <2>1. row \in GrantRow /\ \E m \in {0} \cup DOMAIN ledger : job[w].seq = m + 1
    BY SoundWorker DEF CommitGrant, At, Sound, Remembers, GrantSteps
  <2>2. /\ e \in Entry /\ e.request = None /\ e.grant = g /\ e.type = "GRANT"
    BY <2>1 DEF GrantEntry, Entry, GrantRow, TransactionType
  <2>3. grants \in [DOMAIN grants -> GrantRow]
    BY <1>1 DEF TypeOK
  <2>4. /\ DOMAIN grants' = DOMAIN grants \cup {g}
        /\ grants' \in [DOMAIN grants' -> GrantRow]
        /\ grants'[g] = row
        /\ \A x \in DOMAIN grants : grants'[x] = grants[x]
    BY <1>3, <2>1, <2>3, PutTyped DEF Put
  <2>5. e = GrantEntry(g, grants'[g])
    BY <2>4
  <2> HIDE DEF row, e
  <2>6. PICK n \in Nat :
          /\ DOMAIN ledger = 1..n /\ DOMAIN ledger' = 1..(n + 1)
          /\ ledger' \in [DOMAIN ledger' -> Entry]
          /\ ledger'[n + 1] = e
          /\ \A i \in 1..n : ledger'[i] = ledger[i]
    BY <1>3, <2>1, <2>2, LedgerAppend DEF e
  <2>7. UNCHANGED <<plans, poolPlans, deletedGrants, requests, terminations, now>>
    BY DEF CommitGrant
  <2>8. job' \in [Workers -> Job] /\ JobsSound'
    BY <2>6, <2>7, FinishWriting DEF CommitGrant
  <2>9. TypeOK'
    BY <1>1, <2>4, <2>6, <2>7, <2>8 DEF TypeOK
  <2>10. Numbered' /\ ApprovedHasDate' /\ RequestsKeepGrant'
    BY <1>1, <2>4, <2>6, <2>7 DEF TablesSound, Numbered, ApprovedHasDate, RequestsKeepGrant
  <2>11. CompletionsAreLedgered'
    BY <1>1, <2>2, <2>6, <2>7 DEF TablesSound, CompletionsAreLedgered, ExerciseEntry
  <2>12. GrantsMirrorLedger'
    <3>1. ASSUME NEW x \in DOMAIN grants'
          PROVE  \E s \in DOMAIN ledger' : ledger'[s] = GrantEntry(x, grants'[x])
      BY <1>1, <2>4, <2>5, <2>6 DEF TablesSound, GrantsMirrorLedger
    <3>2. \A s \in 1..n : ~GrantMirrored(g, s)
      BY <1>1, <1>3, <2>6 DEF TablesSound, GrantsMirrorLedger
    <3>3. ASSUME NEW s \in DOMAIN ledger', NEW t \in DOMAIN ledger', NEW x \in Grants,
                 GrantMirrored(x, s)', GrantMirrored(x, t)'
          PROVE  s = t /\ x \in DOMAIN grants'
      <4>1. \A i \in 1..n : GrantMirrored(x, i)' => GrantMirrored(x, i)
        BY <2>6 DEF GrantMirrored
      <4>2. GrantMirrored(x, n + 1)' => x = g
        BY <2>2, <2>6 DEF GrantMirrored
      <4>3. \A i, k \in 1..n : GrantMirrored(x, i) /\ GrantMirrored(x, k)
                                 => i = k /\ x \in DOMAIN grants
        BY <1>1, <2>6 DEF TablesSound, GrantsMirrorLedger
      <4>4. s \in 1..n \/ s = n + 1
        BY <2>6
      <4>5. t \in 1..n \/ t = n + 1
        BY <2>6
      <4> QED
        BY <2>4, <3>2, <3>3, <4>1, <4>2, <4>3, <4>4, <4>5
    <3> QED
      BY <3>1, <3>3 DEF GrantsMirrorLedger, GrantEntry
  <2> QED
    BY <2>8, <2>9, <2>10, <2>11, <2>12 DEF IInv, TablesSound
<1> QED
  BY <1>2, <1>3 DEF CommitGrant

LEMMA UpdateWrite ==
  ASSUME IInv, NEW w \in Workers, CommitUpdate(w)
  PROVE  IInv'
<1> DEFINE g == job[w].grant
           row == job[w].row
<1>1. TypeOK /\ TablesSound
  BY DEF IInv
<1>2. CASE UNCHANGED <<grants, ledger>>
  BY <1>2, FinishStep DEF CommitUpdate, tables
<1>3. ASSUME g \in DOMAIN grants, grants' = [grants EXCEPT ![g] = row],
             ledger' = [s \in DOMAIN ledger |-> Regranted(ledger[s], g, row)]
      PROVE  IInv'
  <2>1. row \in GrantRow
    BY SoundWorker DEF CommitUpdate, At, Sound, Remembers, UpdateSteps
  <2> HIDE DEF g, row
  <2>2. /\ DOMAIN grants' = DOMAIN grants
        /\ grants' \in [DOMAIN grants' -> GrantRow]
        /\ grants'[g] = row
        /\ \A x \in DOMAIN grants : x # g => grants'[x] = grants[x]
    BY <1>1, <1>3, <2>1 DEF TypeOK
  <2>3. \A s \in DOMAIN ledger : ledger[s] \in Entry
    BY <1>1 DEF TypeOK
  <2>4. ASSUME NEW s \in DOMAIN ledger
        PROVE  /\ ledger'[s] \in Entry
               /\ ledger'[s].type = ledger[s].type /\ ledger'[s].grant = ledger[s].grant
               /\ ledger'[s].request = ledger[s].request
               /\ ~GrantMirrored(g, s) => ledger'[s] = ledger[s]
               /\ ledger[s] = GrantEntry(g, grants[g]) => ledger'[s] = GrantEntry(g, row)
    <3>1. ledger'[s] = Regranted(ledger[s], g, row)
      BY <1>3
    <3>2. CASE GrantMirrored(g, s)
      <4>1. ledger'[s] = [ledger[s] EXCEPT !.plan = row.plan, !.to = row.person, !.qty = row.qty]
        BY <3>1, <3>2 DEF Regranted, GrantMirrored
      <4>2. row.plan \in Plans /\ row.person \in Persons /\ row.qty \in Quantities
        BY <2>1 DEF GrantRow
      <4>3. ledger[s] \in Entry
        BY <2>3
      <4>4. ledger[s] = GrantEntry(g, grants[g]) => ledger'[s] = GrantEntry(g, row)
        <5> SUFFICES ASSUME ledger[s] = GrantEntry(g, grants[g])
                     PROVE  ledger'[s] = GrantEntry(g, row)
          OBVIOUS
        <5>0. /\ ledger[s].type = "GRANT" /\ ledger[s].grant = g
              /\ ledger[s].from = None /\ ledger[s].request = None
          BY DEF GrantEntry
        <5>1. /\ ledger'[s].type = "GRANT" /\ ledger'[s].grant = g
              /\ ledger'[s].from = None /\ ledger'[s].request = None
              /\ ledger'[s].plan = row.plan /\ ledger'[s].to = row.person
              /\ ledger'[s].qty = row.qty /\ ledger'[s] \in Entry
          BY <4>1, <4>2, <4>3, <5>0 DEF Entry
        <5> QED
          BY <5>1 DEF GrantEntry, Entry
      <4> QED
        BY <3>2, <4>1, <4>2, <4>3, <4>4 DEF Entry
    <3>3. CASE ~GrantMirrored(g, s)
      BY <2>3, <3>1, <3>3 DEF Regranted, GrantMirrored, GrantEntry
    <3> QED
      BY <3>2, <3>3
  <2>5. DOMAIN ledger' = DOMAIN ledger /\ ledger' \in [DOMAIN ledger' -> Entry]
    BY <1>3, <2>4
  <2>6. UNCHANGED <<plans, poolPlans, deletedGrants, requests, terminations, now>>
    BY DEF CommitUpdate
  <2>7. job' \in [Workers -> Job] /\ JobsSound'
    BY <2>5, <2>6, FinishWriting DEF CommitUpdate
  <2>8. TypeOK'
    BY <1>1, <2>2, <2>5, <2>6, <2>7 DEF TypeOK
  <2>9. Numbered' /\ ApprovedHasDate' /\ RequestsKeepGrant'
    BY <1>1, <2>2, <2>5, <2>6 DEF TablesSound, Numbered, ApprovedHasDate, RequestsKeepGrant
  <2>10. CompletionsAreLedgered'
    <3>1. \A s \in DOMAIN ledger : ledger[s].request # None => ledger'[s] = ledger[s]
      BY <1>1, <2>4 DEF TablesSound, CompletionsAreLedgered, ExerciseEntry, GrantMirrored
    <3> QED
      BY <1>1, <2>4, <2>5, <2>6, <3>1 DEF TablesSound, CompletionsAreLedgered, ExerciseEntry
  <2>11. GrantsMirrorLedger'
    <3>1. ASSUME NEW x \in DOMAIN grants'
          PROVE  \E s \in DOMAIN ledger' : ledger'[s] = GrantEntry(x, grants'[x])
      <4>1. PICK s \in DOMAIN ledger : ledger[s] = GrantEntry(x, grants[x])
        BY <1>1, <2>2 DEF TablesSound, GrantsMirrorLedger
      <4>2. ledger[s].grant = x
        BY <4>1 DEF GrantEntry
      <4>3. CASE x = g
        BY <2>2, <2>4, <2>5, <4>1, <4>3
      <4>4. CASE x # g
        BY <2>2, <2>4, <2>5, <4>1, <4>2, <4>4 DEF GrantMirrored
      <4> QED
        BY <4>3, <4>4
    <3>2. ASSUME NEW s \in DOMAIN ledger', NEW t \in DOMAIN ledger', NEW x \in Grants,
                 GrantMirrored(x, s)', GrantMirrored(x, t)'
          PROVE  s = t /\ x \in DOMAIN grants'
      <4>1. GrantMirrored(x, s) /\ GrantMirrored(x, t)
        BY <2>4, <2>5, <3>2 DEF GrantMirrored
      <4> QED
        BY <1>1, <2>2, <2>5, <4>1 DEF TablesSound, GrantsMirrorLedger
    <3> QED
      BY <3>1, <3>2 DEF GrantsMirrorLedger, GrantEntry
  <2> QED
    BY <2>7, <2>8, <2>9, <2>10, <2>11 DEF IInv, TablesSound
<1> QED
  BY <1>2, <1>3 DEF CommitUpdate

LEMMA DeleteWrite ==
  ASSUME IInv, NEW w \in Workers, CommitDelete(w)
  PROVE  IInv'
<1> DEFINE g == job[w].grant
<1>1. TypeOK /\ TablesSound /\ g \in Grants
  BY SoundWorker DEF IInv, CommitDelete, At, Sound, Remembers
<1>2. CASE UNCHANGED <<grants, deletedGrants, ledger, terminations>>
  BY <1>2, FinishStep DEF CommitDelete, tables
<1>3. ASSUME DeleteAllowed(g), grants' = Restrict(grants, DOMAIN grants \ {g}),
             deletedGrants' = deletedGrants \cup {g}, ledger' = UnlinkedLedger(g),
             terminations' = {Unlinked(t, g) : t \in terminations}
      PROVE  IInv'
  <2> HIDE DEF g
  <2>1. /\ DOMAIN grants' = DOMAIN grants \ {g}
        /\ grants' \in [DOMAIN grants' -> GrantRow]
        /\ \A x \in DOMAIN grants' : grants'[x] = grants[x]
    BY <1>1, <1>3 DEF Restrict, TypeOK
  <2>2. terminations' \subseteq Termination
    BY <1>1, <1>3 DEF Unlinked, TypeOK, Termination
  <2>3. \A s \in DOMAIN ledger : ledger[s] \in Entry
    BY <1>1 DEF TypeOK
  <2>4. ASSUME NEW s \in DOMAIN ledger
        PROVE  /\ ledger'[s] \in Entry
               /\ ledger[s].grant # g => ledger'[s] = ledger[s]
               /\ ledger[s].grant = g => ledger'[s].grant = None
               /\ ledger'[s].request = ledger[s].request
    <3>1. ledger'[s] = Unlinked(ledger[s], g)
      BY <1>3 DEF UnlinkedLedger
    <3> QED
      BY <2>3, <3>1 DEF Unlinked, Entry
  <2>5. DOMAIN ledger' = DOMAIN ledger /\ ledger' \in [DOMAIN ledger' -> Entry]
    BY <1>3, <2>4 DEF UnlinkedLedger
  <2>6. UNCHANGED <<plans, poolPlans, requests, now>>
    BY DEF CommitDelete
  <2>7. job' \in [Workers -> Job] /\ JobsSound'
    BY <2>5, <2>6, FinishWriting DEF CommitDelete
  <2>8. TypeOK'
    BY <1>1, <1>3, <2>1, <2>2, <2>5, <2>6, <2>7 DEF TypeOK
  <2>9. \A r \in DOMAIN requests : requests[r].grant # g
    BY <1>3 DEF DeleteAllowed, RequestsOf
  <2>10. Numbered' /\ ApprovedHasDate' /\ RequestsKeepGrant'
    BY <1>1, <2>1, <2>5, <2>6, <2>9
       DEF TablesSound, Numbered, ApprovedHasDate, RequestsKeepGrant
  <2>11. CompletionsAreLedgered'
    <3>1. \A s \in DOMAIN ledger : ledger[s].request # None => ledger'[s] = ledger[s]
      BY <1>1, <2>4, <2>9 DEF TablesSound, CompletionsAreLedgered, ExerciseEntry
    <3> QED
      BY <1>1, <2>4, <2>5, <2>6, <3>1 DEF TablesSound, CompletionsAreLedgered, ExerciseEntry
  <2>12. GrantsMirrorLedger'
    <3>1. ASSUME NEW x \in DOMAIN grants'
          PROVE  \E s \in DOMAIN ledger' : ledger'[s] = GrantEntry(x, grants'[x])
      <4>1. PICK s \in DOMAIN ledger : ledger[s] = GrantEntry(x, grants[x])
        BY <1>1, <2>1 DEF TablesSound, GrantsMirrorLedger
      <4>2. ledger[s].grant = x
        BY <4>1 DEF GrantEntry
      <4> QED
        BY <2>1, <2>4, <2>5, <4>1, <4>2
    <3>2. ASSUME NEW s \in DOMAIN ledger', NEW t \in DOMAIN ledger', NEW x \in Grants,
                 GrantMirrored(x, s)', GrantMirrored(x, t)'
          PROVE  s = t /\ x \in DOMAIN grants'
      <4>1. x # None
        BY ConstantsAssumption
      <4>2. GrantMirrored(x, s) /\ GrantMirrored(x, t) /\ x # g
        BY <2>4, <2>5, <3>2, <4>1 DEF GrantMirrored
      <4> QED
        BY <1>1, <2>1, <2>5, <4>2 DEF TablesSound, GrantsMirrorLedger
    <3> QED
      BY <3>1, <3>2 DEF GrantsMirrorLedger, GrantEntry
  <2> QED
    BY <2>7, <2>8, <2>10, <2>11, <2>12 DEF IInv, TablesSound
<1> QED
  BY <1>2, <1>3 DEF CommitDelete

-----------------------------------------------------------------------------
(* The invariant, and the safety properties *)

LEMMA InitInv == Init => IInv
<1> SUFFICES ASSUME Init PROVE IInv
  OBVIOUS
<1>1. DOMAIN ledger = 1..0 /\ DOMAIN grants = {} /\ DOMAIN requests = {} /\ DOMAIN plans = {}
  BY DEF Init
<1>2. TypeOK
  BY <1>1, NoJobSound DEF Init, TypeOK
<1>3. JobsSound
  BY NoJobSound DEF Init, JobsSound
<1>4. TablesSound
  BY <1>1 DEF TablesSound, Numbered, ApprovedHasDate, CompletionsAreLedgered,
              RequestsKeepGrant, GrantsMirrorLedger
<1> QED
  BY <1>2, <1>3, <1>4 DEF IInv

\* The clock, a server that waits, and a stuttering step.
LEMMA OtherSteps ==
  ASSUME IInv, Tick \/ UNCHANGED vars
  PROVE  IInv'
<1>1. UNCHANGED <<tables, job>> /\ now' \in Nat
  BY DEF Tick, vars, tables, IInv, TypeOK
<1>2. TypeOK'
  BY <1>1 DEF IInv, TypeOK, tables
<1>3. JobsSound'
  BY <1>1 DEF IInv, JobsSound, Sound, Remembers, tables
<1> QED
  BY <1>1, <1>2, <1>3, TablesKept DEF IInv, tables

LEMMA WorkerStep ==
  ASSUME IInv, NEW w \in Workers, ExerciseStep(w) \/ AdminStep(w)
  PROVE  IInv'
<1>1. CASE ExerciseStep(w)
  BY <1>1, ExerciseReads, TerminationWrite, RequestWrite, DecisionWrites, CompletionWrite
     DEF ExerciseStep
<1>2. CASE AdminStep(w)
  BY <1>2, AdminReads, PlanWrites, GrantWrite, UpdateWrite, DeleteWrite, EntryWrite
     DEF AdminStep
<1> QED
  BY <1>1, <1>2

LEMMA NextInv == IInv /\ [Next]_vars => IInv'
<1> SUFFICES ASSUME IInv, [Next]_vars PROVE IInv'
  OBVIOUS
<1>1. ASSUME NEW w \in Workers, ExerciseStep(w) \/ AdminStep(w) PROVE IInv'
  BY <1>1, WorkerStep
<1>2. CASE Tick \/ UNCHANGED vars
  BY <1>2, OtherSteps
<1> QED
  BY <1>1, <1>2 DEF Next, Quiescent

\* Every reachable state satisfies the inductive invariant.
THEOREM Invariant == Spec => []IInv
BY InitInv, NextInv, PTL DEF Spec

\* Every column of every table, and what every handler in flight remembers, has
\* its type in every reachable state.
THEOREM TypeCorrect == Spec => []TypeOK
<1>1. IInv => TypeOK
  BY DEF IInv
<1> QED
  BY <1>1, Invariant, PTL

\* nextLedgerSequence and the unique key number the ledger 1, 2, 3, ...: however
\* many handlers insert at the same time, no number is shared or skipped.
THEOREM LedgerNumbered == Spec => []LedgerHasNoGap
<1>1. IInv => LedgerHasNoGap
  <2> SUFFICES ASSUME NEW n \in Nat, DOMAIN ledger = 1..n PROVE LedgerHasNoGap
    BY DEF IInv, TablesSound, Numbered
  <2>1. Cardinality(1..n) = n
    BY FS_Interval
  <2> QED
    BY <2>1 DEF LedgerHasNoGap
<1> QED
  BY <1>1, Invariant, PTL

\* completeExerciseRequest sets completedAt and writes the EXERCISE row together,
\* and only for a request that was approved, whatever runs between its reads.
THEOREM CompletionLedgered == Spec => []CompletionsAreLedgered
<1>1. IInv => CompletionsAreLedgered
  BY DEF IInv, TablesSound
<1> QED
  BY <1>1, Invariant, PTL

\* deleteGrant never leaves a request without its grant, though its count of the
\* requests is stale by the time it deletes.
THEOREM RequestsHaveGrant == Spec => []RequestsKeepGrant
<1>1. IInv => RequestsKeepGrant
  BY DEF IInv, TablesSound
<1> QED
  BY <1>1, Invariant, PTL

\* createGrant, updateGrant and deleteGrant keep one GRANT row per grant, equal
\* to the grant.
THEOREM GrantsMirrored == Spec => []GrantsMirrorLedger
<1>1. IInv => GrantsMirrorLedger
  BY DEF IInv, TablesSound
<1> QED
  BY <1>1, Invariant, PTL
-----------------------------------------------------------------------------
(* The shared ledger implements LedgerContract *)

\* Handlers that write no ledger row.
LEMMA NoLedgerWrite ==
  ASSUME NEW w \in Workers
  PROVE  /\ ExerciseStep(w) => UNCHANGED ledger \/ CommitCompletion(w)
         /\ AdminStep(w) =>
              UNCHANGED ledger \/ CommitGrant(w) \/ CommitUpdate(w) \/ CommitDelete(w)
                \/ InsertEntry(w)
<1>1. ASSUME ExerciseStep(w) PROVE UNCHANGED ledger \/ CommitCompletion(w)
  BY <1>1 DEF ExerciseStep, StartTermination, InsertTermination, StartExerciseRequest,
     CheckExerciseWindow, CheckExercisable, InsertRequest, StartApprove, StartDecline,
     StartCancel, StartDecision, Approve, Decline, Cancel, WriteDecision, StartCompletion,
     CheckCompletionWindow, CheckAvailable, ReadCompletionSequence, OtherThanRequests, tables
<1>2. ASSUME AdminStep(w)
      PROVE  UNCHANGED ledger \/ CommitGrant(w) \/ CommitUpdate(w) \/ CommitDelete(w)
               \/ InsertEntry(w)
  <2>1. /\ \A p, q : CreatePlan(w, p, q) \/ StartUpdatePlan(w, p, q) => UNCHANGED ledger
        /\ UpdatePlan(w) => UNCHANGED ledger
        /\ \A S : UpdateCapTablePools(w, S) => UNCHANGED ledger
    BY DEF CreatePlan, StartUpdatePlan, UpdatePlan, UpdateCapTablePools, tables
  <2>2. /\ \A row : StartCreateGrant(w, row) => UNCHANGED ledger
        /\ ReadGrantPlan(w) \/ CheckGrantCapacity(w) \/ ReadGrantSequence(w)
             => UNCHANGED ledger
    BY DEF StartCreateGrant, ReadGrantPlan, CheckGrantCapacity, ReadGrantSequence, tables
  <2>3. /\ \A g, row : StartUpdateGrant(w, g, row) => UNCHANGED ledger
        /\ ReadUpdatePlan(w) \/ CheckUpdateCapacity(w) => UNCHANGED ledger
        /\ \A g : StartDeleteGrant(w, g) => UNCHANGED ledger
    BY DEF StartUpdateGrant, ReadUpdatePlan, CheckUpdateCapacity, StartDeleteGrant, tables
  <2>4. /\ \A e : StartTransaction(w, e) => UNCHANGED ledger
        /\ CheckBalance(w) \/ ReadEntrySequence(w) => UNCHANGED ledger
    BY DEF StartTransaction, CheckBalance, ReadEntrySequence, tables
  <2> QED
    BY <1>2, <2>1, <2>2, <2>3, <2>4 DEF AdminStep
<1> QED
  BY <1>1, <1>2

LEMMA AppendStep ==
  ASSUME IInv, NEW s, SequenceFree(s), \E m \in {0} \cup DOMAIN ledger : s = m + 1,
         NEW e \in Entry, ledger' = Put(ledger, s, e)
  PROVE  Contract!Append
<1>1. PICK n \in Nat :
        /\ DOMAIN ledger = 1..n /\ DOMAIN ledger' = 1..(n + 1)
        /\ ledger'[n + 1] = e
        /\ \A i \in 1..n : ledger'[i] = ledger[i]
  BY LedgerAppend
<1>2. n + 1 \in DOMAIN ledger' /\ 1..((n + 1) - 1) = DOMAIN ledger
  BY <1>1
<1> QED
  BY <1>1, <1>2 DEF Contract!Append

LEMMA ContractStep == IInv /\ [Next]_vars => [Contract!Next]_ledger
<1> SUFFICES ASSUME IInv, [Next]_vars PROVE [Contract!Next]_ledger
  OBVIOUS
<1>1. ASSUME NEW w \in Workers, CommitCompletion(w) PROVE [Contract!Next]_ledger
  <2> DEFINE r == job[w].request
  <2>1. r \in DOMAIN requests /\ \E m \in {0} \cup DOMAIN ledger : job[w].seq = m + 1
    BY <1>1, SoundWorker DEF CommitCompletion, At, Sound, CompletionSteps
  <2>2. ExerciseEntry(r) \in Entry
    BY <2>1 DEF IInv, TypeOK, ExerciseEntry, Entry, RequestRow, TransactionType
  <2> QED
    BY <1>1, <2>1, <2>2, AppendStep
       DEF CommitCompletion, CompletionRolledBack, CompletionWrites, Contract!Next
<1>2. ASSUME NEW w \in Workers, CommitGrant(w) PROVE [Contract!Next]_ledger
  <2>1. job[w].row \in GrantRow /\ \E m \in {0} \cup DOMAIN ledger : job[w].seq = m + 1
    BY <1>2, SoundWorker DEF CommitGrant, At, Sound, Remembers, GrantSteps
  <2>2. \A g \in Grants : GrantEntry(g, job[w].row) \in Entry
    BY <2>1 DEF GrantEntry, Entry, GrantRow, TransactionType
  <2> QED
    BY <1>2, <2>1, <2>2, AppendStep DEF CommitGrant, Contract!Next
<1>3. ASSUME NEW w \in Workers, InsertEntry(w) PROVE [Contract!Next]_ledger
  <2>1. job[w].entry \in Entry /\ \E m \in {0} \cup DOMAIN ledger : job[w].seq = m + 1
    BY <1>3, SoundWorker DEF InsertEntry, At, Sound, Remembers, EntrySteps
  <2> QED
    BY <1>3, <2>1, AppendStep DEF InsertEntry, Contract!Next
<1>4. ASSUME NEW w \in Workers, CommitUpdate(w) PROVE [Contract!Next]_ledger
  <2> DEFINE g == job[w].grant
             row == job[w].row
  <2>1. CASE UNCHANGED ledger
    BY <2>1
  <2>2. CASE ledger' = [s \in DOMAIN ledger |-> Regranted(ledger[s], g, row)]
    <3>1. g \in Grants
      BY <1>4, SoundWorker DEF CommitUpdate, At, Sound, Remembers, UpdateSteps
    <3> HIDE DEF g, row
    <3>2. ASSUME NEW s \in DOMAIN ledger
          PROVE  \/ ledger'[s] = ledger[s]
                 \/ ledger[s].grant = g /\ Contract!Amended(ledger'[s], ledger[s])
      <4>1. ledger'[s] = Regranted(ledger[s], g, row)
        BY <2>2
      <4>2. ledger[s] \in Entry
        BY DEF IInv, TypeOK
      <4>3. CASE GrantMirrored(g, s)
        <5>1. ledger'[s] = [ledger[s] EXCEPT !.plan = row.plan, !.to = row.person,
                                             !.qty = row.qty]
          BY <4>1, <4>3 DEF Regranted, GrantMirrored
        <5>2. /\ ledger'[s].plan = row.plan /\ ledger'[s].to = row.person
              /\ ledger'[s].qty = row.qty
          BY <4>2, <5>1 DEF Entry
        <5> QED
          BY <4>3, <5>1, <5>2 DEF GrantMirrored, Contract!Amended
      <4>4. CASE ~GrantMirrored(g, s)
        BY <4>1, <4>4 DEF Regranted, GrantMirrored
      <4> QED
        BY <4>3, <4>4
    <3>3. Contract!Amend(g)
      BY <2>2, <3>2 DEF Contract!Amend
    <3> QED
      BY <3>1, <3>3 DEF Contract!Next
  <2> QED
    BY <1>4, <2>1, <2>2 DEF CommitUpdate
<1>5. ASSUME NEW w \in Workers, CommitDelete(w) PROVE [Contract!Next]_ledger
  <2> DEFINE g == job[w].grant
  <2>1. g \in Grants
    BY <1>5, SoundWorker DEF CommitDelete, At, Sound, Remembers
  <2>2. UNCHANGED ledger \/ ledger' = UnlinkedLedger(g)
    BY <1>5 DEF CommitDelete
  <2> HIDE DEF g
  <2>3. ledger' = UnlinkedLedger(g) => Contract!Unlink(g)
    BY DEF UnlinkedLedger, Unlinked, Contract!Unlink
  <2> QED
    BY <2>1, <2>2, <2>3 DEF Contract!Next
<1>6. CASE Tick \/ UNCHANGED vars
  BY <1>6 DEF Tick, tables, vars
<1> QED
  BY <1>1, <1>2, <1>3, <1>4, <1>5, <1>6, NoLedgerWrite DEF Next, Quiescent

\* The ledger table, written by six handlers of two services at the same time,
\* is the log of the contract.
THEOREM LedgerImplementsContract == Spec => ImplementsContract
<1>1. Init => Contract!Init
  BY DEF Init, Contract!Init
<1> QED
  BY <1>1, Invariant, ContractStep, PTL DEF Spec, ImplementsContract, Contract!Spec

==============================================================================
