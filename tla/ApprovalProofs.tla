--------------------------- MODULE ApprovalProofs ---------------------------
(***************************************************************************)
(* Proofs about ApprovalFlow, for any requests, required counts and number *)
(* of handlers in flight. The counts a handler took are at most what will  *)
(* be in the table when it commits; on a request whose callers decide one  *)
(* after the other, they are exactly that.                                 *)
(***************************************************************************)
EXTENDS ApprovalFlow, TLAPS

\* What a handler in flight remembers.
JobSound(j) ==
  /\ j.step = "idle" <=> j.approval = None
  /\ j.step # "idle" => j.approval \in DOMAIN approvals /\ j.decision \in Decision
  /\ j.step \in {"countRejected", "commit"} =>
       /\ j.approved <= Seen(j, "APPROVED")
       /\ j.approval \notin Contended => j.approved = Seen(j, "APPROVED")
  /\ j.step = "commit" => j.rejected <= Seen(j, "REJECTED")

JobsSound == \A w \in Workers : JobSound(job[w])

\* Handlers share a request only where callers contend.
OneAtATime ==
  \A w, v \in Workers :
    w # v /\ job[w].approval = job[v].approval /\ job[w].approval # None =>
      job[w].approval \in Contended

IInv == TypeOK /\ JobsSound /\ OneAtATime /\ StatusIsJustified /\ EnoughIsApproved

-----------------------------------------------------------------------------

LEMMA InitInv == Init => IInv
<1> SUFFICES ASSUME Init PROVE IInv
  OBVIOUS
<1>1. TypeOK
  BY DEF Init, TypeOK, Job, NoJob
<1>2. JobsSound /\ OneAtATime
  BY DEF Init, JobsSound, JobSound, OneAtATime, NoJob
<1>3. StatusIsJustified /\ EnoughIsApproved
  BY DEF Init, StatusIsJustified, EnoughIsApproved
<1> QED
  BY <1>1, <1>2, <1>3 DEF IInv

\* The tables are as they were, and one handler remembers something else.
LEMMA JobStep ==
  ASSUME IInv, UNCHANGED <<approvals, decided>>,
         NEW w \in Workers, NEW j \in Job,
         job' = [job EXCEPT ![w] = j],
         JobSound(j),
         \/ j.approval = job[w].approval
         \/ j.approval \in Contended
         \/ \A v \in Workers : job[v].approval # j.approval
  PROVE  IInv'
<1>1. /\ \A v \in Workers : job'[v] = IF v = w THEN j ELSE job[v]
      /\ job' \in [Workers -> Job]
  BY DEF IInv, TypeOK
<1>2. TypeOK'
  BY <1>1 DEF IInv, TypeOK
<1>3. JobsSound'
  <2>1. \A k \in Job : JobSound(k) => JobSound(k)'
    BY DEF JobSound, Seen
  <2> QED
    BY <1>1, <2>1 DEF IInv, TypeOK, JobsSound
<1>4. OneAtATime'
  BY <1>1 DEF IInv, OneAtATime
<1>5. StatusIsJustified' /\ EnoughIsApproved'
  BY DEF IInv, StatusIsJustified, EnoughIsApproved
<1> QED
  BY <1>2, <1>3, <1>4, <1>5 DEF IInv

LEMMA StartStep ==
  ASSUME IInv, NEW w \in Workers, NEW a \in Approvals, NEW d \in Decision,
         StartDecision(w, a, d)
  PROVE  IInv'
<1> DEFINE j == [NoJob EXCEPT !.step = "countApproved", !.approval = a, !.decision = d]
<1>1. /\ j \in Job /\ j.step = "countApproved" /\ j.approval = a /\ j.decision = d
  BY DEF Job, NoJob
<1>2. JobSound(j)
  BY <1>1, ApprovalAssumption DEF JobSound, StartDecision
<1>3. \/ j.approval \in Contended
      \/ \A v \in Workers : job[v].approval # j.approval
  BY <1>1 DEF StartDecision
<1>4. job' = [job EXCEPT ![w] = j] /\ UNCHANGED <<approvals, decided>>
  BY DEF StartDecision
<1> HIDE DEF j
<1> QED
  BY <1>1, <1>2, <1>3, <1>4, JobStep

LEMMA CountApprovedStep ==
  ASSUME IInv, NEW w \in Workers, CountApproved(w)
  PROVE  IInv'
<1> DEFINE j == [job[w] EXCEPT !.step = "countRejected", !.approved = Seen(job[w], "APPROVED")]
<1>1. /\ job[w] \in Job /\ JobSound(job[w]) /\ job[w].step = "countApproved"
      /\ job' = [job EXCEPT ![w] = j] /\ UNCHANGED <<approvals, decided>>
  BY DEF IInv, TypeOK, JobsSound, CountApproved, At
<1>2. Seen(job[w], "APPROVED") \in Nat
  BY <1>1 DEF IInv, TypeOK, JobSound, Seen, Decision
<1>3. /\ j \in Job /\ j.step = "countRejected" /\ j.approval = job[w].approval
      /\ j.decision = job[w].decision /\ j.approved = Seen(job[w], "APPROVED")
  BY <1>1, <1>2 DEF Job
<1>4. JobSound(j)
  BY <1>1, <1>2, <1>3 DEF JobSound, Seen
<1> HIDE DEF j
<1> QED
  BY <1>1, <1>3, <1>4, JobStep

LEMMA CountRejectedStep ==
  ASSUME IInv, NEW w \in Workers, CountRejected(w)
  PROVE  IInv'
<1> DEFINE j == [job[w] EXCEPT !.step = "commit", !.rejected = Seen(job[w], "REJECTED")]
<1>1. /\ job[w] \in Job /\ JobSound(job[w]) /\ job[w].step = "countRejected"
      /\ job' = [job EXCEPT ![w] = j] /\ UNCHANGED <<approvals, decided>>
  BY DEF IInv, TypeOK, JobsSound, CountRejected, At
<1>2. Seen(job[w], "REJECTED") \in Nat
  BY <1>1 DEF IInv, TypeOK, JobSound, Seen, Decision
<1>3. /\ j \in Job /\ j.step = "commit" /\ j.approval = job[w].approval
      /\ j.decision = job[w].decision /\ j.approved = job[w].approved
      /\ j.rejected = Seen(job[w], "REJECTED")
  BY <1>1, <1>2 DEF Job
<1>4. JobSound(j)
  BY <1>1, <1>2, <1>3 DEF JobSound, Seen
<1> HIDE DEF j
<1> QED
  BY <1>1, <1>3, <1>4, JobStep

LEMMA CreateStep ==
  ASSUME IInv, NEW w \in Workers, NEW a \in Approvals, NEW n \in Counts, Create(w, a, n)
  PROVE  IInv'
<1>1. /\ DOMAIN approvals' = DOMAIN approvals \cup {a}
      /\ \A x \in DOMAIN approvals : approvals'[x] = approvals[x] /\ decided'[x] = decided[x]
      /\ approvals'[a] = [required |-> n, status |-> "SUBMITTED"]
      /\ decided'[a] = [d \in Decision |-> 0]
      /\ a \notin DOMAIN approvals /\ job' = job
  BY DEF Create, IInv, TypeOK
<1>2. TypeOK'
  <2>1. approvals' \in [DOMAIN approvals' -> ApprovalRow]
    BY <1>1 DEF IInv, TypeOK, Create, ApprovalRow, ApprovalStatus
  <2>2. decided' \in [DOMAIN approvals' -> [Decision -> Nat]]
    BY <1>1 DEF IInv, TypeOK, Create
  <2> QED
    BY <1>1, <2>1, <2>2 DEF IInv, TypeOK
<1>3. JobsSound'
  <2> SUFFICES ASSUME NEW v \in Workers PROVE JobSound(job[v])'
    BY DEF JobsSound
  <2>1. JobSound(job[v])
    BY DEF IInv, JobsSound
  <2> QED
    BY <1>1, <2>1 DEF JobSound, Seen
<1>4. OneAtATime'
  BY <1>1 DEF IInv, OneAtATime
<1>5. StatusIsJustified'
  BY <1>1 DEF IInv, StatusIsJustified
<1>6. EnoughIsApproved'
  BY <1>1, ApprovalAssumption DEF IInv, EnoughIsApproved, Decision
<1> QED
  BY <1>2, <1>3, <1>4, <1>5, <1>6 DEF IInv

\* What the commit of a decision leaves in the tables.
LEMMA Committing ==
  ASSUME IInv, NEW w \in Workers, CommitDecision(w)
  PROVE  LET j == job[w]  a == j.approval IN
         /\ a \in DOMAIN approvals /\ j.decision \in Decision
         /\ DOMAIN approvals' = DOMAIN approvals
         /\ \A x \in DOMAIN approvals \ {a} :
              approvals'[x] = approvals[x] /\ decided'[x] = decided[x]
         /\ approvals'[a].required = approvals[a].required
         /\ approvals'[a].status = NextStatus(j.approved, j.rejected, approvals[a].required)
         /\ \A d \in Decision : decided'[a][d] = Seen(j, d)
         /\ j.approved <= Seen(j, "APPROVED") /\ j.rejected <= Seen(j, "REJECTED")
         /\ a \notin Contended => j.approved = Seen(j, "APPROVED")
<1> DEFINE j == job[w]
           a == j.approval
<1>1. /\ JobSound(j) /\ j.step = "commit" /\ j \in Job
  BY DEF IInv, TypeOK, JobsSound, CommitDecision, At
<1>2. a \in DOMAIN approvals /\ j.decision \in Decision
  BY <1>1 DEF JobSound
<1>3. /\ approvals' = [approvals EXCEPT ![a].status =
                         NextStatus(j.approved, j.rejected, approvals[a].required)]
      /\ decided' = [decided EXCEPT ![a][j.decision] = @ + 1]
  BY DEF CommitDecision
<1>4. /\ approvals \in [DOMAIN approvals -> ApprovalRow]
      /\ decided \in [DOMAIN approvals -> [Decision -> Nat]]
  BY DEF IInv, TypeOK
<1>5. /\ DOMAIN approvals' = DOMAIN approvals
      /\ \A x \in DOMAIN approvals \ {a} : approvals'[x] = approvals[x] /\ decided'[x] = decided[x]
  BY <1>3, <1>4
<1>6. /\ approvals'[a].required = approvals[a].required
      /\ approvals'[a].status = NextStatus(j.approved, j.rejected, approvals[a].required)
  BY <1>2, <1>3, <1>4 DEF ApprovalRow
<1>7. \A d \in Decision : decided'[a][d] = Seen(j, d)
  BY <1>2, <1>3, <1>4 DEF Seen
<1> QED
  BY <1>1, <1>2, <1>5, <1>6, <1>7 DEF JobSound

LEMMA CommitStep ==
  ASSUME IInv, NEW w \in Workers, CommitDecision(w)
  PROVE  IInv'
<1> DEFINE j == job[w]
           a == j.approval
<1>1. /\ a \in DOMAIN approvals /\ j.decision \in Decision
      /\ DOMAIN approvals' = DOMAIN approvals
      /\ \A x \in DOMAIN approvals \ {a} :
           approvals'[x] = approvals[x] /\ decided'[x] = decided[x]
      /\ approvals'[a].required = approvals[a].required
      /\ approvals'[a].status = NextStatus(j.approved, j.rejected, approvals[a].required)
      /\ \A d \in Decision : decided'[a][d] = Seen(j, d)
      /\ j.approved <= Seen(j, "APPROVED") /\ j.rejected <= Seen(j, "REJECTED")
      /\ a \notin Contended => j.approved = Seen(j, "APPROVED")
  BY Committing
<1>2. /\ j \in Job /\ job' = [job EXCEPT ![w] = NoJob]
      /\ \A v \in Workers : job'[v] = IF v = w THEN NoJob ELSE job[v]
  BY DEF IInv, TypeOK, CommitDecision
<1>3. /\ approvals \in [DOMAIN approvals -> ApprovalRow]
      /\ decided \in [DOMAIN approvals -> [Decision -> Nat]]
      /\ DOMAIN approvals \subseteq Approvals
  BY DEF IInv, TypeOK
<1>4. TypeOK'
  <2>1. NextStatus(j.approved, j.rejected, approvals[a].required) \in ApprovalStatus
    BY DEF NextStatus, ApprovalStatus
  <2>2. approvals' \in [DOMAIN approvals' -> ApprovalRow]
    BY <1>1, <1>3, <2>1 DEF CommitDecision, ApprovalRow
  <2>3. decided' \in [DOMAIN approvals' -> [Decision -> Nat]]
    BY <1>1, <1>3 DEF CommitDecision
  <2>4. job' \in [Workers -> Job]
    BY <1>2 DEF IInv, TypeOK, Job, NoJob
  <2> QED
    BY <1>1, <1>3, <2>2, <2>3, <2>4 DEF TypeOK
<1>5. JobsSound'
  <2>1. ASSUME NEW k \in Job, JobSound(k), k.approval = a => a \in Contended
        PROVE JobSound(k)'
    <3>1. k.step # "idle" => \A d \in Decision :
            /\ decided'[k.approval][d] \in Nat /\ decided[k.approval][d] \in Nat
            /\ decided'[k.approval][d] >= decided[k.approval][d]
            /\ k.approval # a => decided'[k.approval][d] = decided[k.approval][d]
      BY <1>1, <1>3, <2>1 DEF JobSound, Seen
    <3>2. k.step # "idle" => k.approval \in DOMAIN approvals'
      BY <1>1, <2>1 DEF JobSound
    <3> HIDE DEF a, j
    <3> QED
      BY <2>1, <3>1, <3>2 DEF JobSound, Seen, Job, Decision
  <2> SUFFICES ASSUME NEW v \in Workers PROVE JobSound(job[v])'
    BY DEF JobsSound
  <2>2. CASE v = w
    BY <1>2, <2>2, ApprovalAssumption DEF JobSound, NoJob
  <2>3. CASE v # w
    <3>1. job[v] \in Job /\ JobSound(job[v]) /\ job'[v] = job[v]
      BY <1>2, <2>3 DEF IInv, TypeOK, JobsSound
    <3>2. job[v].approval = a => a \in Contended
      BY <1>1, <2>3 DEF IInv, OneAtATime, TypeOK, JobsSound, CommitDecision, At, JobSound
    <3> HIDE DEF a, j
    <3> QED
      BY <2>1, <3>1, <3>2 DEF JobSound, Seen
  <2> QED
    BY <2>2, <2>3
<1>6. OneAtATime'
  BY <1>2 DEF IInv, OneAtATime, NoJob
<1>7. /\ Seen(j, "APPROVED") \in Nat /\ Seen(j, "REJECTED") \in Nat
      /\ j.approved \in Nat /\ j.rejected \in Nat
      /\ \A x \in DOMAIN approvals : approvals[x].required \in Nat
  BY <1>1, <1>2, <1>3, ApprovalAssumption DEF Seen, Decision, Job, ApprovalRow
<1>8. StatusIsJustified'
  <2> SUFFICES ASSUME NEW x \in DOMAIN approvals
               PROVE /\ approvals'[x].status = "APPROVED" =>
                          decided'[x]["APPROVED"] >= approvals'[x].required
                     /\ approvals'[x].status = "REJECTED" => decided'[x]["REJECTED"] > 0
    BY <1>1 DEF StatusIsJustified
  <2>1. CASE x = a
    BY <1>1, <1>7, <2>1 DEF NextStatus, Decision
  <2>2. CASE x # a
    BY <1>1, <2>2 DEF IInv, StatusIsJustified
  <2> QED
    BY <2>1, <2>2
<1>9. EnoughIsApproved'
  <2> SUFFICES ASSUME NEW x \in DOMAIN approvals \ Contended,
                      decided'[x]["APPROVED"] >= approvals'[x].required
               PROVE approvals'[x].status = "APPROVED"
    BY <1>1 DEF EnoughIsApproved
  <2>1. CASE x = a
    BY <1>1, <1>7, <2>1 DEF NextStatus, Decision
  <2>2. CASE x # a
    BY <1>1, <2>2 DEF IInv, EnoughIsApproved
  <2> QED
    BY <2>1, <2>2
<1> QED
  BY <1>4, <1>5, <1>6, <1>8, <1>9 DEF IInv

LEMMA NextInv == IInv /\ [Next]_vars => IInv'
<1> SUFFICES ASSUME IInv, [Next]_vars PROVE IInv'
  OBVIOUS
<1>1. CASE UNCHANGED vars
  BY <1>1 DEF vars, IInv, TypeOK, JobsSound, JobSound, Seen, OneAtATime,
              StatusIsJustified, EnoughIsApproved
<1>2. ASSUME NEW w \in Workers, NEW a \in Approvals, NEW n \in Counts, Create(w, a, n)
      PROVE IInv'
  BY <1>2, CreateStep
<1>3. ASSUME NEW w \in Workers, NEW a \in Approvals, NEW d \in Decision, StartDecision(w, a, d)
      PROVE IInv'
  BY <1>3, StartStep
<1>4. ASSUME NEW w \in Workers, CountApproved(w) PROVE IInv'
  BY <1>4, CountApprovedStep
<1>5. ASSUME NEW w \in Workers, CountRejected(w) PROVE IInv'
  BY <1>5, CountRejectedStep
<1>6. ASSUME NEW w \in Workers, CommitDecision(w) PROVE IInv'
  BY <1>6, CommitStep
<1> QED
  BY <1>1, <1>2, <1>3, <1>4, <1>5, <1>6 DEF Next, Quiescent

-----------------------------------------------------------------------------

\* Types, what every handler in flight remembers, and the justification of
\* every status hold in every reachable state.
THEOREM ApprovalInvariant == Spec => []IInv
<1>1. Init => IInv
  BY InitInv
<1>2. IInv /\ [Next]_vars => IInv'
  BY NextInv
<1> QED
  BY <1>1, <1>2, PTL DEF Spec

\* Rows and jobs have their types.
THEOREM ApprovalTypes == Spec => []TypeOK
<1>1. IInv => TypeOK
  BY DEF IInv
<1> QED
  BY <1>1, ApprovalInvariant, PTL

\* No interleaving of decisions approves a request without the approvals it
\* requires, or rejects one that nobody rejected.
THEOREM ApprovalJustified == Spec => []StatusIsJustified
<1>1. IInv => StatusIsJustified
  BY DEF IInv
<1> QED
  BY <1>1, ApprovalInvariant, PTL

\* Where callers decide one after the other, enough approvals approve.
THEOREM ApprovalComplete == Spec => []EnoughIsApproved
<1>1. IInv => EnoughIsApproved
  BY DEF IInv
<1> QED
  BY <1>1, ApprovalInvariant, PTL

\* There, an approval is never taken back, by rejections or otherwise.
THEOREM ApprovalKept == Spec => ApprovalIsFinal
<1> DEFINE Kept == \A a \in DOMAIN approvals \ Contended :
                     approvals[a].status = "APPROVED" => approvals'[a].status = "APPROVED"
<1>1. ASSUME IInv, IInv', [Next]_vars PROVE Kept
  <2> SUFFICES ASSUME NEW a \in DOMAIN approvals \ Contended, approvals[a].status = "APPROVED"
               PROVE approvals'[a].status = "APPROVED"
    OBVIOUS
  <2>1. decided[a]["APPROVED"] >= approvals[a].required
    BY <1>1 DEF IInv, StatusIsJustified
  <2>2. CASE UNCHANGED vars
    BY <2>2 DEF vars
  <2>3. ASSUME NEW w \in Workers, NEW b \in Approvals, NEW n \in Counts, Create(w, b, n)
        PROVE approvals'[a].status = "APPROVED"
    BY <2>3 DEF Create
  <2>4. ASSUME NEW w \in Workers, CommitDecision(w)
        PROVE approvals'[a].status = "APPROVED"
    <3>1. /\ a \in DOMAIN approvals' /\ approvals'[a].required = approvals[a].required
          /\ decided'[a]["APPROVED"] >= decided[a]["APPROVED"]
          /\ decided'[a]["APPROVED"] \in Nat /\ decided[a]["APPROVED"] \in Nat
          /\ approvals[a].required \in Nat
      <4>1. /\ decided[a]["APPROVED"] \in Nat /\ approvals[a].required \in Nat
        BY <1>1, ApprovalAssumption DEF IInv, TypeOK, ApprovalRow, Decision
      <4>2. CASE a = job[w].approval
        BY <1>1, <2>4, <4>1, <4>2, Committing DEF Seen, Decision
      <4>3. CASE a # job[w].approval
        BY <1>1, <2>4, <4>1, <4>3, Committing
      <4> QED
        BY <4>1, <4>2, <4>3
    <3> QED
      BY <1>1, <2>1, <3>1 DEF IInv, EnoughIsApproved
  <2> QED
    BY <1>1, <2>2, <2>3, <2>4 DEF Next, Quiescent, StartDecision, CountApproved, CountRejected
<1> QED
  BY <1>1, ApprovalInvariant, PTL DEF Spec, ApprovalIsFinal
==============================================================================
