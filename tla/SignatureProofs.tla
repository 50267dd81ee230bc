--------------------------- MODULE SignatureProofs ---------------------------
(***************************************************************************)
(* Proofs about SignatureSystem, for any documents, requests, orders and   *)
(* number of handlers in flight. What a handler read may be out of date    *)
(* when it writes, but evidence, participants and versions only ever grow: *)
(* what it concluded from them still holds.                                *)
(***************************************************************************)
EXTENDS SignatureSystem, FiniteSetTheorems, TLAPS

Evidence(r) == OrdersWith(r, "PARTICIPANT_SIGNED")
Complete(r) == DOMAIN participants[r] \subseteq Evidence(r)
InOrder(r, o) ==
  signatureRequests[r].orderRequired =>
    \A p \in DOMAIN participants[r] : p < o => p \in Evidence(r)

ParticipantSteps == {"view", "sign", "commitSignature"}
CaptureSteps == {"capture", "readRequest", "latestVersion", "commitCapture", "mail"}
DocumentSteps == {"archive", "latestUpload", "commitUpload", "latestVersion", "commitCapture"}

\* What a handler in flight relies on.
Sound(j) ==
  /\ j.step \in DocumentSteps => j.document \in DOMAIN documents
  /\ j.step \in {"commitUpload", "commitCapture"} =>
       \E m \in {0} \cup DOMAIN versions[j.document] : j.number = m + 1
  /\ j.step \in ParticipantSteps => IsParticipant(j.request, j.order)
  /\ j.step \in {"sign", "commitSignature"} => InOrder(j.request, j.order)
  /\ j.step = "commitSignature" =>
       /\ j.status \in RequestStatus
       /\ j.status = "SIGNED" => DOMAIN participants[j.request] \subseteq Evidence(j.request) \cup {j.order}
  /\ j.step \in CaptureSteps => j.request \in DOMAIN signatureRequests /\ Complete(j.request)
  /\ j.step \in {"latestVersion", "commitCapture"} =>
       /\ j.content \in Artifact /\ j.content.request = j.request
       /\ j.content.evidence = DOMAIN participants[j.request]

JobsSound == \A w \in Workers : Sound(job[w])

RequestSound(r) ==
  /\ signatureRequests[r].document \in DOMAIN documents
  /\ Signers(r) \subseteq Evidence(r)
  /\ signatureRequests[r].status = "SIGNED" => Complete(r)
  /\ \A o \in Evidence(r) : InOrder(r, o)

EventSound(e) ==
  /\ e.request \in DOMAIN signatureRequests
  /\ e.of # None => e.of \in DOMAIN participants[e.request]

SignaturesSound ==
  /\ \A r \in DOMAIN signatureRequests : RequestSound(r)
  /\ \A e \in events : EventSound(e)

\* A stored record names a request and has the evidence of its participants.
RecordSound(c) ==
  c.request # None =>
    /\ c.request \in DOMAIN signatureRequests
    /\ c.evidence = DOMAIN participants[c.request]

DocumentSound(d) ==
  /\ \E n \in Nat : DOMAIN versions[d] = 1..n /\ (n > 0 => documents[d].version = n)
  /\ \A n \in DOMAIN versions[d] : RecordSound(versions[d][n])

DocumentsSound == \A d \in DOMAIN documents : DocumentSound(d)

IInv == TypeOK /\ JobsSound /\ SignaturesSound /\ DocumentsSound

\* What no step takes away.
Grows ==
  /\ DOMAIN documents \subseteq DOMAIN documents'
  /\ \A d \in DOMAIN documents : DOMAIN versions[d] \subseteq DOMAIN versions'[d]
  /\ DOMAIN signatureRequests \subseteq DOMAIN signatureRequests'
  /\ \A r \in DOMAIN signatureRequests :
       /\ signatureRequests'[r].orderRequired = signatureRequests[r].orderRequired
       /\ DOMAIN participants'[r] = DOMAIN participants[r]
  /\ events \subseteq events'

-----------------------------------------------------------------------------
(* What survives a step *)

LEMMA EvidenceGrows == Grows => \A r : Evidence(r) \subseteq Evidence(r)'
BY DEF Grows, Evidence, OrdersWith

LEMMA SoundKept ==
  ASSUME Grows, NEW k \in Job, Sound(k)
  PROVE  Sound(k)'
<1>1. \A r \in DOMAIN signatureRequests :
        /\ Complete(r) => Complete(r)'
        /\ \A o : InOrder(r, o) => InOrder(r, o)'
        /\ \A o : IsParticipant(r, o) => IsParticipant(r, o)'
        /\ Evidence(r) \subseteq Evidence(r)'
        /\ DOMAIN participants'[r] = DOMAIN participants[r]
        /\ r \in DOMAIN signatureRequests'
  BY EvidenceGrows DEF Grows, Complete, InOrder, IsParticipant
<1>2. k.step \in ParticipantSteps \cup CaptureSteps => k.request \in DOMAIN signatureRequests
  BY DEF Sound, IsParticipant, ParticipantSteps
<1>3. /\ k.step \in DocumentSteps => k.document \in DOMAIN documents'
      /\ k.step \in {"commitUpload", "commitCapture"} =>
           \E m \in {0} \cup DOMAIN versions'[k.document] : k.number = m + 1
  BY DEF Sound, Grows, DocumentSteps
<1> QED
  BY <1>1, <1>2, <1>3 DEF Sound, ParticipantSteps, CaptureSteps

\* Worker w goes on to remember j.
LEMMA JobStep ==
  ASSUME IInv, NEW w \in Workers, NEW j \in Job, Sound(j)', Grows,
         job' = [job EXCEPT ![w] = j]
  PROVE  job' \in [Workers -> Job] /\ JobsSound'
<1>1. job \in [Workers -> Job]
  BY DEF IInv, TypeOK
<1>2. ASSUME NEW v \in Workers PROVE Sound(job[v])'
  <2>1. CASE v = w
    BY <1>1, <2>1
  <2>2. CASE v # w
    <3>1. job'[v] = job[v] /\ Sound(job[v]) /\ job[v] \in Job
      BY <1>1, <2>2 DEF IInv, JobsSound
    <3>2. \A k \in Job : Sound(k) => Sound(k)'
      BY SoundKept
    <3> QED
      BY <3>1, <3>2 DEF Sound
  <2> QED
    BY <2>1, <2>2
<1> QED
  BY <1>1, <1>2 DEF JobsSound

LEMMA NoJobSound == NoJob \in Job /\ Sound(NoJob)
BY DEF NoJob, Job, Step, Content, Sound, ParticipantSteps, CaptureSteps, DocumentSteps

\* The documents are as they were.
LEMMA DocumentsKept ==
  ASSUME IInv, Grows, UNCHANGED documentTables
  PROVE  DocumentsSound'
<1>1. \A c : RecordSound(c) => RecordSound(c)'
  BY DEF Grows, RecordSound
<1> QED
  BY <1>1 DEF IInv, DocumentsSound, DocumentSound, documentTables

\* The signature tables are as they were.
LEMMA SignaturesKept ==
  ASSUME IInv, Grows, UNCHANGED signatureTables
  PROVE  SignaturesSound'
BY DEF IInv, Grows, SignaturesSound, RequestSound, EventSound, Signers, Evidence,
       OrdersWith, Complete, InOrder, signatureTables

\* A handler that reads, and remembers j.
LEMMA ReadStep ==
  ASSUME IInv, NEW w \in Workers, NEW j \in Job, Sound(j),
         job' = [job EXCEPT ![w] = j], UNCHANGED <<documentTables, signatureTables>>
  PROVE  IInv'
<1>1. Grows
  BY DEF Grows, documentTables, signatureTables
<1>2. job' \in [Workers -> Job] /\ JobsSound'
  BY <1>1, SoundKept, JobStep
<1>3. TypeOK'
  BY <1>2 DEF IInv, TypeOK, documentTables, signatureTables
<1> QED
  BY <1>1, <1>2, <1>3, DocumentsKept, SignaturesKept DEF IInv

LEMMA FinishStep ==
  ASSUME IInv, NEW w \in Workers, Finish(w), UNCHANGED <<documentTables, signatureTables>>
  PROVE  IInv'
BY NoJobSound, ReadStep DEF Finish, Continue

LEMMA WorkerSound ==
  ASSUME IInv, NEW w \in Workers
  PROVE  job[w] \in Job /\ Sound(job[w])
BY DEF IInv, TypeOK, JobsSound

-----------------------------------------------------------------------------
(* Documents *)

LEMMA NextIsSuccessor ==
  ASSUME NEW d, NEW n \in Nat, DOMAIN versions[d] = 1..n
  PROVE  LatestVersion(d) = n /\ NextVersion(d) = n + 1
<1>1. \E m \in {0} \cup DOMAIN versions[d] : \A i \in DOMAIN versions[d] : i <= m
  <2>1. n \in {0} \cup DOMAIN versions[d] /\ \A i \in DOMAIN versions[d] : i <= n
    OBVIOUS
  <2> QED
    BY <2>1
<1>2. /\ LatestVersion(d) \in {0} \cup DOMAIN versions[d]
      /\ \A i \in DOMAIN versions[d] : i <= LatestVersion(d)
  BY <1>1 DEF LatestVersion
<1>3. \A m \in {0} \cup DOMAIN versions[d] : (\A i \in DOMAIN versions[d] : i <= m) => m = n
  OBVIOUS
<1> QED
  BY <1>2, <1>3 DEF NextVersion

\* The number a handler takes for its version.
LEMMA NextIsNumbered ==
  ASSUME IInv, NEW d \in DOMAIN documents
  PROVE  /\ NextVersion(d) \in Nat
         /\ \E m \in {0} \cup DOMAIN versions[d] : NextVersion(d) = m + 1
<1>1. PICK n \in Nat : DOMAIN versions[d] = 1..n
  BY DEF IInv, DocumentsSound, DocumentSound
<1>2. n \in {0} \cup DOMAIN versions[d] /\ NextVersion(d) = n + 1
  BY <1>1, NextIsSuccessor
<1> QED
  BY <1>2

\* A version written at a free number is the next one.
LEMMA VersionWritten ==
  ASSUME IInv, NEW d \in DOMAIN documents, NEW k \in Nat, VersionFree(d, k),
         \E m \in {0} \cup DOMAIN versions[d] : k = m + 1,
         NEW c \in Content, RecordSound(c), WriteVersion(d, k, c),
         DOMAIN signatureRequests \subseteq DOMAIN signatureRequests',
         \A r \in DOMAIN signatureRequests : DOMAIN participants'[r] = DOMAIN participants[r]
  PROVE  /\ documents' \in [DOMAIN documents' -> DocumentRow]
         /\ DOMAIN documents' = DOMAIN documents
         /\ DOMAIN versions' = DOMAIN documents'
         /\ \A x \in DOMAIN versions' :
              /\ versions'[x] \in [DOMAIN versions'[x] -> Content]
              /\ DOMAIN versions'[x] \subseteq Nat \ {0}
              /\ DOMAIN versions[x] \subseteq DOMAIN versions'[x]
         /\ DocumentsSound'
<1>1. PICK n \in Nat : DOMAIN versions[d] = 1..n /\ (n > 0 => documents[d].version = n)
  BY DEF IInv, DocumentsSound, DocumentSound
<1>2. k = n + 1
  BY <1>1 DEF VersionFree
<1>3. /\ documents \in [DOMAIN documents -> DocumentRow]
      /\ DOMAIN versions = DOMAIN documents
      /\ \A x \in DOMAIN versions :
           versions[x] \in [DOMAIN versions[x] -> Content] /\ DOMAIN versions[x] \subseteq Nat \ {0}
  BY DEF IInv, TypeOK
<1>4. /\ documents' = [documents EXCEPT ![d].version = k, ![d].status = "ACTIVE"]
      /\ versions' = [versions EXCEPT ![d] = Put(versions[d], k, c)]
  BY DEF WriteVersion
<1>5. /\ documents' \in [DOMAIN documents -> DocumentRow]
      /\ documents'[d].version = k
      /\ \A x \in DOMAIN documents : x # d => documents'[x] = documents[x]
  BY <1>3, <1>4 DEF DocumentRow
<1>6. /\ DOMAIN versions' = DOMAIN documents
      /\ versions'[d] = Put(versions[d], k, c)
      /\ \A x \in DOMAIN documents : x # d => versions'[x] = versions[x]
  BY <1>3, <1>4
<1>7. /\ DOMAIN versions'[d] = DOMAIN versions[d] \cup {k}
      /\ versions'[d] \in [DOMAIN versions'[d] -> Content]
      /\ versions'[d][k] = c
      /\ \A i \in DOMAIN versions[d] : i # k => versions'[d][i] = versions[d][i]
  <2> DEFINE T == versions[d]
  <2>1. T \in [DOMAIN T -> Content]
    BY <1>3
  <2>2. /\ DOMAIN Put(T, k, c) = DOMAIN T \cup {k}
        /\ Put(T, k, c) \in [DOMAIN T \cup {k} -> Content]
        /\ Put(T, k, c)[k] = c
        /\ \A i \in DOMAIN T : i # k => Put(T, k, c)[i] = T[i]
    <3> HIDE DEF T
    <3> QED
      BY <2>1 DEF Put
  <2> QED
    BY <1>6, <2>2
<1>8. 1..(n + 1) = (1..n) \cup {n + 1}
  OBVIOUS
<1>9. \A e : RecordSound(e) => RecordSound(e)'
  BY DEF RecordSound
<1>10. DocumentsSound'
  <2> SUFFICES ASSUME NEW x \in DOMAIN documents PROVE DocumentSound(x)'
    BY <1>5 DEF DocumentsSound
  <2>1. CASE x = d
    <3>1. DOMAIN versions'[d] = 1..(n + 1) /\ documents'[d].version = n + 1
      BY <1>1, <1>2, <1>5, <1>6, <1>7, <1>8
    <3>2. \A i \in DOMAIN versions'[d] : RecordSound(versions[d][i])'
      <4> SUFFICES ASSUME NEW i \in DOMAIN versions'[d] PROVE RecordSound(versions[d][i])'
        OBVIOUS
      <4>1. \/ versions'[d][i] = c
            \/ i \in DOMAIN versions[d] /\ versions'[d][i] = versions[d][i]
        BY <1>6, <1>7
      <4>2. \A m \in DOMAIN versions[d] : RecordSound(versions[d][m])
        BY DEF IInv, DocumentsSound, DocumentSound
      <4> QED
        BY <4>1, <4>2 DEF RecordSound
    <3> QED
      BY <2>1, <3>1, <3>2 DEF DocumentSound
  <2>2. CASE x # d
    BY <1>5, <1>6, <1>9, <2>2 DEF IInv, DocumentsSound, DocumentSound, RecordSound
  <2> QED
    BY <2>1, <2>2
<1>11. \A x \in DOMAIN versions' :
         /\ versions'[x] \in [DOMAIN versions'[x] -> Content]
         /\ DOMAIN versions'[x] \subseteq Nat \ {0}
         /\ DOMAIN versions[x] \subseteq DOMAIN versions'[x]
  BY <1>2, <1>3, <1>6, <1>7
<1> QED
  BY <1>5, <1>6, <1>10, <1>11

LEMMA DocumentReads ==
  ASSUME IInv, NEW w \in Workers
  PROVE  /\ \A d \in Documents : StartUpload(w, d) \/ StartArchive(w, d) => IInv'
         /\ ReadLatestUpload(w) => IInv'
<1>1. ASSUME NEW d \in Documents, StartUpload(w, d) PROVE IInv'
  <2> DEFINE j == [NoJob EXCEPT !.step = "latestUpload", !.document = d]
  <2>1. j \in Job /\ Sound(j)
    BY <1>1, NoJobSound DEF StartUpload, Job, Step, NoJob, Content, Sound,
       ParticipantSteps, CaptureSteps, DocumentSteps
  <2>2. job' = [job EXCEPT ![w] = j] /\ UNCHANGED <<documentTables, signatureTables>>
    BY <1>1 DEF StartUpload, Begin
  <2> HIDE DEF j
  <2> QED
    BY <2>1, <2>2, ReadStep
<1>2. ASSUME NEW d \in Documents, StartArchive(w, d) PROVE IInv'
  <2> DEFINE j == [NoJob EXCEPT !.step = "archive", !.document = d]
  <2>1. j \in Job /\ Sound(j)
    BY <1>2, NoJobSound DEF StartArchive, NoRequest, Job, Step, NoJob, Content, Sound,
       ParticipantSteps, CaptureSteps, DocumentSteps
  <2>2. job' = [job EXCEPT ![w] = j] /\ UNCHANGED <<documentTables, signatureTables>>
    BY <1>2 DEF StartArchive, NoRequest, Begin
  <2> HIDE DEF j
  <2> QED
    BY <2>1, <2>2, ReadStep
<1>3. ASSUME ReadLatestUpload(w) PROVE IInv'
  <2> DEFINE d == job[w].document
             j == [job[w] EXCEPT !.step = "commitUpload", !.number = NextVersion(d)]
  <2>1. job[w] \in Job /\ d \in DOMAIN documents
    BY <1>3, WorkerSound DEF ReadLatestUpload, At, Sound, DocumentSteps
  <2>2. NextVersion(d) \in Nat /\ \E m \in {0} \cup DOMAIN versions[d] : NextVersion(d) = m + 1
    BY <2>1, NextIsNumbered
  <2>3. /\ j \in Job /\ j.step = "commitUpload" /\ j.document = d
        /\ j.number = NextVersion(d)
    BY <2>1, <2>2 DEF Job, Step
  <2>4. job' = [job EXCEPT ![w] = j] /\ UNCHANGED <<documentTables, signatureTables>>
    BY <1>3 DEF ReadLatestUpload, Continue
  <2> HIDE DEF j, d
  <2>5. Sound(j)
    BY <2>1, <2>2, <2>3 DEF Sound, ParticipantSteps, CaptureSteps, DocumentSteps
  <2> QED
    BY <2>3, <2>4, <2>5, ReadStep
<1> QED
  BY <1>1, <1>2, <1>3

LEMMA CreateDocumentStep ==
  ASSUME IInv, NEW w \in Workers, NEW d \in Documents, CreateDocument(w, d)
  PROVE  IInv'
<1>1. /\ documents \in [DOMAIN documents -> DocumentRow]
      /\ DOMAIN documents \subseteq Documents /\ DOMAIN versions = DOMAIN documents
      /\ \A x \in DOMAIN versions :
           versions[x] \in [DOMAIN versions[x] -> Content] /\ DOMAIN versions[x] \subseteq Nat \ {0}
  BY DEF IInv, TypeOK
<1>2. /\ d \notin DOMAIN documents
      /\ documents' = Put(documents, d, [version |-> 1, status |-> "DRAFT", archived |-> FALSE])
      /\ versions' = Put(versions, d, <<>>)
      /\ UNCHANGED <<signatureTables, job>>
  BY DEF CreateDocument
<1>3. /\ DOMAIN documents' = DOMAIN documents \cup {d}
      /\ DOMAIN versions' = DOMAIN documents \cup {d}
      /\ versions'[d] = <<>>
      /\ \A x \in DOMAIN documents : documents'[x] = documents[x] /\ versions'[x] = versions[x]
      /\ documents' \in [DOMAIN documents' -> DocumentRow]
  BY <1>1, <1>2 DEF Put, DocumentRow
<1>4. DOMAIN versions'[d] = 1..0 /\ DOMAIN versions'[d] = {}
  BY <1>3
<1>5. Grows
  BY <1>2, <1>3 DEF Grows, signatureTables
<1>6. TypeOK'
  <2>1. versions'[d] \in [DOMAIN versions'[d] -> Content]
    BY <1>3, <1>4
  <2>2. \A x \in DOMAIN versions' :
          versions'[x] \in [DOMAIN versions'[x] -> Content] /\ DOMAIN versions'[x] \subseteq Nat \ {0}
    BY <1>1, <1>3, <1>4, <2>1
  <2> QED
    BY <1>1, <1>2, <1>3, <2>2 DEF IInv, TypeOK, signatureTables
<1>7. JobsSound'
  <2>1. \A k \in Job : Sound(k) => Sound(k)'
    BY <1>5, SoundKept
  <2> QED
    BY <1>2, <2>1 DEF IInv, TypeOK, JobsSound, Sound
<1>8. SignaturesSound'
  BY <1>2, <1>5, SignaturesKept
<1>9. DocumentsSound'
  <2>1. \A c : RecordSound(c) => RecordSound(c)'
    BY <1>5 DEF Grows, RecordSound
  <2>2. DocumentSound(d)'
    BY <1>4 DEF DocumentSound
  <2> QED
    BY <1>3, <2>1, <2>2 DEF IInv, DocumentsSound, DocumentSound
<1> QED
  BY <1>6, <1>7, <1>8, <1>9 DEF IInv

LEMMA UploadStep ==
  ASSUME IInv, NEW w \in Workers, CommitUpload(w)
  PROVE  IInv'
<1> DEFINE d == job[w].document
           k == job[w].number
<1>1. /\ d \in DOMAIN documents /\ k \in Nat
      /\ \E m \in {0} \cup DOMAIN versions[d] : k = m + 1
  BY WorkerSound DEF CommitUpload, At, Sound, DocumentSteps, Job
<1>2. Finish(w) /\ UNCHANGED signatureTables
  BY DEF CommitUpload
<1>3. CASE VersionFree(d, k) /\ WriteVersion(d, k, Upload)
  <2>1. Upload \in Content /\ RecordSound(Upload)
    BY DEF Upload, Content, RecordSound
  <2> HIDE DEF d, k
  <2>2. /\ documents' \in [DOMAIN documents' -> DocumentRow]
        /\ DOMAIN documents' = DOMAIN documents /\ DOMAIN versions' = DOMAIN documents'
        /\ \A x \in DOMAIN versions' :
             /\ versions'[x] \in [DOMAIN versions'[x] -> Content]
             /\ DOMAIN versions'[x] \subseteq Nat \ {0}
             /\ DOMAIN versions[x] \subseteq DOMAIN versions'[x]
        /\ DocumentsSound'
    BY <1>1, <1>2, <1>3, <2>1, VersionWritten DEF signatureTables
  <2>3. Grows
    BY <1>2, <2>2 DEF Grows, signatureTables
  <2>4. job' \in [Workers -> Job] /\ JobsSound'
    <3>1. Sound(NoJob)' /\ NoJob \in Job
      BY <2>3, NoJobSound, SoundKept
    <3> QED
      BY <1>2, <2>3, <3>1, JobStep DEF Finish, Continue
  <2>5. TypeOK'
    BY <1>2, <2>2, <2>4 DEF IInv, TypeOK, signatureTables
  <2> QED
    BY <1>2, <2>2, <2>3, <2>4, <2>5, SignaturesKept DEF IInv
<1>4. CASE UNCHANGED documentTables
  BY <1>2, <1>4, FinishStep
<1> QED
  BY <1>3, <1>4 DEF CommitUpload

LEMMA ArchiveStep ==
  ASSUME IInv, NEW w \in Workers, Archive(w)
  PROVE  IInv'
<1> DEFINE d == job[w].document
<1>1. /\ Finish(w) /\ UNCHANGED <<versions, signatureTables>>
      /\ documents' = [documents EXCEPT ![d].status = "ARCHIVED", ![d].archived = TRUE]
  BY DEF Archive
<1>2. documents \in [DOMAIN documents -> DocumentRow]
  BY DEF IInv, TypeOK
<1>3. /\ documents' \in [DOMAIN documents -> DocumentRow]
      /\ \A x \in DOMAIN documents : documents'[x].version = documents[x].version
  BY <1>1, <1>2 DEF DocumentRow
<1>4. Grows
  BY <1>1, <1>3 DEF Grows, signatureTables
<1>5. job' \in [Workers -> Job] /\ JobsSound'
  <2>1. Sound(NoJob)' /\ NoJob \in Job
    BY <1>4, NoJobSound, SoundKept
  <2> QED
    BY <1>1, <1>4, <2>1, JobStep DEF Finish, Continue
<1>6. TypeOK'
  BY <1>1, <1>3, <1>5 DEF IInv, TypeOK, signatureTables
<1>7. SignaturesSound'
  BY <1>1, <1>4, SignaturesKept
<1>8. DocumentsSound'
  BY <1>1, <1>3 DEF IInv, DocumentsSound, DocumentSound, RecordSound, signatureTables
<1> QED
  BY <1>5, <1>6, <1>7, <1>8 DEF IInv

-----------------------------------------------------------------------------
(* Signatures *)

\* As many signed as there are participants: all of them.
LEMMA AllCounted ==
  ASSUME IInv, NEW r \in DOMAIN signatureRequests, NEW S \in SUBSET DOMAIN participants[r],
         StatusWhenSigned(r, S) = "SIGNED"
  PROVE  S = DOMAIN participants[r]
<1> DEFINE P == DOMAIN participants[r]
<1>1. IsFiniteSet(Orders) /\ P \in SUBSET Orders
  BY SignatureAssumption DEF IInv, TypeOK
<1>2. IsFiniteSet(P)
  BY <1>1, FS_Subset
<1>3. Cardinality(S) <= Cardinality(P) /\ (Cardinality(P) = Cardinality(S) => P = S)
  BY <1>2, FS_Subset
<1>4. IsFiniteSet(S) /\ Cardinality(S) \in Nat /\ Cardinality(P) \in Nat
  BY <1>2, FS_Subset, FS_CardinalityType
<1>5. Cardinality(S) >= Cardinality(P)
  BY DEF StatusWhenSigned
<1> QED
  BY <1>3, <1>4, <1>5

LEMMA SignatureReads ==
  ASSUME IInv, NEW w \in Workers
  PROVE  /\ \A r \in SignatureRequests, o \in Orders : StartView(w, r, o) => IInv'
         /\ \A r \in SignatureRequests, o \in Orders : StartSign(w, r, o) => IInv'
         /\ CountSigned(w) => IInv'
<1>1. ASSUME NEW r \in SignatureRequests, NEW o \in Orders, StartView(w, r, o) PROVE IInv'
  <2> DEFINE j == [NoJob EXCEPT !.step = "view", !.request = r, !.order = o]
  <2>1. j \in Job /\ Sound(j)
    BY <1>1, NoJobSound DEF StartView, Job, Step, NoJob, Content, Sound,
       ParticipantSteps, CaptureSteps, DocumentSteps
  <2>2. job' = [job EXCEPT ![w] = j] /\ UNCHANGED <<documentTables, signatureTables>>
    BY <1>1 DEF StartView, Begin
  <2> HIDE DEF j
  <2> QED
    BY <2>1, <2>2, ReadStep
<1>2. ASSUME NEW r \in SignatureRequests, NEW o \in Orders, StartSign(w, r, o) PROVE IInv'
  <2> DEFINE j == [NoJob EXCEPT !.step = "sign", !.request = r, !.order = o]
  <2>1. IsParticipant(r, o)
    BY <1>2 DEF StartSign
  <2>2. InOrder(r, o)
    <3>1. Signers(r) \subseteq Evidence(r)
      BY <2>1 DEF IInv, SignaturesSound, RequestSound, IsParticipant
    <3> QED
      BY <1>2, <3>1 DEF StartSign, EarlierSigned, InOrder
  <2>3. j \in Job /\ j.step = "sign" /\ j.request = r /\ j.order = o
    BY DEF Job, Step, NoJob, Content
  <2>4. job' = [job EXCEPT ![w] = j] /\ UNCHANGED <<documentTables, signatureTables>>
    BY <1>2 DEF StartSign, Begin
  <2> HIDE DEF j
  <2>5. Sound(j)
    BY <2>1, <2>2, <2>3 DEF Sound, ParticipantSteps, CaptureSteps, DocumentSteps
  <2> QED
    BY <2>3, <2>4, <2>5, ReadStep
<1>3. ASSUME CountSigned(w) PROVE IInv'
  <2> DEFINE r == job[w].request
             o == job[w].order
             S == Signers(r) \cup {o}
             j == [job[w] EXCEPT !.step = "commitSignature", !.status = StatusWhenSigned(r, S)]
  <2>1. job[w] \in Job /\ IsParticipant(r, o) /\ InOrder(r, o)
    BY <1>3, WorkerSound DEF CountSigned, At, Sound, ParticipantSteps
  <2>2. r \in DOMAIN signatureRequests /\ S \in SUBSET DOMAIN participants[r]
        /\ Signers(r) \subseteq Evidence(r)
    BY <2>1 DEF IsParticipant, Signers, IInv, SignaturesSound, RequestSound
  <2>3. StatusWhenSigned(r, S) = "SIGNED" => DOMAIN participants[r] \subseteq Evidence(r) \cup {o}
    BY <2>2, AllCounted
  <2>4. StatusWhenSigned(r, S) \in RequestStatus
    BY DEF StatusWhenSigned, RequestStatus
  <2>5. /\ j \in Job /\ j.step = "commitSignature" /\ j.request = r /\ j.order = o
        /\ j.status = StatusWhenSigned(r, S)
    BY <2>1, <2>4 DEF Job, Step
  <2>6. job' = [job EXCEPT ![w] = j] /\ UNCHANGED <<documentTables, signatureTables>>
    BY <1>3 DEF CountSigned, Continue
  <2> HIDE DEF j, r, o, S
  <2>7. Sound(j)
    BY <2>1, <2>3, <2>4, <2>5 DEF Sound, ParticipantSteps, CaptureSteps, DocumentSteps
  <2> QED
    BY <2>5, <2>6, <2>7, ReadStep
<1> QED
  BY <1>1, <1>2, <1>3

\* A participant is updated, with the status of the request, and an event of it
\* added.
LEMMA ParticipantWritten ==
  ASSUME IInv, NEW r, NEW o, IsParticipant(r, o),
         NEW st \in ParticipantStatus, NEW rs \in RequestStatus, NEW type \in EventType,
         participants' = [participants EXCEPT ![r][o] = st],
         signatureRequests' = [signatureRequests EXCEPT ![r].status = rs],
         events' = events \cup {ParticipantEvent(r, o, type)},
         UNCHANGED documentTables,
         st = "SIGNED" => type = "PARTICIPANT_SIGNED",
         type = "PARTICIPANT_SIGNED" => InOrder(r, o),
         rs = "SIGNED" =>
           \/ signatureRequests[r].status = "SIGNED"
           \/ /\ type = "PARTICIPANT_SIGNED"
              /\ DOMAIN participants[r] \subseteq Evidence(r) \cup {o}
  PROVE  /\ Grows
         /\ job' \in [Workers -> Job] => TypeOK'
         /\ SignaturesSound'
         /\ DocumentsSound'
         /\ r \in DOMAIN signatureRequests'
         /\ rs = "SIGNED" => Complete(r)'
<1>1. /\ r \in DOMAIN signatureRequests /\ o \in DOMAIN participants[r]
      /\ DOMAIN participants = DOMAIN signatureRequests
      /\ DOMAIN signatureRequests \subseteq SignatureRequests
      /\ signatureRequests \in [DOMAIN signatureRequests -> RequestRow]
      /\ \A q \in DOMAIN participants :
           /\ participants[q] \in [DOMAIN participants[q] -> ParticipantStatus]
           /\ DOMAIN participants[q] \in (SUBSET Orders) \ {{}}
  BY DEF IInv, TypeOK, IsParticipant
<1>2. /\ DOMAIN participants' = DOMAIN participants
      /\ DOMAIN participants'[r] = DOMAIN participants[r]
      /\ participants'[r][o] = st
      /\ \A p \in DOMAIN participants[r] : p # o => participants'[r][p] = participants[r][p]
      /\ \A q \in DOMAIN participants : q # r => participants'[q] = participants[q]
  BY <1>1
<1>3. /\ DOMAIN signatureRequests' = DOMAIN signatureRequests
      /\ signatureRequests' \in [DOMAIN signatureRequests -> RequestRow]
      /\ signatureRequests'[r].status = rs
      /\ signatureRequests'[r].orderRequired = signatureRequests[r].orderRequired
      /\ signatureRequests'[r].document = signatureRequests[r].document
      /\ \A q \in DOMAIN signatureRequests : q # r => signatureRequests'[q] = signatureRequests[q]
  BY <1>1 DEF RequestRow
<1>4. Grows
  BY <1>1, <1>2, <1>3 DEF Grows, documentTables
<1>5. /\ \A q : q # r => Evidence(q)' = Evidence(q)
      /\ type = "PARTICIPANT_SIGNED" => Evidence(r)' = Evidence(r) \cup {o}
      /\ type # "PARTICIPANT_SIGNED" => Evidence(r)' = Evidence(r)
  BY <1>1 DEF Evidence, OrdersWith, ParticipantEvent
<1>6. ParticipantEvent(r, o, type) \in Event /\ EventSound(ParticipantEvent(r, o, type))
  BY <1>1 DEF ParticipantEvent, Event, EventSound
<1>7. job' \in [Workers -> Job] => TypeOK'
  <2>1. \A q \in DOMAIN participants' :
          /\ participants'[q] \in [DOMAIN participants'[q] -> ParticipantStatus]
          /\ DOMAIN participants'[q] \in (SUBSET Orders) \ {{}}
    BY <1>1, <1>2
  <2> QED
    BY <1>1, <1>2, <1>3, <1>6, <2>1 DEF IInv, TypeOK, documentTables
<1>8. SignaturesSound'
  <2>1. \A e \in events' : EventSound(e)'
    BY <1>1, <1>2, <1>3, <1>6 DEF IInv, SignaturesSound, EventSound
  <2>2. ASSUME NEW q \in DOMAIN signatureRequests, q # r PROVE RequestSound(q)'
    <3>1. RequestSound(q)
      BY DEF IInv, SignaturesSound
    <3>2. /\ Evidence(q)' = Evidence(q) /\ participants'[q] = participants[q]
          /\ signatureRequests'[q] = signatureRequests[q]
      BY <1>1, <1>2, <1>3, <1>5, <2>2
    <3> QED
      BY <3>1, <3>2 DEF RequestSound, Signers, Complete, InOrder, documentTables
  <2>3. RequestSound(r)'
    <3>1. RequestSound(r)
      BY <1>1 DEF IInv, SignaturesSound
    <3>2. signatureRequests'[r].document \in DOMAIN documents'
      BY <1>3, <3>1 DEF RequestSound, documentTables
    <3>3. Signers(r)' \subseteq Evidence(r)'
      BY <1>2, <1>5, <3>1 DEF RequestSound, Signers
    <3>4. signatureRequests'[r].status = "SIGNED" => Complete(r)'
      BY <1>2, <1>3, <1>5, <3>1 DEF RequestSound, Complete
    <3>5. \A p \in Evidence(r)' : InOrder(r, p)'
      BY <1>2, <1>3, <1>5, <3>1 DEF RequestSound, InOrder
    <3> QED
      BY <3>2, <3>3, <3>4, <3>5 DEF RequestSound
  <2> QED
    BY <1>3, <2>1, <2>2, <2>3 DEF SignaturesSound
<1>9. rs = "SIGNED" => Complete(r)'
  BY <1>1, <1>3, <1>8 DEF SignaturesSound, RequestSound
<1> QED
  BY <1>1, <1>3, <1>4, <1>7, <1>8, <1>9, DocumentsKept

LEMMA SignatureTyped ==
  ASSUME IInv, NEW r \in DOMAIN signatureRequests
  PROVE  /\ signatureRequests[r].status \in RequestStatus
         /\ signatureRequests = [signatureRequests EXCEPT ![r].status = signatureRequests[r].status]
<1>1. signatureRequests \in [DOMAIN signatureRequests -> RequestRow]
  BY DEF IInv, TypeOK
<1> QED
  BY <1>1 DEF RequestRow

LEMMA ViewStep ==
  ASSUME IInv, NEW w \in Workers, View(w)
  PROVE  IInv'
<1> DEFINE r == job[w].request
           o == job[w].order
<1>1. IsParticipant(r, o) /\ r \in DOMAIN signatureRequests
  BY WorkerSound DEF View, At, Sound, ParticipantSteps, IsParticipant
<1>2. /\ participants' = [participants EXCEPT ![r][o] = "VIEWED"]
      /\ events' = events \cup {ParticipantEvent(r, o, "PARTICIPANT_VIEWED")}
      /\ Finish(w) /\ UNCHANGED documentTables
      /\ signatureRequests' = [signatureRequests EXCEPT ![r].status = signatureRequests[r].status]
  BY <1>1, SignatureTyped DEF View
<1> HIDE DEF r, o
<1>3. /\ Grows /\ SignaturesSound' /\ DocumentsSound'
      /\ job' \in [Workers -> Job] => TypeOK'
  BY <1>1, <1>2, ParticipantWritten, SignatureTyped DEF ParticipantStatus, EventType
<1>4. Sound(NoJob)' /\ NoJob \in Job
  BY <1>3, NoJobSound, SoundKept
<1> QED
  BY <1>2, <1>3, <1>4, JobStep DEF IInv, Finish, Continue

LEMMA DeclineStep ==
  ASSUME IInv, NEW w \in Workers, NEW r \in SignatureRequests, NEW o \in Orders, Decline(w, r, o)
  PROVE  IInv'
<1>1. IsParticipant(r, o) /\ UNCHANGED <<documentTables, job>>
  BY DEF Decline
<1>2. /\ Grows /\ SignaturesSound' /\ DocumentsSound'
      /\ job' \in [Workers -> Job] => TypeOK'
  BY <1>1, ParticipantWritten DEF Decline, ParticipantStatus, EventType, RequestStatus
<1>3. JobsSound'
  <2>1. \A k \in Job : Sound(k) => Sound(k)'
    BY <1>2, SoundKept
  <2> QED
    BY <1>1, <2>1 DEF IInv, TypeOK, JobsSound, Sound
<1> QED
  BY <1>1, <1>2, <1>3 DEF IInv, TypeOK

LEMMA SignStep ==
  ASSUME IInv, NEW w \in Workers, CommitSignature(w)
  PROVE  IInv'
<1>1. PICK r, o, rs : r = job[w].request /\ o = job[w].order /\ rs = job[w].status
  OBVIOUS
<1>2. /\ IsParticipant(r, o) /\ r \in DOMAIN signatureRequests
      /\ InOrder(r, o) /\ rs \in RequestStatus
      /\ rs = "SIGNED" => DOMAIN participants[r] \subseteq Evidence(r) \cup {o}
  BY <1>1, WorkerSound DEF CommitSignature, At, Sound, ParticipantSteps, IsParticipant
<1> DEFINE j == [NoJob EXCEPT !.step = "capture", !.request = r]
<1>3. /\ participants' = [participants EXCEPT ![r][o] = "SIGNED"]
      /\ signatureRequests' = [signatureRequests EXCEPT ![r].status = rs]
      /\ events' = events \cup {ParticipantEvent(r, o, "PARTICIPANT_SIGNED")}
      /\ UNCHANGED documentTables
      /\ \/ rs = "SIGNED" /\ job' = [job EXCEPT ![w] = j]
         \/ job' = [job EXCEPT ![w] = NoJob]
  BY <1>1 DEF CommitSignature, Continue, Finish
<1>4. r \in SignatureRequests
  BY <1>2 DEF IInv, TypeOK
<1>5. j \in Job /\ j.step = "capture" /\ j.request = r
  BY <1>4 DEF Job, Step, NoJob, Content
<1> HIDE DEF j
<1>6. /\ Grows /\ SignaturesSound' /\ DocumentsSound'
      /\ job' \in [Workers -> Job] => TypeOK'
      /\ r \in DOMAIN signatureRequests'
      /\ rs = "SIGNED" => Complete(r)'
  BY <1>2, <1>3, ParticipantWritten DEF ParticipantStatus, EventType
<1>7. CASE rs = "SIGNED" /\ job' = [job EXCEPT ![w] = j]
  <2>1. Sound(j)'
    BY <1>5, <1>6, <1>7 DEF Sound, ParticipantSteps, CaptureSteps, DocumentSteps
  <2> QED
    BY <1>5, <1>6, <1>7, <2>1, JobStep DEF IInv
<1>8. CASE job' = [job EXCEPT ![w] = NoJob]
  <2>1. Sound(NoJob)' /\ NoJob \in Job
    BY <1>6, NoJobSound, SoundKept
  <2> QED
    BY <1>6, <1>8, <2>1, JobStep DEF IInv
<1> QED
  BY <1>3, <1>7, <1>8

\* A request is added, with participants none of whom has signed.
LEMMA RequestAdded ==
  ASSUME IInv, NEW r \in SignatureRequests, r \notin DOMAIN signatureRequests,
         NEW S \in (SUBSET Orders) \ {{}}, NEW row \in RequestRow,
         row.status = "SENT", row.document \in DOMAIN documents',
         DOMAIN documents \subseteq DOMAIN documents',
         signatureRequests' = Put(signatureRequests, r, row),
         participants' = Put(participants, r, [o \in S |-> "PENDING"]),
         UNCHANGED events
  PROVE  /\ SignaturesSound'
         /\ DOMAIN signatureRequests' = DOMAIN signatureRequests \cup {r}
         /\ \A q \in DOMAIN signatureRequests :
              signatureRequests'[q] = signatureRequests[q] /\ participants'[q] = participants[q]
         /\ signatureRequests' \in [DOMAIN signatureRequests' -> RequestRow]
         /\ DOMAIN signatureRequests' \subseteq SignatureRequests
         /\ DOMAIN participants' = DOMAIN signatureRequests'
         /\ \A q \in DOMAIN participants' :
              /\ participants'[q] \in [DOMAIN participants'[q] -> ParticipantStatus]
              /\ DOMAIN participants'[q] \in (SUBSET Orders) \ {{}}
         /\ participants'[r] = [o \in S |-> "PENDING"]
         /\ Evidence(r)' = {}
<1>1. /\ DOMAIN participants = DOMAIN signatureRequests
      /\ DOMAIN signatureRequests \subseteq SignatureRequests
      /\ signatureRequests \in [DOMAIN signatureRequests -> RequestRow]
      /\ \A q \in DOMAIN participants :
           /\ participants[q] \in [DOMAIN participants[q] -> ParticipantStatus]
           /\ DOMAIN participants[q] \in (SUBSET Orders) \ {{}}
  BY DEF IInv, TypeOK
<1>2. /\ DOMAIN signatureRequests' = DOMAIN signatureRequests \cup {r}
      /\ DOMAIN participants' = DOMAIN signatureRequests'
      /\ signatureRequests'[r] = row /\ participants'[r] = [o \in S |-> "PENDING"]
      /\ \A q \in DOMAIN signatureRequests :
           signatureRequests'[q] = signatureRequests[q] /\ participants'[q] = participants[q]
  BY <1>1 DEF Put
<1>3. signatureRequests' \in [DOMAIN signatureRequests' -> RequestRow]
  BY <1>1 DEF Put
<1>4. /\ participants'[r] \in [DOMAIN participants'[r] -> ParticipantStatus]
      /\ DOMAIN participants'[r] = S
  BY <1>2 DEF ParticipantStatus
<1>5. /\ \A q : Evidence(q)' = Evidence(q)
      /\ Evidence(r) = {}
  BY DEF Evidence, OrdersWith, IInv, SignaturesSound, EventSound, ParticipantEvent
<1>6. SignaturesSound'
  <2>1. \A e \in events' : EventSound(e)'
    BY <1>1, <1>2 DEF IInv, SignaturesSound, EventSound
  <2>2. RequestSound(r)'
    BY <1>2, <1>4, <1>5 DEF RequestSound, Signers
  <2>3. ASSUME NEW q \in DOMAIN signatureRequests PROVE RequestSound(q)'
    <3>1. RequestSound(q)
      BY DEF IInv, SignaturesSound
    <3> QED
      BY <1>2, <1>5, <3>1 DEF RequestSound, Signers, Complete, InOrder
  <2> QED
    BY <1>2, <2>1, <2>2, <2>3 DEF SignaturesSound
<1> QED
  BY <1>1, <1>2, <1>3, <1>4, <1>5, <1>6

LEMMA CreateRequestStep ==
  ASSUME IInv, NEW w \in Workers, NEW r \in SignatureRequests, NEW d \in DOMAIN documents,
         NEW n \in DOMAIN versions[d], NEW S \in SUBSET Orders, NEW b \in BOOLEAN,
         CreateRequest(w, r, d, n, S, b)
  PROVE  IInv'
<1> DEFINE row == [document |-> d, version |-> n, orderRequired |-> b, status |-> "SENT"]
<1>1. row \in RequestRow /\ row.status = "SENT" /\ row.document \in DOMAIN documents'
  <2>1. n \in Nat /\ d \in Documents
    BY DEF IInv, TypeOK
  <2> QED
    BY <2>1 DEF RequestRow, RequestStatus, CreateRequest, documentTables
<1>2. /\ r \notin DOMAIN signatureRequests /\ S \in (SUBSET Orders) \ {{}}
      /\ signatureRequests' = Put(signatureRequests, r, row)
      /\ participants' = Put(participants, r, [o \in S |-> "PENDING"])
      /\ UNCHANGED <<documentTables, events, job>>
  <2>1. S # {} => S \in (SUBSET Orders) \ {{}}
    OBVIOUS
  <2> QED
    BY <2>1, Zenon DEF CreateRequest
<1> HIDE DEF row
<1>3. /\ SignaturesSound'
      /\ DOMAIN signatureRequests' = DOMAIN signatureRequests \cup {r}
      /\ \A q \in DOMAIN signatureRequests :
           signatureRequests'[q] = signatureRequests[q] /\ participants'[q] = participants[q]
      /\ signatureRequests' \in [DOMAIN signatureRequests' -> RequestRow]
      /\ DOMAIN signatureRequests' \subseteq SignatureRequests
      /\ DOMAIN participants' = DOMAIN signatureRequests'
      /\ \A q \in DOMAIN participants' :
           /\ participants'[q] \in [DOMAIN participants'[q] -> ParticipantStatus]
           /\ DOMAIN participants'[q] \in (SUBSET Orders) \ {{}}
  BY <1>1, <1>2, RequestAdded DEF documentTables
<1>4. Grows
  BY <1>2, <1>3 DEF Grows, documentTables
<1>5. TypeOK'
  BY <1>2, <1>3 DEF IInv, TypeOK, documentTables
<1>6. JobsSound'
  <2>1. \A k \in Job : Sound(k) => Sound(k)'
    BY <1>4, SoundKept
  <2> QED
    BY <1>2, <2>1 DEF IInv, TypeOK, JobsSound, Sound
<1> QED
  BY <1>2, <1>3, <1>4, <1>5, <1>6, DocumentsKept DEF IInv

LEMMA GrantPackageStep ==
  ASSUME IInv, NEW w \in Workers, NEW r \in SignatureRequests, NEW d \in Documents,
         CreateGrantPackage(w, r, d)
  PROVE  IInv'
<1> DEFINE row == [document |-> d, version |-> 1, orderRequired |-> TRUE, status |-> "SENT"]
           S == {RecipientOrder, CompanyOrder}
<1>1. /\ documents \in [DOMAIN documents -> DocumentRow]
      /\ DOMAIN documents \subseteq Documents /\ DOMAIN versions = DOMAIN documents
      /\ \A x \in DOMAIN versions :
           versions[x] \in [DOMAIN versions[x] -> Content] /\ DOMAIN versions[x] \subseteq Nat \ {0}
  BY DEF IInv, TypeOK
<1>2. /\ r \notin DOMAIN signatureRequests /\ d \notin DOMAIN documents
      /\ documents' = Put(documents, d, [version |-> 1, status |-> "ACTIVE", archived |-> FALSE])
      /\ versions' = Put(versions, d, [n \in {1} |-> Upload])
      /\ signatureRequests' = Put(signatureRequests, r, row)
      /\ participants' = Put(participants, r, [o \in S |-> "PENDING"])
      /\ UNCHANGED <<events, job>>
  BY DEF CreateGrantPackage
<1>3. /\ DOMAIN documents' = DOMAIN documents \cup {d}
      /\ DOMAIN versions' = DOMAIN documents \cup {d}
      /\ documents'[d].version = 1
      /\ versions'[d] = [n \in {1} |-> Upload]
      /\ \A x \in DOMAIN documents : documents'[x] = documents[x] /\ versions'[x] = versions[x]
      /\ documents' \in [DOMAIN documents' -> DocumentRow]
  BY <1>1, <1>2 DEF Put, DocumentRow
<1>4. /\ row \in RequestRow /\ row.status = "SENT" /\ row.document \in DOMAIN documents'
      /\ S \in (SUBSET Orders) \ {{}}
  <2>1. S \subseteq Orders /\ RecipientOrder \in S
    BY SignatureAssumption
  <2>2. row \in RequestRow /\ row.document \in DOMAIN documents'
    BY <1>3 DEF RequestRow, RequestStatus
  <2> QED
    BY <2>1, <2>2
<1> HIDE DEF row, S
<1>5. /\ SignaturesSound'
      /\ DOMAIN signatureRequests' = DOMAIN signatureRequests \cup {r}
      /\ \A q \in DOMAIN signatureRequests :
           signatureRequests'[q] = signatureRequests[q] /\ participants'[q] = participants[q]
      /\ signatureRequests' \in [DOMAIN signatureRequests' -> RequestRow]
      /\ DOMAIN signatureRequests' \subseteq SignatureRequests
      /\ DOMAIN participants' = DOMAIN signatureRequests'
      /\ \A q \in DOMAIN participants' :
           /\ participants'[q] \in [DOMAIN participants'[q] -> ParticipantStatus]
           /\ DOMAIN participants'[q] \in (SUBSET Orders) \ {{}}
  BY <1>2, <1>3, <1>4, RequestAdded
<1>6. Grows
  BY <1>2, <1>3, <1>5 DEF Grows
<1>7. DOMAIN versions'[d] = 1..1 /\ \A n \in DOMAIN versions'[d] : versions'[d][n] = Upload
  BY <1>3
<1>8. TypeOK'
  <2>1. \A x \in DOMAIN versions' :
          versions'[x] \in [DOMAIN versions'[x] -> Content] /\ DOMAIN versions'[x] \subseteq Nat \ {0}
    BY <1>1, <1>3 DEF Content
  <2> QED
    BY <1>1, <1>2, <1>3, <1>5, <2>1 DEF IInv, TypeOK
<1>9. JobsSound'
  <2>1. \A k \in Job : Sound(k) => Sound(k)'
    BY <1>6, SoundKept
  <2> QED
    BY <1>2, <2>1 DEF IInv, TypeOK, JobsSound, Sound
<1>10. DocumentsSound'
  <2>1. \A c : RecordSound(c) => RecordSound(c)'
    BY <1>6 DEF Grows, RecordSound
  <2>2. DocumentSound(d)'
    BY <1>3, <1>7 DEF DocumentSound, RecordSound, Upload
  <2>3. ASSUME NEW x \in DOMAIN documents PROVE DocumentSound(x)'
    <3>1. DocumentSound(x)
      BY DEF IInv, DocumentsSound
    <3> QED
      BY <1>3, <2>1, <3>1 DEF DocumentSound
  <2> QED
    BY <1>3, <2>2, <2>3 DEF DocumentsSound
<1> QED
  BY <1>5, <1>8, <1>9, <1>10 DEF IInv

-----------------------------------------------------------------------------
(* The capture of the signed copy *)

LEMMA CaptureReads ==
  ASSUME IInv, NEW w \in Workers
  PROVE  CheckCaptured(w) \/ ReadRequest(w) \/ ReadLatestVersion(w) => IInv'
<1>1. PICK r : r = job[w].request
  OBVIOUS
<1>2. job[w] \in Job /\ Sound(job[w])
  BY WorkerSound
<1>3. ASSUME CheckCaptured(w) PROVE IInv'
  <2> DEFINE j == [job[w] EXCEPT !.step = "readRequest"]
  <2>1. r \in DOMAIN signatureRequests /\ Complete(r)
    BY <1>1, <1>2, <1>3 DEF CheckCaptured, At, Sound, CaptureSteps
  <2>2. j \in Job /\ j.step = "readRequest" /\ j.request = r
    BY <1>1, <1>2 DEF Job, Step
  <2>3. CASE Finish(w)
    BY <1>3, <2>3, FinishStep DEF CheckCaptured
  <2>4. CASE Continue(w, j)
    <3> HIDE DEF j
    <3>1. Sound(j)
      BY <2>1, <2>2 DEF Sound, ParticipantSteps, CaptureSteps, DocumentSteps
    <3> QED
      BY <1>3, <2>2, <2>4, <3>1, ReadStep DEF CheckCaptured, Continue
  <2> QED
    BY <1>3, <2>3, <2>4 DEF CheckCaptured
<1>4. ASSUME ReadRequest(w) PROVE IInv'
  <2> DEFINE d == signatureRequests[r].document
             c == SignedRecord(r)
             j == [job[w] EXCEPT !.step = "latestVersion", !.document = d, !.content = c]
  <2>1. r \in DOMAIN signatureRequests /\ Complete(r)
    BY <1>1, <1>2, <1>4 DEF ReadRequest, At, Sound, CaptureSteps
  <2>2. d \in DOMAIN documents /\ d \in Documents
    BY <2>1 DEF IInv, TypeOK, SignaturesSound, RequestSound
  <2>3. c \in Artifact /\ c.request = r /\ c.evidence = DOMAIN participants[r]
    <3>1. /\ r \in SignatureRequests
          /\ participants[r] \in [DOMAIN participants[r] -> ParticipantStatus]
          /\ DOMAIN participants[r] \in SUBSET Orders
      BY <2>1 DEF IInv, TypeOK
    <3>2. DOMAIN participants[r] \cap OrdersWith(r, "PARTICIPANT_SIGNED") = DOMAIN participants[r]
      BY <2>1 DEF Complete, Evidence
    <3> QED
      BY <3>1, <3>2 DEF SignedRecord, Artifact
  <2>4. /\ j \in Job /\ j.step = "latestVersion" /\ j.request = r /\ j.document = d
        /\ j.content = c
    BY <1>1, <1>2, <2>2, <2>3 DEF Job, Step, Content
  <2>5. job' = [job EXCEPT ![w] = j] /\ UNCHANGED <<documentTables, signatureTables>>
    BY <1>1, <1>4 DEF ReadRequest, Continue
  <2> HIDE DEF j, c, d
  <2>6. Sound(j)
    BY <2>1, <2>2, <2>3, <2>4 DEF Sound, ParticipantSteps, CaptureSteps, DocumentSteps
  <2> QED
    BY <2>4, <2>5, <2>6, ReadStep
<1>5. ASSUME ReadLatestVersion(w) PROVE IInv'
  <2> DEFINE d == job[w].document
             j == [job[w] EXCEPT !.step = "commitCapture", !.number = NextVersion(d)]
  <2>1. /\ d \in DOMAIN documents /\ r \in DOMAIN signatureRequests /\ Complete(r)
        /\ job[w].content \in Artifact /\ job[w].content.request = r
        /\ job[w].content.evidence = DOMAIN participants[r]
    BY <1>1, <1>2, <1>5 DEF ReadLatestVersion, At, Sound, DocumentSteps, CaptureSteps
  <2>2. NextVersion(d) \in Nat /\ \E m \in {0} \cup DOMAIN versions[d] : NextVersion(d) = m + 1
    BY <2>1, NextIsNumbered
  <2>3. /\ j \in Job /\ j.step = "commitCapture" /\ j.document = d /\ j.request = r
        /\ j.number = NextVersion(d) /\ j.content = job[w].content
    BY <1>1, <1>2, <2>2 DEF Job, Step
  <2>4. job' = [job EXCEPT ![w] = j] /\ UNCHANGED <<documentTables, signatureTables>>
    BY <1>5 DEF ReadLatestVersion, Continue
  <2> HIDE DEF j, d
  <2>5. Sound(j)
    BY <2>1, <2>2, <2>3 DEF Sound, ParticipantSteps, CaptureSteps, DocumentSteps
  <2> QED
    BY <2>3, <2>4, <2>5, ReadStep
<1> QED
  BY <1>3, <1>4, <1>5

\* An event of the request as a whole is added.
LEMMA RequestEventAdded ==
  ASSUME IInv, NEW r \in DOMAIN signatureRequests,
         NEW type \in {"SIGNED_ARTIFACT_CAPTURED", "SIGNED_COPY_EMAILS_SENT"},
         events' = events \cup {RequestEvent(r, type)},
         UNCHANGED <<signatureRequests, participants>>,
         DOMAIN documents' = DOMAIN documents
  PROVE  SignaturesSound' /\ events' \subseteq Event
<1>1. events' \subseteq Event
  BY DEF IInv, TypeOK, Event, RequestEvent, EventType
<1>2. \A q : Evidence(q)' = Evidence(q)
  BY DEF Evidence, OrdersWith, ParticipantEvent, RequestEvent
<1>3. \A e \in events' : EventSound(e)'
  BY DEF IInv, SignaturesSound, EventSound, RequestEvent
<1>4. \A q \in DOMAIN signatureRequests : RequestSound(q) => RequestSound(q)'
  BY <1>2 DEF RequestSound, Signers, Complete, InOrder
<1> QED
  BY <1>1, <1>3, <1>4 DEF IInv, SignaturesSound

LEMMA CaptureStep ==
  ASSUME IInv, NEW w \in Workers, CommitCapture(w)
  PROVE  IInv'
<1>1. PICK d, k, c, r : /\ d = job[w].document /\ k = job[w].number
                        /\ c = job[w].content /\ r = job[w].request
  OBVIOUS
<1>2. /\ d \in DOMAIN documents /\ k \in Nat
      /\ \E m \in {0} \cup DOMAIN versions[d] : k = m + 1
      /\ r \in DOMAIN signatureRequests /\ Complete(r)
      /\ c \in Content /\ RecordSound(c)
  BY <1>1, WorkerSound DEF CommitCapture, At, Sound, DocumentSteps, CaptureSteps, Job, RecordSound
<1>3. CASE ~VersionFree(d, k)
  BY <1>1, <1>3, FinishStep DEF CommitCapture, signatureTables
<1>4. CASE VersionFree(d, k)
  <2> DEFINE j == [NoJob EXCEPT !.step = "mail", !.request = r]
  <2>1. /\ WriteVersion(d, k, c) /\ UNCHANGED <<signatureRequests, participants>>
        /\ events' = events \cup {RequestEvent(r, "SIGNED_ARTIFACT_CAPTURED")}
        /\ job' = [job EXCEPT ![w] = j]
    BY <1>1, <1>4 DEF CommitCapture, Continue
  <2>2. j \in Job /\ j.step = "mail" /\ j.request = r
    BY <1>2 DEF IInv, TypeOK, Job, Step, NoJob, Content
  <2> HIDE DEF j
  <2>3. /\ documents' \in [DOMAIN documents' -> DocumentRow]
        /\ DOMAIN documents' = DOMAIN documents /\ DOMAIN versions' = DOMAIN documents'
        /\ \A x \in DOMAIN versions' :
             /\ versions'[x] \in [DOMAIN versions'[x] -> Content]
             /\ DOMAIN versions'[x] \subseteq Nat \ {0}
             /\ DOMAIN versions[x] \subseteq DOMAIN versions'[x]
        /\ DocumentsSound'
    BY <1>2, <1>4, <2>1, VersionWritten
  <2>4. Grows
    BY <2>1, <2>3 DEF Grows
  <2>5. SignaturesSound' /\ events' \subseteq Event
    BY <1>2, <2>1, <2>3, RequestEventAdded
  <2>6. Sound(j)'
    BY <1>2, <2>1, <2>2, <2>4, EvidenceGrows
    DEF Sound, Complete, ParticipantSteps, CaptureSteps, DocumentSteps
  <2>7. job' \in [Workers -> Job] /\ JobsSound'
    BY <2>1, <2>2, <2>4, <2>6, JobStep
  <2>8. TypeOK'
    BY <2>1, <2>3, <2>5, <2>7 DEF IInv, TypeOK
  <2> QED
    BY <2>3, <2>5, <2>7, <2>8 DEF IInv
<1> QED
  BY <1>3, <1>4

LEMMA MailStep ==
  ASSUME IInv, NEW w \in Workers, MailSignedCopies(w)
  PROVE  IInv'
<1>1. PICK r : r = job[w].request
  OBVIOUS
<1>2. r \in DOMAIN signatureRequests
  BY <1>1, WorkerSound DEF MailSignedCopies, At, Sound, CaptureSteps
<1>3. /\ events' = events \cup {RequestEvent(r, "SIGNED_COPY_EMAILS_SENT")}
      /\ job' = [job EXCEPT ![w] = NoJob]
      /\ UNCHANGED <<documentTables, signatureRequests, participants>>
  BY <1>1 DEF MailSignedCopies, Finish, Continue
<1>4. Grows
  BY <1>3 DEF Grows, documentTables
<1>5. SignaturesSound' /\ events' \subseteq Event
  BY <1>2, <1>3, RequestEventAdded DEF documentTables
<1>6. job' \in [Workers -> Job] /\ JobsSound'
  <2>1. Sound(NoJob)' /\ NoJob \in Job
    BY <1>4, NoJobSound, SoundKept
  <2> QED
    BY <1>3, <1>4, <2>1, JobStep
<1>7. TypeOK'
  BY <1>3, <1>5, <1>6 DEF IInv, TypeOK, documentTables
<1>8. DocumentsSound'
  BY <1>3, <1>4, DocumentsKept
<1> QED
  BY <1>5, <1>6, <1>7, <1>8 DEF IInv

-----------------------------------------------------------------------------
(* Every step *)

LEMMA InitInv == Init => IInv
<1> SUFFICES ASSUME Init PROVE IInv
  OBVIOUS
<1>1. TypeOK
  BY NoJobSound DEF Init, TypeOK
<1>2. JobsSound
  BY NoJobSound DEF Init, JobsSound
<1>3. SignaturesSound /\ DocumentsSound
  BY DEF Init, SignaturesSound, DocumentsSound
<1> QED
  BY <1>1, <1>2, <1>3 DEF IInv

LEMMA StartStep ==
  ASSUME IInv, NEW w \in Workers, DocumentStart(w) \/ SignatureStart(w)
  PROVE  IInv'
<1>1. ASSUME NEW d \in Documents, CreateDocument(w, d) PROVE IInv'
  BY <1>1, CreateDocumentStep
<1>2. ASSUME NEW d \in Documents, StartUpload(w, d) \/ StartArchive(w, d) PROVE IInv'
  BY <1>2, DocumentReads
<1>3. ASSUME NEW r \in SignatureRequests, NEW d \in DOMAIN documents, NEW S \in SUBSET Orders,
             NEW b \in BOOLEAN, NEW n \in DOMAIN versions[d], CreateRequest(w, r, d, n, S, b)
      PROVE IInv'
  BY <1>3, CreateRequestStep
<1>4. ASSUME NEW r \in SignatureRequests, NEW d \in Documents, CreateGrantPackage(w, r, d)
      PROVE IInv'
  BY <1>4, GrantPackageStep
<1>5. ASSUME NEW r \in SignatureRequests, NEW o \in Orders,
             StartView(w, r, o) \/ StartSign(w, r, o)
      PROVE IInv'
  BY <1>5, SignatureReads
<1>6. ASSUME NEW r \in SignatureRequests, NEW o \in Orders, Decline(w, r, o) PROVE IInv'
  BY <1>6, DeclineStep
<1> QED
  BY <1>1, <1>2, <1>3, <1>4, <1>5, <1>6 DEF DocumentStart, SignatureStart

LEMMA ResumeStep ==
  ASSUME IInv, NEW w \in Workers, Resume(w)
  PROVE  IInv'
BY DocumentReads, UploadStep, ArchiveStep, ViewStep, SignatureReads, SignStep,
   CaptureReads, CaptureStep, MailStep
DEF Resume, DocumentContinue, SignatureContinue

LEMMA NextInv == IInv /\ [Next]_vars => IInv'
<1> SUFFICES ASSUME IInv, [Next]_vars PROVE IInv'
  OBVIOUS
<1>1. CASE UNCHANGED vars
  BY <1>1 DEF vars, IInv, TypeOK, JobsSound, Sound, IsParticipant, InOrder, Complete, Evidence,
              OrdersWith, SignaturesSound, RequestSound, EventSound, Signers, DocumentsSound,
              DocumentSound, RecordSound
<1>2. ASSUME NEW w \in Workers, Die(w) PROVE IInv'
  BY <1>2, FinishStep DEF Die
<1> QED
  BY <1>1, <1>2, StartStep, ResumeStep DEF Next, Quiescent
-----------------------------------------------------------------------------

\* Types, what every handler in flight relies on, evidence of every signature
\* and versions without gaps hold in every reachable state.
THEOREM SignatureInvariant == Spec => []IInv
<1>1. Init => IInv
  BY InitInv
<1>2. IInv /\ [Next]_vars => IInv'
  BY NextInv
<1> QED
  BY <1>1, <1>2, PTL DEF Spec

\* Rows, events and jobs have their types.
THEOREM SignatureTypes == Spec => []TypeOK
<1>1. IInv => TypeOK
  BY DEF IInv
<1> QED
  BY <1>1, SignatureInvariant, PTL

\* The signing order survives every interleaving: a check of completeMySignature
\* that passed on statuses read earlier still holds at the commit.
THEOREM EvidenceOrdered == Spec => []EvidenceInOrder
<1>1. IInv => EvidenceInOrder
  BY DEF IInv, SignaturesSound, RequestSound, InOrder, Evidence, EvidenceInOrder
<1> QED
  BY <1>1, SignatureInvariant, PTL

\* A request marked SIGNED and a stored record have everyone's evidence,
\* whatever views and declines changed after the count.
THEOREM SignedComplete == Spec => []SignedHasEvidence
<1>1. IInv => SignedHasEvidence
  BY DEF IInv, TypeOK, SignaturesSound, RequestSound, Complete, Evidence, DocumentsSound,
         DocumentSound, RecordSound, SignedHasEvidence
<1> QED
  BY <1>1, SignatureInvariant, PTL

\* The unique key on (document, versionNumber) is enough for finalizeVersion and
\* captureSignedArtifact to number versions without gaps.
THEOREM VersionsInSequence == Spec => []VersionsNumbered
<1>1. ASSUME IInv PROVE VersionsNumbered
  <2> SUFFICES ASSUME NEW d \in DOMAIN documents
               PROVE  /\ DOMAIN versions[d] = 1..Cardinality(DOMAIN versions[d])
                      /\ DOMAIN versions[d] # {} =>
                           documents[d].version = Cardinality(DOMAIN versions[d])
    BY DEF VersionsNumbered
  <2>1. PICK n \in Nat : DOMAIN versions[d] = 1..n /\ (n > 0 => documents[d].version = n)
    BY <1>1 DEF IInv, DocumentsSound, DocumentSound
  <2>2. Cardinality(1..n) = n
    BY FS_Interval
  <2> QED
    BY <2>1, <2>2
<1> QED
  BY <1>1, SignatureInvariant, PTL

-----------------------------------------------------------------------------
(* The tables implement SigningContract *)

\* A step that changes no participant, flag or evidence and files nothing.
LEMMA ContractStutters ==
  ASSUME DOMAIN signatureRequests' = DOMAIN signatureRequests,
         DOMAIN participants' = DOMAIN participants,
         \A r \in DOMAIN signatureRequests :
           signatureRequests'[r].orderRequired = signatureRequests[r].orderRequired,
         \A r \in DOMAIN participants : DOMAIN participants'[r] = DOMAIN participants[r],
         \A r : Evidence(r)' = Evidence(r),
         \A r \in DOMAIN signatureRequests : Captured(r)' = Captured(r)
  PROVE  UNCHANGED Contract!contract
BY Zenon DEF Contract!contract, Evidence

LEMMA AskStep ==
  ASSUME IInv, NEW r \in SignatureRequests, r \notin DOMAIN signatureRequests,
         NEW S \in (SUBSET Orders) \ {{}}, NEW row, row.orderRequired \in BOOLEAN,
         signatureRequests' = Put(signatureRequests, r, row),
         participants' = Put(participants, r, [o \in S |-> "PENDING"]),
         UNCHANGED events
  PROVE  Contract!Ask(r)
<1> DEFINE asked == [q \in DOMAIN participants |-> DOMAIN participants[q]]
           evidence == [q \in DOMAIN participants |-> Evidence(q)]
           ordered == {q \in DOMAIN signatureRequests : signatureRequests[q].orderRequired}
           filed == {q \in DOMAIN signatureRequests : Captured(q)}
<1>1. /\ DOMAIN participants = DOMAIN signatureRequests
      /\ \A e \in events : e.request \in DOMAIN signatureRequests
  BY DEF IInv, TypeOK, SignaturesSound, EventSound
<1>2. /\ DOMAIN signatureRequests' = DOMAIN signatureRequests \cup {r}
      /\ DOMAIN participants' = DOMAIN participants \cup {r}
      /\ signatureRequests'[r] = row
      /\ DOMAIN participants'[r] = S
      /\ \A q \in DOMAIN signatureRequests :
           signatureRequests'[q] = signatureRequests[q] /\ participants'[q] = participants[q]
  BY <1>1 DEF Put
<1>3. Evidence(r) = {} /\ ~Captured(r)
  BY <1>1 DEF Evidence, OrdersWith, Captured, ParticipantEvent, RequestEvent
<1>4. \A q : Evidence(q)' = Evidence(q) /\ (Captured(q)' <=> Captured(q))
  BY DEF Evidence, OrdersWith, Captured
<1>5. asked' = [q \in DOMAIN asked \cup {r} |-> IF q = r THEN S ELSE asked[q]]
  BY <1>1, <1>2
<1>6. evidence' = [q \in DOMAIN asked \cup {r} |-> IF q = r THEN {} ELSE evidence[q]]
  BY <1>1, <1>2, <1>3, <1>4
<1>7. ordered' \in {ordered, ordered \cup {r}}
  BY <1>2
<1>8. filed' = filed
  BY <1>2, <1>3, <1>4
<1>9. r \notin DOMAIN asked
  BY <1>1
<1> QED
  BY <1>5, <1>6, <1>7, <1>8, <1>9 DEF Contract!Ask, Evidence
\* A handler that writes one participant and an event of it.
LEMMA EventContract ==
  ASSUME IInv, NEW r, NEW o, IsParticipant(r, o), NEW type \in EventType, NEW st, NEW rs,
         participants' = [participants EXCEPT ![r][o] = st],
         signatureRequests' = [signatureRequests EXCEPT ![r].status = rs],
         events' = events \cup {ParticipantEvent(r, o, type)},
         type = "PARTICIPANT_SIGNED" => InOrder(r, o)
  PROVE  [Contract!Next]_Contract!contract
<1>1. /\ DOMAIN participants = DOMAIN signatureRequests
      /\ signatureRequests \in [DOMAIN signatureRequests -> RequestRow]
      /\ r \in DOMAIN signatureRequests /\ r \in SignatureRequests
      /\ o \in DOMAIN participants[r] /\ o \in Orders
      /\ \A q \in DOMAIN participants :
           participants[q] \in [DOMAIN participants[q] -> ParticipantStatus]
  BY DEF IInv, TypeOK, IsParticipant
<1>2. /\ DOMAIN participants' = DOMAIN participants
      /\ \A q \in DOMAIN participants : DOMAIN participants'[q] = DOMAIN participants[q]
  BY <1>1
<1>3. /\ DOMAIN signatureRequests' = DOMAIN signatureRequests
      /\ \A q \in DOMAIN signatureRequests :
           signatureRequests'[q].orderRequired = signatureRequests[q].orderRequired
  BY <1>1 DEF RequestRow
<1>4. \A q : Captured(q)' <=> Captured(q)
  BY <1>1, SignatureAssumption DEF Captured, RequestEvent, ParticipantEvent
<1>5. CASE type = "PARTICIPANT_SIGNED"
  <2> DEFINE asked == [q \in DOMAIN participants |-> DOMAIN participants[q]]
             evidence == [q \in DOMAIN participants |-> Evidence(q)]
             ordered == {q \in DOMAIN signatureRequests : signatureRequests[q].orderRequired}
             filed == {q \in DOMAIN signatureRequests : Captured(q)}
  <2>1. \A q : Evidence(q)' = IF q = r THEN Evidence(q) \cup {o} ELSE Evidence(q)
    BY <1>1, <1>5 DEF Evidence, OrdersWith, ParticipantEvent
  <2>2. evidence' = [evidence EXCEPT ![r] = @ \cup {o}]
    BY <1>1, <1>2, <2>1
  <2>3. asked' = asked /\ ordered' = ordered /\ filed' = filed
    BY <1>1, <1>2, <1>3, <1>4
  <2>4. r \in ordered => \A p \in asked[r] : p < o => p \in evidence[r]
    BY <1>1, <1>5 DEF InOrder
  <2>5. r \in DOMAIN asked /\ o \in asked[r]
    BY <1>1
  <2>6. Contract!Sign(r, o)
    BY <2>2, <2>3, <2>4, <2>5 DEF Contract!Sign, Evidence
  <2> QED
    BY <1>1, <2>6 DEF Contract!Next
<1>6. CASE type # "PARTICIPANT_SIGNED"
  <2>1. \A q : Evidence(q)' = Evidence(q)
    BY <1>6 DEF Evidence, OrdersWith, ParticipantEvent
  <2> QED
    BY <1>2, <1>3, <1>4, <2>1, ContractStutters
<1> QED
  BY <1>5, <1>6

LEMMA FileStep ==
  ASSUME IInv, NEW w \in Workers, CommitCapture(w)
  PROVE  [Contract!Next]_Contract!contract
<1>1. PICK r : r = job[w].request
  OBVIOUS
<1>2. r \in DOMAIN signatureRequests /\ Complete(r) /\ r \in SignatureRequests
  BY <1>1, WorkerSound DEF CommitCapture, At, Sound, CaptureSteps, IInv, TypeOK
<1>3. UNCHANGED <<signatureRequests, participants>>
  BY DEF CommitCapture
<1>4. CASE events' = events \cup {RequestEvent(r, "SIGNED_ARTIFACT_CAPTURED")}
  <2> DEFINE asked == [q \in DOMAIN participants |-> DOMAIN participants[q]]
             evidence == [q \in DOMAIN participants |-> Evidence(q)]
             filed == {q \in DOMAIN signatureRequests : Captured(q)}
  <2>1. \A q : Evidence(q)' = Evidence(q)
    BY <1>4 DEF Evidence, OrdersWith, ParticipantEvent, RequestEvent
  <2>2. \A q : Captured(q)' <=> (Captured(q) \/ q = r)
    BY <1>4 DEF Captured, RequestEvent
  <2>3. filed' = filed \cup {r}
    BY <1>2, <1>3, <2>2
  <2>4. evidence' = evidence
    BY <1>3, <2>1
  <2>5. r \in DOMAIN asked /\ evidence[r] = asked[r]
    <3>1. DOMAIN participants = DOMAIN signatureRequests
      BY DEF IInv, TypeOK
    <3>2. Evidence(r) \subseteq DOMAIN participants[r]
      BY SignatureAssumption
      DEF Evidence, OrdersWith, ParticipantEvent, IInv, SignaturesSound, EventSound
    <3> QED
      BY <1>2, <3>1, <3>2 DEF Complete
  <2>6. Contract!File(r)
    BY <1>3, <2>3, <2>4, <2>5 DEF Contract!File, Evidence
  <2> QED
    BY <1>2, <2>6 DEF Contract!Next
<1>5. CASE UNCHANGED events
  BY <1>3, <1>5, ContractStutters DEF Evidence, OrdersWith, Captured
<1> QED
  BY <1>1, <1>4, <1>5 DEF CommitCapture

LEMMA ContractStep == IInv /\ [Next]_vars => [Contract!Next]_Contract!contract
<1> SUFFICES ASSUME IInv, [Next]_vars PROVE [Contract!Next]_Contract!contract
  OBVIOUS
<1>1. CASE UNCHANGED signatureTables
  BY <1>1, ContractStutters DEF signatureTables, Evidence, OrdersWith, Captured
<1>2. ASSUME NEW w \in Workers, NEW r \in SignatureRequests, NEW d \in DOMAIN documents,
             NEW S \in SUBSET Orders, NEW b \in BOOLEAN, NEW n \in DOMAIN versions[d],
             CreateRequest(w, r, d, n, S, b)
      PROVE  [Contract!Next]_Contract!contract
  <2> DEFINE row == [document |-> d, version |-> n, orderRequired |-> b, status |-> "SENT"]
  <2>1. /\ r \notin DOMAIN signatureRequests /\ S # {}
        /\ signatureRequests' = Put(signatureRequests, r, row)
        /\ participants' = Put(participants, r, [o \in S |-> "PENDING"])
        /\ UNCHANGED events
    BY <1>2, Zenon DEF CreateRequest
  <2>2. row.orderRequired \in BOOLEAN /\ S \in (SUBSET Orders) \ {{}}
    BY <2>1
  <2> HIDE DEF row
  <2>3. Contract!Ask(r)
    BY <2>1, <2>2, AskStep
  <2> QED
    BY <2>3 DEF Contract!Next
<1>3. ASSUME NEW w \in Workers, NEW r \in SignatureRequests, NEW d \in Documents,
             CreateGrantPackage(w, r, d)
      PROVE  [Contract!Next]_Contract!contract
  <2> DEFINE row == [document |-> d, version |-> 1, orderRequired |-> TRUE, status |-> "SENT"]
             S == {RecipientOrder, CompanyOrder}
  <2>1. /\ r \notin DOMAIN signatureRequests
        /\ signatureRequests' = Put(signatureRequests, r, row)
        /\ participants' = Put(participants, r, [o \in S |-> "PENDING"])
        /\ UNCHANGED events
    BY <1>3, Zenon DEF CreateGrantPackage
  <2>2. row.orderRequired \in BOOLEAN /\ S \in (SUBSET Orders) \ {{}}
    <3>1. S \subseteq Orders /\ RecipientOrder \in S
      BY SignatureAssumption
    <3> QED
      BY <3>1
  <2> HIDE DEF row, S
  <2>3. Contract!Ask(r)
    BY <2>1, <2>2, AskStep
  <2> QED
    BY <2>3 DEF Contract!Next
<1>4. ASSUME NEW w \in Workers, NEW r \in SignatureRequests, NEW o \in Orders, Decline(w, r, o)
      PROVE  [Contract!Next]_Contract!contract
  BY <1>4, EventContract DEF Decline, EventType
<1>5. ASSUME NEW w \in Workers, View(w) PROVE [Contract!Next]_Contract!contract
  <2> DEFINE r == job[w].request
             o == job[w].order
  <2>1. IsParticipant(r, o) /\ r \in DOMAIN signatureRequests
    BY <1>5, WorkerSound DEF View, At, Sound, ParticipantSteps, IsParticipant
  <2>2. signatureRequests' = [signatureRequests EXCEPT ![r].status = signatureRequests[r].status]
    BY <1>5, <2>1, SignatureTyped DEF View
  <2> QED
    BY <1>5, <2>1, <2>2, EventContract DEF View, EventType
<1>6. ASSUME NEW w \in Workers, CommitSignature(w) PROVE [Contract!Next]_Contract!contract
  <2>1. IsParticipant(job[w].request, job[w].order) /\ InOrder(job[w].request, job[w].order)
    BY <1>6, WorkerSound DEF CommitSignature, At, Sound, ParticipantSteps
  <2> QED
    BY <1>6, <2>1, EventContract DEF CommitSignature, EventType
<1>7. ASSUME NEW w \in Workers, CommitCapture(w) PROVE [Contract!Next]_Contract!contract
  BY <1>7, FileStep
<1>8. ASSUME NEW w \in Workers, MailSignedCopies(w) PROVE [Contract!Next]_Contract!contract
  <2>1. UNCHANGED <<signatureRequests, participants>>
    BY <1>8 DEF MailSignedCopies
  <2>2. \A q : Evidence(q)' = Evidence(q) /\ (Captured(q)' <=> Captured(q))
    BY <1>8 DEF MailSignedCopies, Evidence, OrdersWith, Captured, ParticipantEvent, RequestEvent
  <2> QED
    BY <2>1, <2>2, ContractStutters
<1>9. ASSUME NEW w \in Workers, Resume(w) PROVE [Contract!Next]_Contract!contract
  BY <1>1, <1>5, <1>6, <1>7, <1>8, <1>9
  DEF Resume, DocumentContinue, SignatureContinue, ReadLatestUpload, CommitUpload, Archive,
      CountSigned, CheckCaptured, ReadRequest, ReadLatestVersion
<1>10. ASSUME NEW w \in Workers, DocumentStart(w) \/ SignatureStart(w)
       PROVE [Contract!Next]_Contract!contract
  BY <1>1, <1>2, <1>3, <1>4, <1>10
  DEF DocumentStart, SignatureStart, CreateDocument, StartUpload, StartArchive, StartView, StartSign
<1> QED
  BY <1>1, <1>9, <1>10 DEF Next, Quiescent, vars, Die, signatureTables

\* Whatever handlers race or die, the tables behave as SigningContract: evidence
\* in order and never withdrawn, and a copy on file only with all of it.
THEOREM EvidenceImplementsContract == Spec => ImplementsContract
<1>1. Init => Contract!Init
  BY DEF Init, Contract!Init
<1>2. IInv /\ [Next]_vars => [Contract!Next]_Contract!contract
  BY ContractStep
<1> QED
  BY <1>1, <1>2, SignatureInvariant, PTL DEF Spec, ImplementsContract, Contract!Spec

-----------------------------------------------------------------------------
(* One handler at a time, which may die *)

OneAtATime == \A v, w \in Workers : v = w

AllSigned(r) == Signers(r) = DOMAIN participants[r]

\* What the reads of a handler are worth when it writes.
Ready(j) ==
  /\ j.step = "view" => participants[j.request][j.order] = "PENDING"
  /\ j.step = "commitSignature" =>
       j.status = StatusWhenSigned(j.request, Signers(j.request) \cup {j.order})
  /\ j.step \in CaptureSteps \ {"mail"} => AllSigned(j.request)
  /\ j.step \in CaptureSteps \ {"capture", "mail"} => ~Captured(j.request)
  /\ j.step \in {"latestVersion", "commitCapture"} =>
       \A o \in DOMAIN participants[j.request] : j.content.statuses[o] = "SIGNED"

\* A stored record is filed, and shows every participant as having signed.
RecordFits(c) ==
  c.request # None =>
    /\ Captured(c.request)
    /\ \A o \in DOMAIN participants[c.request] : c.statuses[o] = "SIGNED"

RecordsFit ==
  /\ \A d \in DOMAIN versions : \A n \in DOMAIN versions[d] : RecordFits(versions[d][n])
  /\ \A d, e \in DOMAIN versions : \A n \in DOMAIN versions[d], m \in DOMAIN versions[e] :
       /\ versions[d][n].request # None
       /\ versions[d][n].request = versions[e][m].request
       => d = e /\ n = m

TablesFit == CompletionIsDeterministic /\ RecordsFit

SeqInv == TablesFit /\ \A w \in Workers : Ready(job[w])

\* The tables fit as long as nothing changes them.
LEMMA TablesFitKept ==
  ASSUME TablesFit, UNCHANGED <<documentTables, signatureTables>>
  PROVE  TablesFit'
BY DEF TablesFit, CompletionIsDeterministic, RecordsFit, RecordFits, Signers, Captured,
       documentTables, signatureTables

\* The only handler in flight goes on to remember j.
LEMMA OnlyJob ==
  ASSUME OneAtATime, IInv, NEW w \in Workers, NEW j, Ready(j)', TablesFit',
         job' = [job EXCEPT ![w] = j]
  PROVE  SeqInv'
<1>1. ASSUME NEW v \in Workers PROVE job'[v] = j
  BY DEF OneAtATime, IInv, TypeOK
<1> QED
  BY <1>1 DEF SeqInv, Ready, AllSigned, Signers, Captured, StatusWhenSigned

\* A handler that ends, or dies.
LEMMA SeqFinish ==
  ASSUME OneAtATime, IInv, NEW w \in Workers, TablesFit', Finish(w)
  PROVE  SeqInv'
<1>1. Ready(NoJob)'
  BY DEF Ready, NoJob, CaptureSteps
<1> QED
  BY <1>1, OnlyJob DEF Finish, Continue

\* A write that is all its handler does.
LEMMA SeqAtOnce ==
  ASSUME OneAtATime, IInv, NEW w \in Workers, TablesFit', At(w, "idle"), UNCHANGED job
  PROVE  SeqInv'
<1>1. ASSUME NEW v \in Workers PROVE job'[v].step = "idle"
  BY DEF OneAtATime, At
<1> QED
  BY <1>1 DEF SeqInv, Ready, CaptureSteps

\* A read.
LEMMA SeqRead ==
  ASSUME OneAtATime, IInv, SeqInv, NEW w \in Workers, NEW j, Ready(j),
         job' = [job EXCEPT ![w] = j], UNCHANGED <<documentTables, signatureTables>>
  PROVE  SeqInv'
<1>1. Ready(j)'
  BY DEF Ready, AllSigned, Signers, Captured, StatusWhenSigned, documentTables,
         signatureTables
<1> QED
  BY <1>1, TablesFitKept, OnlyJob DEF SeqInv

\* The count of a request says SIGNED exactly when all have signed.
LEMMA CountIsExact ==
  ASSUME IInv, NEW r \in DOMAIN signatureRequests, NEW S \in SUBSET DOMAIN participants[r]
  PROVE  StatusWhenSigned(r, S) = "SIGNED" <=> S = DOMAIN participants[r]
<1>1. IsFiniteSet(DOMAIN participants[r])
  BY SignatureAssumption, FS_Subset DEF IInv, TypeOK
<1>2. Cardinality(DOMAIN participants[r]) \in Nat
  BY <1>1, FS_CardinalityType
<1> QED
  BY <1>2, AllCounted DEF StatusWhenSigned

\* Every read of a handler, and every death, leaves it ready to write.
LEMMA SeqReads ==
  ASSUME OneAtATime, IInv, SeqInv, NEW w \in Workers
  PROVE  /\ \A r \in SignatureRequests, o \in Orders :
              StartView(w, r, o) \/ StartSign(w, r, o) => SeqInv'
         /\ \A d \in Documents : StartUpload(w, d) \/ StartArchive(w, d) => SeqInv'
         /\ ReadLatestUpload(w) \/ CountSigned(w) \/ CheckCaptured(w) => SeqInv'
         /\ ReadRequest(w) \/ ReadLatestVersion(w) \/ Die(w) => SeqInv'
<1>1. ASSUME NEW r \in SignatureRequests, NEW o \in Orders, StartView(w, r, o) PROVE SeqInv'
  <2> DEFINE j == [NoJob EXCEPT !.step = "view", !.request = r, !.order = o]
  <2>1. Ready(j)
    BY <1>1 DEF StartView, Ready, NoJob, CaptureSteps
  <2> HIDE DEF j
  <2> QED
    BY <1>1, <2>1, SeqRead DEF StartView, Begin, j
<1>2. ASSUME NEW r \in SignatureRequests, NEW o \in Orders, StartSign(w, r, o) PROVE SeqInv'
  <2> DEFINE j == [NoJob EXCEPT !.step = "sign", !.request = r, !.order = o]
  <2>1. Ready(j)
    BY DEF Ready, NoJob, CaptureSteps
  <2> HIDE DEF j
  <2> QED
    BY <1>2, <2>1, SeqRead DEF StartSign, Begin, j
<1>3. ASSUME NEW d \in Documents, StartUpload(w, d) PROVE SeqInv'
  <2> DEFINE j == [NoJob EXCEPT !.step = "latestUpload", !.document = d]
  <2>1. Ready(j)
    BY DEF Ready, NoJob, CaptureSteps
  <2> HIDE DEF j
  <2> QED
    BY <1>3, <2>1, SeqRead DEF StartUpload, Begin, j
<1>4. ASSUME NEW d \in Documents, StartArchive(w, d) PROVE SeqInv'
  <2> DEFINE j == [NoJob EXCEPT !.step = "archive", !.document = d]
  <2>1. Ready(j)
    BY <1>4 DEF StartArchive, Ready, NoJob, CaptureSteps
  <2> HIDE DEF j
  <2> QED
    BY <1>4, <2>1, SeqRead DEF StartArchive, Begin, j
<1>5. ASSUME ReadLatestUpload(w) PROVE SeqInv'
  <2> DEFINE j == [job[w] EXCEPT !.step = "commitUpload", !.number = NextVersion(job[w].document)]
  <2>1. j.step = "commitUpload"
    BY WorkerSound DEF Job
  <2>2. job' = [job EXCEPT ![w] = j] /\ UNCHANGED <<documentTables, signatureTables>>
    BY <1>5 DEF ReadLatestUpload, Continue
  <2> HIDE DEF j
  <2>3. Ready(j)
    BY <2>1 DEF Ready, CaptureSteps
  <2> QED
    BY <2>2, <2>3, SeqRead
<1>6. ASSUME CountSigned(w) PROVE SeqInv'
  <2> DEFINE s == StatusWhenSigned(job[w].request, Signers(job[w].request) \cup {job[w].order})
             j == [job[w] EXCEPT !.step = "commitSignature", !.status = s]
  <2>1. /\ j.step = "commitSignature" /\ j.request = job[w].request
        /\ j.order = job[w].order /\ j.status = s
    BY WorkerSound DEF Job
  <2>2. job' = [job EXCEPT ![w] = j] /\ UNCHANGED <<documentTables, signatureTables>>
    BY <1>6 DEF CountSigned, Continue
  <2> HIDE DEF j
  <2>3. Ready(j)
    BY <2>1 DEF Ready, CaptureSteps
  <2> QED
    BY <2>2, <2>3, SeqRead
<1>7. ASSUME CheckCaptured(w) PROVE SeqInv'
  <2> DEFINE j == [job[w] EXCEPT !.step = "readRequest"]
  <2>1. CASE Finish(w)
    BY <1>7, <2>1, TablesFitKept, SeqFinish DEF CheckCaptured, SeqInv
  <2>2. CASE ~Captured(job[w].request) /\ Continue(w, j)
    <3>1. j.step = "readRequest" /\ j.request = job[w].request
      BY WorkerSound DEF Job
    <3>2. AllSigned(job[w].request)
      BY <1>7 DEF CheckCaptured, At, SeqInv, Ready, CaptureSteps
    <3> HIDE DEF j
    <3>3. Ready(j)
      BY <2>2, <3>1, <3>2 DEF Ready, CaptureSteps
    <3> QED
      BY <1>7, <2>2, <3>3, SeqRead DEF CheckCaptured, Continue
  <2> QED
    BY <1>7, <2>1, <2>2 DEF CheckCaptured, AlreadyCaptured
<1>8. ASSUME ReadRequest(w) PROVE SeqInv'
  <2> DEFINE r == job[w].request
             c == SignedRecord(r)
             j == [job[w] EXCEPT !.step = "latestVersion",
                                 !.document = signatureRequests[r].document, !.content = c]
  <2>1. j.step = "latestVersion" /\ j.request = r /\ j.content = c
    BY WorkerSound DEF Job
  <2>2. job' = [job EXCEPT ![w] = j] /\ UNCHANGED <<documentTables, signatureTables>>
    BY <1>8 DEF ReadRequest, Continue
  <2>3. AllSigned(r) /\ ~Captured(r)
    BY <1>8 DEF ReadRequest, At, SeqInv, Ready, CaptureSteps
  <2>4. \A o \in DOMAIN participants[r] : c.statuses[o] = "SIGNED"
    BY <2>3 DEF AllSigned, Signers, SignedRecord
  <2> HIDE DEF j, c
  <2>5. Ready(j)
    BY <2>1, <2>3, <2>4 DEF Ready, CaptureSteps
  <2> QED
    BY <2>2, <2>5, SeqRead
<1>9. ASSUME ReadLatestVersion(w) PROVE SeqInv'
  <2> DEFINE r == job[w].request
             j == [job[w] EXCEPT !.step = "commitCapture", !.number = NextVersion(job[w].document)]
  <2>1. j.step = "commitCapture" /\ j.request = r /\ j.content = job[w].content
    BY WorkerSound DEF Job
  <2>2. job' = [job EXCEPT ![w] = j] /\ UNCHANGED <<documentTables, signatureTables>>
    BY <1>9 DEF ReadLatestVersion, Continue
  <2>3. /\ AllSigned(r) /\ ~Captured(r)
        /\ \A o \in DOMAIN participants[r] : job[w].content.statuses[o] = "SIGNED"
    BY <1>9 DEF ReadLatestVersion, At, SeqInv, Ready, CaptureSteps
  <2> HIDE DEF j
  <2>4. Ready(j)
    BY <2>1, <2>3 DEF Ready, CaptureSteps
  <2> QED
    BY <2>2, <2>4, SeqRead
<1>10. ASSUME Die(w) PROVE SeqInv'
  BY <1>10, TablesFitKept, SeqFinish DEF Die, SeqInv
<1> QED
  BY <1>1, <1>2, <1>3, <1>4, <1>5, <1>6, <1>7, <1>8, <1>9, <1>10


\* What a document or an upload adds is no record of a request.
LEMMA UploadsFit ==
  ASSUME TablesFit, UNCHANGED signatureTables,
         \A e \in DOMAIN versions' : \A n \in DOMAIN versions'[e] :
           \/ versions'[e][n].request = None
           \/ /\ e \in DOMAIN versions /\ n \in DOMAIN versions[e]
              /\ versions'[e][n] = versions[e][n]
  PROVE  TablesFit'
<1>1. CompletionIsDeterministic'
  BY DEF TablesFit, CompletionIsDeterministic, Signers, signatureTables
<1>2. ASSUME NEW e \in DOMAIN versions', NEW n \in DOMAIN versions'[e]
      PROVE  RecordFits(versions[e][n])'
  BY DEF TablesFit, RecordsFit, RecordFits, Captured, signatureTables
<1> QED
  BY <1>1, <1>2 DEF TablesFit, RecordsFit

\* The writes of the documents service.
LEMMA DocumentWrites ==
  ASSUME OneAtATime, IInv, SeqInv, NEW w \in Workers
  PROVE  /\ \A d \in Documents : CreateDocument(w, d) => SeqInv'
         /\ CommitUpload(w) \/ Archive(w) => SeqInv'
<1>1. TablesFit /\ DOMAIN versions = DOMAIN documents
  BY DEF SeqInv, IInv, TypeOK
<1>2. ASSUME NEW d \in Documents, CreateDocument(w, d) PROVE SeqInv'
  <2>1. /\ DOMAIN versions' = DOMAIN versions \cup {d} /\ versions'[d] = <<>>
        /\ \A e \in DOMAIN versions : versions'[e] = versions[e]
    BY <1>1, <1>2 DEF CreateDocument, Put
  <2>2. TablesFit'
    BY <1>1, <1>2, <2>1, UploadsFit DEF CreateDocument
  <2> QED
    BY <1>2, <2>2, SeqAtOnce DEF CreateDocument
<1>3. ASSUME CommitUpload(w) PROVE SeqInv'
  <2> DEFINE d == job[w].document
             k == job[w].number
  <2>1. CASE UNCHANGED documentTables
    BY <1>1, <1>3, <2>1, TablesFitKept, SeqFinish DEF CommitUpload
  <2>2. CASE WriteVersion(d, k, Upload)
    <3>1. /\ DOMAIN versions' = DOMAIN versions
          /\ \A e \in DOMAIN versions : e # d => versions'[e] = versions[e]
          /\ d \in DOMAIN versions =>
               /\ DOMAIN versions'[d] = DOMAIN versions[d] \cup {k}
               /\ versions'[d][k].request = None
               /\ \A n \in DOMAIN versions[d] : n # k => versions'[d][n] = versions[d][n]
      BY <2>2 DEF WriteVersion, Put, Upload
    <3>2. TablesFit'
      BY <1>1, <1>3, <3>1, UploadsFit DEF CommitUpload
    <3> QED
      BY <1>3, <3>2, SeqFinish DEF CommitUpload
  <2> QED
    BY <1>3, <2>1, <2>2 DEF CommitUpload
<1>4. ASSUME Archive(w) PROVE SeqInv'
  <2>1. TablesFit'
    BY <1>1, <1>4, UploadsFit DEF Archive
  <2> QED
    BY <1>4, <2>1, SeqFinish DEF Archive
<1> QED
  BY <1>2, <1>3, <1>4

\* A request starts with participants none of whom has signed, and no record.
LEMMA RequestFits ==
  ASSUME IInv, TablesFit, NEW r \in SignatureRequests, r \notin DOMAIN signatureRequests,
         NEW S \in (SUBSET Orders) \ {{}}, NEW row, row.status = "SENT",
         signatureRequests' = Put(signatureRequests, r, row),
         participants' = Put(participants, r, [o \in S |-> "PENDING"]),
         UNCHANGED events,
         \A e \in DOMAIN versions' : \A n \in DOMAIN versions'[e] :
           \/ versions'[e][n].request = None
           \/ /\ e \in DOMAIN versions /\ n \in DOMAIN versions[e]
              /\ versions'[e][n] = versions[e][n]
  PROVE  TablesFit'
<1>1. /\ DOMAIN signatureRequests' = DOMAIN signatureRequests \cup {r}
      /\ signatureRequests'[r].status = "SENT" /\ participants'[r] = [o \in S |-> "PENDING"]
      /\ \A q \in DOMAIN signatureRequests :
           signatureRequests'[q] = signatureRequests[q] /\ participants'[q] = participants[q]
  BY DEF IInv, TypeOK, Put
<1>2. CompletionIsDeterministic'
  BY <1>1 DEF TablesFit, CompletionIsDeterministic, Signers
<1>3. ASSUME NEW e \in DOMAIN versions, NEW n \in DOMAIN versions[e]
      PROVE  versions[e][n].request # None =>
               versions[e][n].request \in DOMAIN signatureRequests
  BY DEF IInv, TypeOK, DocumentsSound, DocumentSound, RecordSound
<1>4. ASSUME NEW e \in DOMAIN versions', NEW n \in DOMAIN versions'[e]
      PROVE  RecordFits(versions[e][n])'
  BY <1>1, <1>3 DEF TablesFit, RecordsFit, RecordFits, Captured
<1> QED
  BY <1>2, <1>4 DEF TablesFit, RecordsFit

\* The two ways to ask for signatures.
LEMMA RequestWrites ==
  ASSUME OneAtATime, IInv, SeqInv, NEW w \in Workers, NEW r \in SignatureRequests
  PROVE  /\ \A d, n, b : \A S \in SUBSET Orders : CreateRequest(w, r, d, n, S, b) => SeqInv'
         /\ \A d \in Documents : CreateGrantPackage(w, r, d) => SeqInv'
<1>1. TablesFit /\ DOMAIN versions = DOMAIN documents
  BY DEF SeqInv, IInv, TypeOK
<1>2. ASSUME NEW d, NEW n, NEW b, NEW S \in SUBSET Orders, CreateRequest(w, r, d, n, S, b)
      PROVE  SeqInv'
  <2> DEFINE row == [document |-> d, version |-> n, orderRequired |-> b, status |-> "SENT"]
  <2>1. row.status = "SENT" /\ S \in (SUBSET Orders) \ {{}}
    BY <1>2 DEF CreateRequest
  <2>2. /\ r \notin DOMAIN signatureRequests
        /\ signatureRequests' = Put(signatureRequests, r, row)
        /\ participants' = Put(participants, r, [o \in S |-> "PENDING"])
        /\ UNCHANGED <<events, versions, job>> /\ At(w, "idle")
    BY <1>2 DEF CreateRequest, documentTables
  <2> HIDE DEF row
  <2>3. TablesFit'
    BY <1>1, <2>1, <2>2, RequestFits
  <2> QED
    BY <2>2, <2>3, SeqAtOnce
<1>3. ASSUME NEW d \in Documents, CreateGrantPackage(w, r, d) PROVE SeqInv'
  <2> DEFINE row == [document |-> d, version |-> 1, orderRequired |-> TRUE, status |-> "SENT"]
             S == {RecipientOrder, CompanyOrder}
  <2>1. row.status = "SENT" /\ S \in (SUBSET Orders) \ {{}}
    BY SignatureAssumption
  <2>2. /\ r \notin DOMAIN signatureRequests /\ d \notin DOMAIN documents
        /\ signatureRequests' = Put(signatureRequests, r, row)
        /\ participants' = Put(participants, r, [o \in S |-> "PENDING"])
        /\ versions' = Put(versions, d, [n \in {1} |-> Upload])
        /\ UNCHANGED <<events, job>> /\ At(w, "idle")
    BY <1>3 DEF CreateGrantPackage
  <2> HIDE DEF row, S
  <2>3. /\ DOMAIN versions' = DOMAIN versions \cup {d}
        /\ \A n \in DOMAIN versions'[d] : versions'[d][n].request = None
        /\ \A e \in DOMAIN versions : versions'[e] = versions[e]
    BY <1>1, <2>2 DEF Put, Upload
  <2>4. \A e \in DOMAIN versions' : \A n \in DOMAIN versions'[e] :
          \/ versions'[e][n].request = None
          \/ /\ e \in DOMAIN versions /\ n \in DOMAIN versions[e]
             /\ versions'[e][n] = versions[e][n]
    BY <2>3
  <2>5. TablesFit'
    BY <1>1, <2>1, <2>2, <2>4, RequestFits
  <2> QED
    BY <2>2, <2>5, SeqAtOnce
<1> QED
  BY <1>2, <1>3

\* A participant changes, and the request to the status that goes with it.
LEMMA ParticipantFits ==
  ASSUME IInv, TablesFit, NEW r, NEW o, IsParticipant(r, o), NEW st, NEW rs,
         NEW type \in {"PARTICIPANT_VIEWED", "PARTICIPANT_SIGNED", "PARTICIPANT_DECLINED"},
         participants' = [participants EXCEPT ![r][o] = st],
         signatureRequests' = [signatureRequests EXCEPT ![r].status = rs],
         events' = events \cup {ParticipantEvent(r, o, type)},
         UNCHANGED versions,
         rs = "SIGNED" <=> Signers(r)' = DOMAIN participants[r]
  PROVE  TablesFit'
<1>1. /\ r \in DOMAIN signatureRequests /\ o \in DOMAIN participants[r]
      /\ DOMAIN participants = DOMAIN signatureRequests
      /\ signatureRequests \in [DOMAIN signatureRequests -> RequestRow]
  BY DEF IInv, TypeOK, IsParticipant
<1>2. /\ DOMAIN participants' = DOMAIN participants
      /\ \A q \in DOMAIN participants : DOMAIN participants'[q] = DOMAIN participants[q]
      /\ \A q \in DOMAIN participants : q # r => participants'[q] = participants[q]
      /\ DOMAIN signatureRequests' = DOMAIN signatureRequests
      /\ signatureRequests'[r].status = rs
      /\ \A q \in DOMAIN signatureRequests : q # r => signatureRequests'[q] = signatureRequests[q]
  BY <1>1 DEF RequestRow
<1>3. CompletionIsDeterministic'
  <2>1. ASSUME NEW q \in DOMAIN signatureRequests, q # r
        PROVE  signatureRequests'[q].status = "SIGNED" <=> Signers(q)' = DOMAIN participants'[q]
    BY <1>1, <1>2, <2>1 DEF TablesFit, CompletionIsDeterministic, Signers
  <2> QED
    BY <1>1, <1>2, <2>1 DEF CompletionIsDeterministic
<1>4. \A q : Captured(q)' = Captured(q)
  BY DEF Captured, ParticipantEvent, RequestEvent
<1>5. ASSUME NEW e \in DOMAIN versions, NEW n \in DOMAIN versions[e]
      PROVE  RecordFits(versions[e][n])'
  <2> DEFINE q == versions[e][n].request
  <2>1. q # None => q \in DOMAIN participants
    BY <1>1 DEF IInv, TypeOK, DocumentsSound, DocumentSound, RecordSound
  <2>2. RecordFits(versions[e][n])
    BY DEF TablesFit, RecordsFit
  <2> QED
    BY <1>2, <1>4, <2>1, <2>2 DEF RecordFits
<1> QED
  BY <1>3, <1>5 DEF TablesFit, RecordsFit

\* Opening a packet that is pending, and declining.
LEMMA ViewWrites ==
  ASSUME OneAtATime, IInv, SeqInv, NEW w \in Workers
  PROVE  /\ View(w) => SeqInv'
         /\ \A r \in SignatureRequests, o \in Orders : Decline(w, r, o) => SeqInv'
<1>1. TablesFit
  BY DEF SeqInv
<1>2. ASSUME View(w) PROVE SeqInv'
  <2>0. PICK r, o : r = job[w].request /\ o = job[w].order
    OBVIOUS
  <2>1. IsParticipant(r, o) /\ participants[r][o] = "PENDING"
    BY <1>2, <2>0, WorkerSound DEF View, At, Sound, ParticipantSteps, SeqInv, Ready
  <2>2. /\ r \in DOMAIN signatureRequests /\ o \in DOMAIN participants[r]
        /\ r \in DOMAIN participants
    BY <2>1 DEF IsParticipant, IInv, TypeOK
  <2>3. /\ participants' = [participants EXCEPT ![r][o] = "VIEWED"]
        /\ events' = events \cup {ParticipantEvent(r, o, "PARTICIPANT_VIEWED")}
        /\ signatureRequests' = [signatureRequests EXCEPT ![r].status = signatureRequests[r].status]
        /\ UNCHANGED versions /\ Finish(w)
    BY <1>2, <2>0, <2>2, SignatureTyped DEF View, documentTables
  <2>4. Signers(r)' = Signers(r)
    BY <2>1, <2>2, <2>3 DEF Signers
  <2>5. signatureRequests[r].status = "SIGNED" <=> Signers(r)' = DOMAIN participants[r]
    BY <1>1, <2>2, <2>4 DEF TablesFit, CompletionIsDeterministic
  <2>6. TablesFit'
    BY <1>1, <2>1, <2>3, <2>5, ParticipantFits
  <2> QED
    BY <2>3, <2>6, SeqFinish
<1>3. ASSUME NEW r \in SignatureRequests, NEW o \in Orders, Decline(w, r, o) PROVE SeqInv'
  <2>1. /\ IsParticipant(r, o) /\ r \in DOMAIN participants /\ o \in DOMAIN participants[r]
        /\ participants' = [participants EXCEPT ![r][o] = "DECLINED"]
        /\ signatureRequests' = [signatureRequests EXCEPT ![r].status = "DECLINED"]
        /\ events' = events \cup {ParticipantEvent(r, o, "PARTICIPANT_DECLINED")}
        /\ UNCHANGED <<versions, job>> /\ At(w, "idle")
    BY <1>3 DEF Decline, IsParticipant, IInv, TypeOK, documentTables
  <2>2. o \notin Signers(r)'
    BY <2>1 DEF Signers
  <2>3. TablesFit'
    BY <1>1, <2>1, <2>2, ParticipantFits
  <2> QED
    BY <2>1, <2>3, SeqAtOnce
<1> QED
  BY <1>2, <1>3

\* A signature: the count behind the status includes it and no other.
LEMMA SignWrites ==
  ASSUME OneAtATime, IInv, SeqInv, NEW w \in Workers, CommitSignature(w)
  PROVE  SeqInv'
<1>0. PICK r, o, rs : r = job[w].request /\ o = job[w].order /\ rs = job[w].status
  OBVIOUS
<1> DEFINE j == [NoJob EXCEPT !.step = "capture", !.request = r]
<1>1. TablesFit /\ IsParticipant(r, o) /\ rs = StatusWhenSigned(r, Signers(r) \cup {o})
  BY <1>0, WorkerSound DEF CommitSignature, At, Sound, ParticipantSteps, SeqInv, Ready
<1>2. /\ r \in DOMAIN signatureRequests /\ r \in DOMAIN participants
      /\ o \in DOMAIN participants[r]
  BY <1>1 DEF IsParticipant, IInv, TypeOK
<1>3. /\ participants' = [participants EXCEPT ![r][o] = "SIGNED"]
      /\ signatureRequests' = [signatureRequests EXCEPT ![r].status = rs]
      /\ events' = events \cup {ParticipantEvent(r, o, "PARTICIPANT_SIGNED")}
      /\ UNCHANGED versions
      /\ \/ rs = "SIGNED" /\ job' = [job EXCEPT ![w] = j]
         \/ Finish(w)
  BY <1>0 DEF CommitSignature, Continue, documentTables
<1>4. j.step = "capture" /\ j.request = r
  BY DEF NoJob
<1> HIDE DEF j
<1>5. Signers(r)' = Signers(r) \cup {o} /\ DOMAIN participants'[r] = DOMAIN participants[r]
  BY <1>2, <1>3 DEF Signers
<1>6. Signers(r) \cup {o} \in SUBSET DOMAIN participants[r]
  BY <1>2 DEF Signers
<1>7. rs = "SIGNED" <=> Signers(r)' = DOMAIN participants[r]
  BY <1>1, <1>2, <1>5, <1>6, CountIsExact
<1>8. TablesFit'
  BY <1>1, <1>3, <1>7, ParticipantFits
<1>9. CASE rs = "SIGNED" /\ job' = [job EXCEPT ![w] = j]
  <2>1. Ready(j)'
    BY <1>4, <1>5, <1>7, <1>9 DEF Ready, AllSigned, CaptureSteps
  <2> QED
    BY <1>8, <1>9, <2>1, OnlyJob
<1> QED
  BY <1>3, <1>8, <1>9, SeqFinish

\* The record of a request is stored: the first one, with all signatures.
LEMMA CaptureWrites ==
  ASSUME OneAtATime, IInv, SeqInv, NEW w \in Workers, CommitCapture(w)
  PROVE  SeqInv'
<1>0. PICK d, k, c, r : /\ d = job[w].document /\ k = job[w].number
                        /\ c = job[w].content /\ r = job[w].request
  OBVIOUS
<1> DEFINE j == [NoJob EXCEPT !.step = "mail", !.request = r]
<1>1. /\ TablesFit /\ d \in DOMAIN documents /\ c.request = r /\ r \in DOMAIN signatureRequests
      /\ ~Captured(r) /\ \A o \in DOMAIN participants[r] : c.statuses[o] = "SIGNED"
  BY <1>0, WorkerSound DEF CommitCapture, At, Sound, DocumentSteps, CaptureSteps, SeqInv, Ready
<1>2. CASE ~VersionFree(d, k)
  BY <1>0, <1>1, <1>2, TablesFitKept, SeqFinish DEF CommitCapture, signatureTables
<1>3. CASE VersionFree(d, k)
  <2>1. /\ WriteVersion(d, k, c) /\ UNCHANGED <<signatureRequests, participants>>
        /\ events' = events \cup {RequestEvent(r, "SIGNED_ARTIFACT_CAPTURED")}
        /\ job' = [job EXCEPT ![w] = j]
    BY <1>0, <1>3 DEF CommitCapture, Continue
  <2>2. j.step = "mail"
    BY DEF NoJob
  <2> HIDE DEF j
  <2>3. /\ DOMAIN versions' = DOMAIN versions /\ d \in DOMAIN versions
        /\ \A e \in DOMAIN versions : e # d => versions'[e] = versions[e]
        /\ DOMAIN versions'[d] = DOMAIN versions[d] \cup {k}
        /\ versions'[d][k] = c
        /\ \A n \in DOMAIN versions[d] : n # k /\ versions'[d][n] = versions[d][n]
    BY <1>1, <1>3, <2>1 DEF WriteVersion, Put, VersionFree, IInv, TypeOK
  <2>4. CompletionIsDeterministic'
    BY <1>1, <2>1 DEF TablesFit, CompletionIsDeterministic, Signers
  <2>5. Captured(r)' /\ \A q : Captured(q) => Captured(q)'
    BY <2>1 DEF Captured
  <2>6. RecordFits(c)' /\ \A x : RecordFits(x) => RecordFits(x)'
    BY <1>1, <2>1, <2>5 DEF RecordFits
  <2>7. ASSUME NEW e \in DOMAIN versions, NEW n \in DOMAIN versions[e]
        PROVE  RecordFits(versions[e][n]) /\ versions[e][n].request # r
    <3>1. RecordFits(versions[e][n])
      BY <1>1 DEF TablesFit, RecordsFit
    <3>2. r # None
      BY <1>1, SignatureAssumption DEF IInv, TypeOK
    <3> QED
      BY <1>1, <3>1, <3>2 DEF RecordFits
  <2>8. ASSUME NEW e \in DOMAIN versions', NEW n \in DOMAIN versions'[e]
        PROVE  \/ e = d /\ n = k /\ versions'[e][n] = c
               \/ /\ e \in DOMAIN versions /\ n \in DOMAIN versions[e]
                  /\ versions'[e][n] = versions[e][n]
    BY <2>3
  <2>9. RecordsFit'
    <3>1. \A e \in DOMAIN versions' : \A n \in DOMAIN versions'[e] : RecordFits(versions[e][n])'
      BY <2>6, <2>7, <2>8
    <3>2. ASSUME NEW e \in DOMAIN versions', NEW f \in DOMAIN versions',
                 NEW n \in DOMAIN versions'[e], NEW m \in DOMAIN versions'[f],
                 versions'[e][n].request # None,
                 versions'[e][n].request = versions'[f][m].request
          PROVE  e = f /\ n = m
      BY <1>1, <2>7, <2>8, <3>2 DEF TablesFit, RecordsFit
    <3> QED
      BY <3>1, <3>2 DEF RecordsFit
  <2>10. Ready(j)'
    BY <2>2 DEF Ready, CaptureSteps
  <2> QED
    BY <2>1, <2>4, <2>9, <2>10, OnlyJob DEF TablesFit
<1> QED
  BY <1>2, <1>3

\* The mails add an event and no record.
LEMMA MailWrites ==
  ASSUME OneAtATime, IInv, SeqInv, NEW w \in Workers, MailSignedCopies(w)
  PROVE  SeqInv'
<1>1. \A q : Captured(q) => Captured(q)'
  BY DEF MailSignedCopies, Captured
<1>2. TablesFit'
  BY <1>1 DEF SeqInv, TablesFit, CompletionIsDeterministic, RecordsFit, RecordFits, Signers,
              MailSignedCopies, documentTables
<1> QED
  BY <1>2, SeqFinish DEF MailSignedCopies

\* Empty tables fit.
LEMMA SeqInit == Init => SeqInv
BY DEF Init, SeqInv, TablesFit, CompletionIsDeterministic, RecordsFit, Ready, NoJob, CaptureSteps

\* Every step of a server that runs one handler at a time keeps SeqInv.
LEMMA SeqNext ==
  ASSUME OneAtATime
  PROVE  IInv /\ SeqInv /\ [Next]_vars => SeqInv'
<1> SUFFICES ASSUME IInv, SeqInv, [Next]_vars PROVE SeqInv'
  OBVIOUS
<1>1. ASSUME NEW w \in Workers, DocumentStart(w) \/ SignatureStart(w) PROVE SeqInv'
  BY <1>1, SeqReads, DocumentWrites, RequestWrites, ViewWrites DEF DocumentStart, SignatureStart
<1>2. ASSUME NEW w \in Workers, Resume(w) PROVE SeqInv'
  BY <1>2, SeqReads, DocumentWrites, ViewWrites, SignWrites, CaptureWrites, MailWrites
     DEF Resume, DocumentContinue, SignatureContinue
<1>3. CASE UNCHANGED vars
  <2>1. UNCHANGED job /\ TablesFit'
    BY <1>3, TablesFitKept DEF vars, SeqInv, documentTables, signatureTables
  <2>2. \A k : Ready(k)' <=> Ready(k)
    BY <1>3 DEF vars, Ready, AllSigned, Signers, Captured, StatusWhenSigned
  <2> QED
    BY <2>1, <2>2 DEF SeqInv
<1> QED
  BY <1>1, <1>2, <1>3, SeqReads DEF Next, Quiescent

\* One handler at a time, what a handler has read still holds when it writes, so
\* statuses, participants and stored records agree in every reachable state.
THEOREM SequentialSignatures ==
  ASSUME OneAtATime
  PROVE  Spec => [](IInv /\ SeqInv)
<1>1. Init => IInv /\ SeqInv
  BY InitInv, SeqInit
<1>2. IInv /\ SeqInv /\ [Next]_vars => (IInv /\ SeqInv)'
  BY NextInv, SeqNext
<1> QED
  BY <1>1, <1>2, PTL DEF Spec

\* A request is SIGNED exactly when all its participants are, after any views,
\* declines and changes of mind, for any number of participants.
THEOREM SequentialCompletion ==
  ASSUME OneAtATime
  PROVE  Spec => []CompletionIsDeterministic
<1>1. SeqInv => CompletionIsDeterministic
  BY DEF SeqInv, TablesFit
<1> QED
  BY <1>1, SequentialSignatures, PTL

\* captureSignedArtifact stores one copy of a request, which shows everyone as
\* having signed, however often participants decline and sign again.
THEOREM SequentialCapture ==
  ASSUME OneAtATime
  PROVE  Spec => []CapturedOnce
<1>1. IInv /\ SeqInv => CapturedOnce
  <2> SUFFICES ASSUME IInv, SeqInv, NEW r \in DOMAIN signatureRequests,
                      NEW v \in RecordsOf(r), NEW x \in RecordsOf(r)
               PROVE  /\ v = x
                      /\ \A o \in DOMAIN participants[r] :
                           versions[v[1]][v[2]].statuses[o] = "SIGNED"
    BY DEF CapturedOnce
  <2>1. \A y \in RecordsOf(r) :
          /\ y = <<y[1], y[2]>> /\ y[1] \in DOMAIN versions /\ y[2] \in DOMAIN versions[y[1]]
          /\ versions[y[1]][y[2]].request = r
    BY DEF RecordsOf
  <2>2. r # None
    BY SignatureAssumption DEF IInv, TypeOK
  <2>3. v = x
    BY <2>1, <2>2 DEF SeqInv, TablesFit, RecordsFit
  <2>4. RecordFits(versions[v[1]][v[2]])
    BY <2>1 DEF SeqInv, TablesFit, RecordsFit
  <2> QED
    BY <2>1, <2>2, <2>3, <2>4 DEF RecordFits
<1> QED
  BY <1>1, SequentialSignatures, PTL
==============================================================================
