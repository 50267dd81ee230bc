---------------------------- MODULE SignatureFlow ----------------------------
(***************************************************************************)
(* The handlers of modules/signatures/signatures.service.ts, with          *)
(* createGrantESignPackage of the equity service, which writes the same    *)
(* tables. The handlers of signed-in users and those behind a signer link  *)
(* differ in who may call them, not in what they read and write, so one    *)
(* action stands for both.                                                 *)
(***************************************************************************)
EXTENDS SignatureStore

-----------------------------------------------------------------------------
(* Requests *)

\* The version must be one of the document's; neither is looked at again, so
\* an archived document is accepted. Versions are never deleted: one step.
CreateRequest(w, r, d, n, S, orderRequired) ==
  /\ At(w, "idle")
  /\ r \notin DOMAIN signatureRequests
  /\ d \in DOMAIN documents /\ n \in DOMAIN versions[d]
  /\ S # {}
  /\ signatureRequests' =
       Put(signatureRequests, r, [document |-> d, version |-> n,
                                  orderRequired |-> orderRequired, status |-> "SENT"])
  /\ participants' = Put(participants, r, [o \in S |-> "PENDING"])
  /\ UNCHANGED <<documentTables, events, job>>

\* One transaction: the document with the grant letter as its first version,
\* and the request on it.
CreateGrantPackage(w, r, d) ==
  /\ At(w, "idle")
  /\ r \notin DOMAIN signatureRequests
  /\ d \notin DOMAIN documents
  /\ documents' = Put(documents, d, [version |-> 1, status |-> "ACTIVE", archived |-> FALSE])
  /\ versions' = Put(versions, d, [n \in {1} |-> Upload])
  /\ signatureRequests' =
       Put(signatureRequests, r, [document |-> d, version |-> 1,
                                  orderRequired |-> TRUE, status |-> "SENT"])
  /\ participants' =
       Put(participants, r, [o \in {RecipientOrder, CompanyOrder} |-> "PENDING"])
  /\ UNCHANGED <<events, job>>

-----------------------------------------------------------------------------
(* Participants. The update of a participant by a transaction in flight    *)
(* holds its row: other updates of it wait for the commit.                 *)

Locked(r, o) ==
  \E v \in Workers : At(v, "commitSignature") /\ job[v].request = r /\ job[v].order = o

IsParticipant(r, o) == r \in DOMAIN signatureRequests /\ o \in DOMAIN participants[r]

\* A packet that is not PENDING is only returned.
StartView(w, r, o) ==
  /\ IsParticipant(r, o)
  /\ participants[r][o] = "PENDING"
  /\ Begin(w, [NoJob EXCEPT !.step = "view", !.request = r, !.order = o])
  /\ UNCHANGED <<documentTables, signatureTables>>

View(w) ==
  LET j == job[w] IN
  /\ At(w, "view")
  /\ ~Locked(j.request, j.order)
  /\ participants' = [participants EXCEPT ![j.request][j.order] = "VIEWED"]
  /\ events' = events \cup {ParticipantEvent(j.request, j.order, "PARTICIPANT_VIEWED")}
  /\ Finish(w)
  /\ UNCHANGED <<documentTables, signatureRequests>>

\* Whatever the status of the participant and of the request.
Decline(w, r, o) ==
  /\ At(w, "idle")
  /\ IsParticipant(r, o)
  /\ ~Locked(r, o)
  /\ participants' = [participants EXCEPT ![r][o] = "DECLINED"]
  /\ signatureRequests' = [signatureRequests EXCEPT ![r].status = "DECLINED"]
  /\ events' = events \cup {ParticipantEvent(r, o, "PARTICIPANT_DECLINED")}
  /\ UNCHANGED <<documentTables, job>>

-----------------------------------------------------------------------------
(* completeMySignature and completePublicSignature: the participants are   *)
(* read and checked; a transaction updates this one, counts the signed     *)
(* ones and updates the request.                                           *)

\* Mutant: a participant who declined does not block those after it.
EarlierDecided(r, o) ==
  \A p \in DOMAIN participants[r] : p < o => participants[r][p] \in {"SIGNED", "DECLINED"}

\* No participant that comes before o is unsigned.
EarlierSigned(r, o) == {p \in DOMAIN participants[r] : p < o} \subseteq Signers(r)

StartSign(w, r, o) ==
  /\ IsParticipant(r, o)
  /\ participants[r][o] # "SIGNED"
  /\ signatureRequests[r].orderRequired => EarlierSigned(r, o)
  /\ Begin(w, [NoJob EXCEPT !.step = "sign", !.request = r, !.order = o])
  /\ UNCHANGED <<documentTables, signatureTables>>

\* Mutant: declined participants are left out of the total.
StatusWithoutDeclined(r, S) ==
  IF Cardinality(S) >= Cardinality({o \in DOMAIN participants[r] : participants[r][o] # "DECLINED"})
  THEN "SIGNED" ELSE "PARTIALLY_SIGNED"

\* The status of r when those in S have signed.
StatusWhenSigned(r, S) ==
  IF Cardinality(S) >= Cardinality(DOMAIN participants[r])
  THEN "SIGNED" ELSE "PARTIALLY_SIGNED"

\* The count sees this transaction's own update and what others committed.
CountSigned(w) ==
  LET j == job[w] IN
  /\ At(w, "sign")
  /\ ~Locked(j.request, j.order)
  /\ Continue(w, [j EXCEPT !.step = "commitSignature",
                           !.status = StatusWhenSigned(j.request, Signers(j.request) \cup {j.order})])
  /\ UNCHANGED <<documentTables, signatureTables>>

CommitSignature(w) ==
  LET j == job[w] IN
  /\ At(w, "commitSignature")
  /\ participants' = [participants EXCEPT ![j.request][j.order] = "SIGNED"]
  /\ signatureRequests' = [signatureRequests EXCEPT ![j.request].status = j.status]
  /\ events' = events \cup {ParticipantEvent(j.request, j.order, "PARTICIPANT_SIGNED")}
  /\ \/ j.status = "SIGNED" /\ Continue(w, [NoJob EXCEPT !.step = "capture", !.request = j.request])
     \/ j.status # "SIGNED" /\ Finish(w)
  /\ UNCHANGED documentTables

-----------------------------------------------------------------------------
(* captureSignedArtifact, run by the handler whose signature was the last: *)
(* earlier capture, request with its participants and evidence, uploads to *)
(* the storage, then a transaction, then the mails and their event.        *)

\* Mutant: the earlier capture is not looked for.
NeverCaptured(r) == FALSE

AlreadyCaptured(r) == Captured(r)

CheckCaptured(w) ==
  LET j == job[w] IN
  /\ At(w, "capture")
  /\ \/ AlreadyCaptured(j.request) /\ Finish(w)
     \/ ~AlreadyCaptured(j.request) /\ Continue(w, [j EXCEPT !.step = "readRequest"])
  /\ UNCHANGED <<documentTables, signatureTables>>

\* The record: statuses as they are now, with the signatures that have evidence.
SignedRecord(r) ==
  [request |-> r, statuses |-> participants[r],
   evidence |-> DOMAIN participants[r] \cap OrdersWith(r, "PARTICIPANT_SIGNED")]

ReadRequest(w) ==
  LET j == job[w] IN
  /\ At(w, "readRequest")
  /\ Continue(w, [j EXCEPT !.step = "latestVersion",
                           !.document = signatureRequests[j.request].document,
                           !.content = SignedRecord(j.request)])
  /\ UNCHANGED <<documentTables, signatureTables>>

ReadLatestVersion(w) ==
  LET j == job[w] IN
  /\ At(w, "latestVersion")
  /\ Continue(w, [j EXCEPT !.step = "commitCapture", !.number = NextVersion(j.document)])
  /\ UNCHANGED <<documentTables, signatureTables>>

CommitCapture(w) ==
  LET j == job[w] IN
  /\ At(w, "commitCapture")
  /\ \/ /\ VersionFree(j.document, j.number)
        /\ WriteVersion(j.document, j.number, j.content)
        /\ events' = events \cup {RequestEvent(j.request, "SIGNED_ARTIFACT_CAPTURED")}
        /\ Continue(w, [NoJob EXCEPT !.step = "mail", !.request = j.request])
     \/ /\ ~VersionFree(j.document, j.number)
        /\ Finish(w)
        /\ UNCHANGED <<documentTables, events>>
  /\ UNCHANGED <<signatureRequests, participants>>

\* sendSignedCopyEmails catches what the mail service throws.
MailSignedCopies(w) ==
  /\ At(w, "mail")
  /\ events' = events \cup {RequestEvent(job[w].request, "SIGNED_COPY_EMAILS_SENT")}
  /\ Finish(w)
  /\ UNCHANGED <<documentTables, signatureRequests, participants>>

-----------------------------------------------------------------------------

SignatureStart(w) ==
  \/ \E r \in SignatureRequests, d \in DOMAIN documents, S \in SUBSET Orders, b \in BOOLEAN :
       \E n \in DOMAIN versions[d] : CreateRequest(w, r, d, n, S, b)
  \/ \E r \in SignatureRequests, d \in Documents : CreateGrantPackage(w, r, d)
  \/ \E r \in SignatureRequests, o \in Orders :
       StartView(w, r, o) \/ Decline(w, r, o) \/ StartSign(w, r, o)

SignatureContinue(w) ==
  \/ View(w)
  \/ CountSigned(w) \/ CommitSignature(w)
  \/ CheckCaptured(w) \/ ReadRequest(w) \/ ReadLatestVersion(w) \/ CommitCapture(w)
  \/ MailSignedCopies(w)
==============================================================================
