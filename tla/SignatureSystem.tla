--------------------------- MODULE SignatureSystem ---------------------------
(***************************************************************************)
(* Documents and signature requests together: any handler of the three     *)
(* services may be in flight in any worker.                                *)
(***************************************************************************)
EXTENDS DocumentFlow, SignatureFlow

\* The process of a handler dies, or a statement of it fails: what it had not
\* committed is undone, and nothing takes the handler up again.
Die(w) ==
  /\ Failures
  /\ ~At(w, "idle")
  /\ Finish(w)
  /\ UNCHANGED <<documentTables, signatureTables>>

Resume(w) == DocumentContinue(w) \/ SignatureContinue(w)

\* No handler is in flight and no caller calls: the server waits.
Quiescent ==
  /\ \A w \in Workers : At(w, "idle")
  /\ UNCHANGED vars

Next ==
  \/ \E w \in Workers : DocumentStart(w) \/ SignatureStart(w) \/ Resume(w) \/ Die(w)
  \/ Quiescent

Spec == Init /\ [][Next]_vars

\* A handler in flight goes on: the event loop takes up every settled promise.
FairSpec == Spec /\ \A w \in Workers : WF_vars(Resume(w))

-----------------------------------------------------------------------------
(* What every interleaving of the handlers keeps, also when some die *)

\* Where the order is required, no participant has signed before one that
\* comes earlier: the check reads statuses that other handlers are changing.
EvidenceInOrder ==
  \A r \in DOMAIN signatureRequests :
    signatureRequests[r].orderRequired =>
      \A o \in OrdersWith(r, "PARTICIPANT_SIGNED"), p \in DOMAIN participants[r] :
        p < o => p \in OrdersWith(r, "PARTICIPANT_SIGNED")

\* A request marked SIGNED, and a stored record of one, have the evidence of
\* every participant, whatever views, declines and repeated calls did meanwhile.
SignedHasEvidence ==
  /\ \A r \in DOMAIN signatureRequests :
       signatureRequests[r].status = "SIGNED" =>
         DOMAIN participants[r] \subseteq OrdersWith(r, "PARTICIPANT_SIGNED")
  /\ \A d \in DOMAIN versions : \A n \in DOMAIN versions[d] :
       LET record == versions[d][n] IN
       record.request # None => record.evidence = DOMAIN participants[record.request]

\* Versions are numbered 1, 2, 3, ... and the document names the latest, though
\* uploads and captures read the latest before they write the next.
VersionsNumbered ==
  \A d \in DOMAIN documents :
    /\ DOMAIN versions[d] = 1..Cardinality(DOMAIN versions[d])
    /\ DOMAIN versions[d] # {} => documents[d].version = Cardinality(DOMAIN versions[d])

\* The evidence of the tables, as the contract sees it.
Contract ==
  INSTANCE SigningContract WITH
    asked <- [r \in DOMAIN participants |-> DOMAIN participants[r]],
    ordered <- {r \in DOMAIN signatureRequests : signatureRequests[r].orderRequired},
    evidence <- [r \in DOMAIN participants |-> OrdersWith(r, "PARTICIPANT_SIGNED")],
    filed <- {r \in DOMAIN signatureRequests : Captured(r)}

ImplementsContract == Contract!Spec

-----------------------------------------------------------------------------
(* What holds when handlers run one at a time, and a race can break *)

\* The status of a request follows from those of its participants: it is SIGNED
\* exactly when all of them are.
CompletionIsDeterministic ==
  \A r \in DOMAIN signatureRequests :
    signatureRequests[r].status = "SIGNED" <=> Signers(r) = DOMAIN participants[r]

RecordsOf(r) ==
  UNION {{<<d, n>> : n \in {m \in DOMAIN versions[d] : versions[d][m].request = r}} :
           d \in DOMAIN versions}

\* One signed copy of a request is stored, and it shows everyone as having signed.
CapturedOnce ==
  \A r \in DOMAIN signatureRequests : \A v, x \in RecordsOf(r) :
    /\ v = x
    /\ \A o \in DOMAIN participants[r] : versions[v[1]][v[2]].statuses[o] = "SIGNED"

\* A request that everyone has signed gets its signed copy on file.
SignedIsFiled ==
  \A r \in SignatureRequests :
    (r \in DOMAIN signatureRequests /\ Signers(r) = DOMAIN participants[r]) ~> Captured(r)
==============================================================================
