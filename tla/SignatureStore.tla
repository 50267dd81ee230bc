--------------------------- MODULE SignatureStore ---------------------------
(***************************************************************************)
(* The document and signature tables of prisma/schema.prisma and the       *)
(* request handlers in flight on them. As in EquityStore, an action is the *)
(* code between two awaits, and the writes of a transaction are one step,  *)
(* at its commit.                                                          *)
(***************************************************************************)
EXTENDS Integers, FiniteSets

CONSTANTS
  Documents, SignatureRequests,   \* the identifiers the tables may use
  Orders,          \* the signing orders callers ask for
  Workers,         \* handlers that may be in flight at the same time
  Failures,        \* whether a handler may die between two awaits
  VersionBound,    \* bound: no upload starts once a document has this many versions
  None             \* SQL NULL

\* The package of a grant has the recipient sign first, then the company.
RecipientOrder == 1
CompanyOrder == 2

ASSUME SignatureAssumption ==
  /\ Orders \subseteq Nat
  /\ RecipientOrder \in Orders /\ CompanyOrder \in Orders
  /\ IsFiniteSet(Orders)
  /\ Failures \in BOOLEAN
  /\ VersionBound \in Nat
  /\ None \notin Documents \cup SignatureRequests \cup Orders

VARIABLES
  documents,          \* document: id -> DocumentRow
  versions,           \* document_version: document -> versionNumber -> Content
  signatureRequests,  \* signature_request: id -> RequestRow
  participants,       \* signature_participant: request -> signingOrder -> status
  events,             \* signature_event: a set of Event
  job                 \* worker -> what its handler remembers

documentTables == <<documents, versions>>
signatureTables == <<signatureRequests, participants, events>>
vars == <<documents, versions, signatureRequests, participants, events, job>>

-----------------------------------------------------------------------------
(* Rows *)

\* archived: archivedAt is set. It is set with the status ARCHIVED and never reset.
DocumentRow == [version: Nat, status: {"DRAFT", "ACTIVE", "ARCHIVED"}, archived: BOOLEAN]

\* The statuses the code writes of the two enums.
RequestStatus == {"SENT", "PARTIALLY_SIGNED", "SIGNED", "DECLINED"}
ParticipantStatus == {"PENDING", "VIEWED", "SIGNED", "DECLINED"}

RequestRow == [document: Documents, version: Nat, orderRequired: BOOLEAN,
               status: RequestStatus]

\* What a stored version holds: an upload, or the record of a request with the
\* statuses of its participants and those whose signature it shows.
Artifact == [request: SignatureRequests, statuses: UNION {[S -> ParticipantStatus] : S \in SUBSET Orders},
             evidence: SUBSET Orders]
Upload == [request |-> None, statuses |-> <<>>, evidence |-> {}]
Content == Artifact \cup {Upload}

\* of is the signing order of the participant, or None for the request itself.
\* REQUEST_CREATED is left out: there is one for each request, with it.
EventType == {"PARTICIPANT_VIEWED", "PARTICIPANT_SIGNED", "PARTICIPANT_DECLINED",
              "SIGNED_ARTIFACT_CAPTURED", "SIGNED_COPY_EMAILS_SENT"}
Event == [request: SignatureRequests, type: EventType, of: Orders \cup {None}]

ParticipantEvent(r, o, type) == [request |-> r, type |-> type, of |-> o]
RequestEvent(r, type) == [request |-> r, type |-> type, of |-> None]

\* The step a handler is about to take; "idle" for a worker without one.
Step ==
  {"idle", "archive", "latestUpload", "commitUpload", "view", "sign",
   "commitSignature", "capture", "readRequest", "latestVersion",
   "commitCapture", "mail"}

Job == [step: Step, document: Documents \cup {None},
        request: SignatureRequests \cup {None}, order: Orders \cup {None},
        number: Nat, status: RequestStatus \cup {None}, content: Content]

NoJob == [step |-> "idle", document |-> None, request |-> None, order |-> None,
          number |-> 0, status |-> None, content |-> Upload]

TypeOK ==
  /\ documents \in [DOMAIN documents -> DocumentRow]
  /\ DOMAIN documents \subseteq Documents
  /\ DOMAIN versions = DOMAIN documents
  /\ \A d \in DOMAIN versions :
       /\ versions[d] \in [DOMAIN versions[d] -> Content]
       /\ DOMAIN versions[d] \subseteq Nat \ {0}
  /\ signatureRequests \in [DOMAIN signatureRequests -> RequestRow]
  /\ DOMAIN signatureRequests \subseteq SignatureRequests
  /\ DOMAIN participants = DOMAIN signatureRequests
  /\ \A r \in DOMAIN participants :
       /\ participants[r] \in [DOMAIN participants[r] -> ParticipantStatus]
       /\ DOMAIN participants[r] \in (SUBSET Orders) \ {{}}
  /\ events \subseteq Event
  /\ job \in [Workers -> Job]

Init ==
  /\ documents = <<>> /\ versions = <<>>
  /\ signatureRequests = <<>> /\ participants = <<>>
  /\ events = {}
  /\ job = [w \in Workers |-> NoJob]

-----------------------------------------------------------------------------
(* Queries and handlers in flight *)

\* INSERT or UPDATE of the row k of a table.
Put(table, k, row) ==
  [x \in DOMAIN table \cup {k} |-> IF x = k THEN row ELSE table[x]]

\* versionNumber of the latest version of d, 0 when it has none; used alone, it
\* is a mutant of the next.
LatestVersion(d) ==
  CHOOSE n \in {0} \cup DOMAIN versions[d] : \A m \in DOMAIN versions[d] : m <= n

NextVersion(d) == LatestVersion(d) + 1

\* Mutant: no unique key.
AnyVersion(d, n) == TRUE

\* @@unique([documentId, versionNumber])
VersionFree(d, n) == n \notin DOMAIN versions[d]

\* The document becomes ACTIVE at version n, with its content, or the insert
\* of the version fails and the transaction undoes the update too.
WriteVersion(d, n, content) ==
  /\ documents' = [documents EXCEPT ![d].version = n, ![d].status = "ACTIVE"]
  /\ versions' = [versions EXCEPT ![d] = Put(versions[d], n, content)]

\* Orders of r with an event of this type
OrdersWith(r, type) == {o \in Orders : ParticipantEvent(r, o, type) \in events}

\* Mutant: a participant who opened the packet counts.
NotPending(r) == {o \in DOMAIN participants[r] : participants[r][o] # "PENDING"}

\* The participants of r that have signed
Signers(r) == {o \in DOMAIN participants[r] : participants[r][o] = "SIGNED"}

Captured(r) == RequestEvent(r, "SIGNED_ARTIFACT_CAPTURED") \in events

Begin(w, j) ==
  /\ job[w].step = "idle"
  /\ job' = [job EXCEPT ![w] = j]

At(w, step) == job[w].step = step

Continue(w, j) == job' = [job EXCEPT ![w] = j]
Finish(w) == Continue(w, NoJob)
==============================================================================
