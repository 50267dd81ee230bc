---------------------------- MODULE PeopleAdmin ----------------------------
(***************************************************************************)
(* The handlers of modules/people/people.service.ts on people and on the   *)
(* records linked to them, and createJob of modules/m365/m365.service.ts   *)
(* with the worker that consumes its queue. Accounts are in Accounts.      *)
(*                                                                         *)
(* As in EquityStore an action is the code between two awaits. call[w] is  *)
(* what a handler of these services remembers, and a worker runs one       *)
(* handler at a time, of either store.                                     *)
(***************************************************************************)
EXTENDS EquityStore

CONSTANTS
  Engagements, PersonDocuments, ProvisioningJobs,  \* identifiers
  Profiles,      \* what the form of a person may hold
  Dates,         \* the dates callers give an engagement
  Keep,          \* a field left out of a PATCH
  LinkBound      \* bound: no row is linked to people once this many are

ASSUME PeopleAssumption ==
  /\ Dates \subseteq Nat
  /\ Keep # None
  /\ None \notin Dates \cup Profiles \cup Engagements \cup PersonDocuments
  /\ None \notin ProvisioningJobs
  /\ Keep \notin Dates
  /\ LinkBound \in Nat

VARIABLES
  persons,         \* person: id -> PersonRow
  engagements,     \* engagement: id -> EngagementRow
  personDocuments, \* document: id -> DocumentRow
  signers,         \* signature_participant, with the document of its request
  provisioning,    \* m365_provisioning_job: id -> JobRow
  queue,           \* ids in the queue m365, in Redis
  handled,         \* ids the worker has returned for
  call             \* worker -> what its people handler remembers

linked == <<engagements, personDocuments, signers, provisioning, queue, handled>>
peopleTables == <<persons, linked>>
peopleVars == <<persons, engagements, personDocuments, signers, provisioning,
                queue, handled, call>>

-----------------------------------------------------------------------------
(* Rows *)

\* archived: archivedAt is set.
PersonRow == [profile: Profiles, archived: BOOLEAN]

EngagementRow == [person: Persons, start: Dates \cup {None}, end: Dates \cup {None},
                  archived: BOOLEAN]

\* No code sets legalHold.
DocumentRow == [person: Persons \cup {None}, archived: BOOLEAN]

\* enum ProvisioningJobStatus
ProvisioningStatus == {"DRAFT", "QUEUED", "RUNNING", "SUCCESS", "FAILED", "CANCELED"}

JobRow == [person: Persons, status: ProvisioningStatus]

PeopleStep ==
  {"idle", "updatePerson", "countLinked", "archivePerson", "insertEngagement",
   "findEngagement", "updateEngagement", "findOldEngagement", "archiveEngagement",
   "findDocument", "archiveDocument", "findJob", "enqueue"}

Call == [step: PeopleStep, person: Persons \cup {None}, profile: Profiles \cup {None},
         id: Engagements \cup PersonDocuments \cup ProvisioningJobs \cup {None},
         start: Dates \cup {None, Keep}, end: Dates \cup {None, Keep}]

NoCall == [step |-> "idle", person |-> None, profile |-> None, id |-> None,
           start |-> None, end |-> None]

PeopleTypeOK ==
  /\ persons \in [DOMAIN persons -> PersonRow] /\ DOMAIN persons \subseteq Persons
  /\ engagements \in [DOMAIN engagements -> EngagementRow]
  /\ DOMAIN engagements \subseteq Engagements
  /\ personDocuments \in [DOMAIN personDocuments -> DocumentRow]
  /\ DOMAIN personDocuments \subseteq PersonDocuments
  /\ signers \subseteq PersonDocuments \X Persons
  /\ provisioning \in [DOMAIN provisioning -> JobRow]
  /\ DOMAIN provisioning \subseteq ProvisioningJobs
  /\ queue \subseteq ProvisioningJobs /\ handled \subseteq ProvisioningJobs
  /\ call \in [Workers -> Call]

PeopleInit ==
  /\ persons = <<>> /\ engagements = <<>> /\ personDocuments = <<>>
  /\ signers = {} /\ provisioning = <<>>
  /\ queue = {} /\ handled = {}
  /\ call = [w \in Workers |-> NoCall]

-----------------------------------------------------------------------------
(* Queries *)

\* ensurePersonInOrg, of this service and of the equity service
PersonInOrg(p) == p \in DOMAIN persons /\ ~persons[p].archived

EngagementsOf(p) ==
  {e \in DOMAIN engagements : engagements[e].person = p /\ ~engagements[e].archived}

DocumentsOf(p) ==
  {d \in DOMAIN personDocuments :
     personDocuments[d].person = p /\ ~personDocuments[d].archived}

ParticipationsOf(p) == {s \in signers : s[2] = p}

JobsOf(p) == {i \in DOMAIN provisioning : provisioning[i].person = p}

\* Mutant: the grants are not counted.
UnlinkedButGrants(p) ==
  /\ EngagementsOf(p) = {} /\ DocumentsOf(p) = {} /\ ParticipationsOf(p) = {}
  /\ JobsOf(p) = {}

\* Mutant: the provisioning jobs are not counted.
UnlinkedButJobs(p) ==
  /\ EngagementsOf(p) = {} /\ DocumentsOf(p) = {} /\ ParticipationsOf(p) = {}
  /\ \A g \in DOMAIN grants : grants[g].person # p
  /\ \A r \in DOMAIN requests : requests[r].person # p

\* The six counts of deletePerson are all zero.
UnlinkedPerson(p) ==
  /\ EngagementsOf(p) = {}
  /\ \A g \in DOMAIN grants : grants[g].person # p
  /\ \A r \in DOMAIN requests : requests[r].person # p
  /\ DocumentsOf(p) = {}
  /\ ParticipationsOf(p) = {}
  /\ JobsOf(p) = {}

\* What getPersonDetails tells the person page.
Blockers(p) ==
  [engagements |-> Cardinality(EngagementsOf(p)),
   grants |-> Cardinality({g \in DOMAIN grants : grants[g].person = p}),
   exerciseRequests |-> Cardinality({r \in DOMAIN requests : requests[r].person = p}),
   documents |-> Cardinality(DocumentsOf(p)),
   signatureParticipants |-> Cardinality(ParticipationsOf(p)),
   provisioningJobs |-> Cardinality(JobsOf(p))]

CanDeletePerson(p) == \A k \in DOMAIN Blockers(p) : Blockers(p)[k] = 0

\* Mutant: a queued job can be removed.
RemovableOrQueued(status) == status \notin {"RUNNING", "SUCCESS"}

Removable(status) == status \notin {"QUEUED", "RUNNING", "SUCCESS"}

\* canRemove of a job, as the details give it.
CanRemove(status) == status \in {"DRAFT", "FAILED", "CANCELED"}

\* Mutant: only the dates given are compared.
GivenDatesOrdered(row, start, end) ==
  start \in Dates /\ end \in Dates => start <= end

\* Unless one is missing, the end is not before the start.
DatesOrdered(start, end) == start \in Dates /\ end \in Dates => start <= end

\* The dates after a PATCH: a field left out keeps what the row holds.
NextDate(given, old) == IF given = Keep THEN old ELSE given

PatchedDatesOrdered(row, start, end) ==
  DatesOrdered(NextDate(start, row.start), NextDate(end, row.end))

-----------------------------------------------------------------------------
(* Handlers in flight *)

AtCall(w, step) == call[w].step = step

Calling(w, c) == call' = [call EXCEPT ![w] = c]

Returning(w) == Calling(w, NoCall)

Free(w) == At(w, "idle") /\ AtCall(w, "idle")

CheckCall(w, passes, c) ==
  \/ passes /\ Calling(w, c)
  \/ ~passes /\ Returning(w)

LinkRoom ==
  Cardinality(DOMAIN engagements) + Cardinality(DOMAIN personDocuments)
    + Cardinality(signers) + Cardinality(DOMAIN provisioning) < LinkBound

-----------------------------------------------------------------------------
(* People *)

CreatePerson(w, p, profile) ==
  /\ Free(w)
  /\ p \notin DOMAIN persons
  /\ persons' = Put(persons, p, [profile |-> profile, archived |-> FALSE])
  /\ UNCHANGED <<linked, call>>

StartUpdatePerson(w, p, profile) ==
  /\ Free(w)
  /\ PersonInOrg(p)
  /\ Calling(w, [NoCall EXCEPT !.step = "updatePerson", !.person = p, !.profile = profile])
  /\ UNCHANGED peopleTables

\* Every column of the form is written, whatever the page had read.
UpdatePerson(w) ==
  /\ AtCall(w, "updatePerson")
  /\ persons' = [persons EXCEPT ![call[w].person].profile = call[w].profile]
  /\ Returning(w)
  /\ UNCHANGED linked

\* deletePerson: existence, the counts in one batch, the update.
StartDeletePerson(w, p) ==
  /\ Free(w)
  /\ PersonInOrg(p)
  /\ Calling(w, [NoCall EXCEPT !.step = "countLinked", !.person = p])
  /\ UNCHANGED peopleTables

CountLinked(w) ==
  /\ AtCall(w, "countLinked")
  /\ CheckCall(w, UnlinkedPerson(call[w].person), [call[w] EXCEPT !.step = "archivePerson"])
  /\ UNCHANGED peopleTables

ArchivePerson(w) ==
  /\ AtCall(w, "archivePerson")
  /\ persons' = [persons EXCEPT ![call[w].person].archived = TRUE]
  /\ Returning(w)
  /\ UNCHANGED linked

-----------------------------------------------------------------------------
(* Engagements *)

\* A new id is a fresh UUID.
StartCreateEngagement(w, p, e, start, end) ==
  /\ Free(w)
  /\ LinkRoom
  /\ PersonInOrg(p)
  /\ DatesOrdered(start, end)
  /\ e \notin DOMAIN engagements /\ \A v \in Workers : call[v].id # e
  /\ Calling(w, [NoCall EXCEPT !.step = "insertEngagement", !.person = p, !.id = e,
                               !.start = start, !.end = end])
  /\ UNCHANGED peopleTables

InsertEngagement(w) ==
  LET c == call[w] IN
  /\ AtCall(w, "insertEngagement")
  /\ engagements' = Put(engagements, c.id, [person |-> c.person, start |-> c.start,
                                            end |-> c.end, archived |-> FALSE])
  /\ Returning(w)
  /\ UNCHANGED <<persons, personDocuments, signers, provisioning, queue, handled>>

\* The four handlers of the person page begin with ensurePersonInOrg.
StartOnPerson(w, step, p, id, start, end) ==
  /\ Free(w)
  /\ PersonInOrg(p)
  /\ Calling(w, [NoCall EXCEPT !.step = step, !.person = p, !.id = id,
                               !.start = start, !.end = end])
  /\ UNCHANGED peopleTables

StartUpdateEngagement(w, p, e, start, end) ==
  StartOnPerson(w, "findEngagement", p, e, start, end)

FindEngagement(w) ==
  LET c == call[w] IN
  /\ AtCall(w, "findEngagement")
  /\ CheckCall(w, /\ c.id \in EngagementsOf(c.person)
                  /\ PatchedDatesOrdered(engagements[c.id], c.start, c.end),
               [c EXCEPT !.step = "updateEngagement"])
  /\ UNCHANGED peopleTables

\* Only the fields given are written: a column the check read may have changed.
UpdateEngagement(w) ==
  LET c == call[w] IN
  /\ AtCall(w, "updateEngagement")
  /\ engagements' = [engagements EXCEPT ![c.id].start = NextDate(c.start, @),
                                        ![c.id].end = NextDate(c.end, @)]
  /\ Returning(w)
  /\ UNCHANGED <<persons, personDocuments, signers, provisioning, queue, handled>>

StartRemoveEngagement(w, p, e) ==
  StartOnPerson(w, "findOldEngagement", p, e, None, None)

FindOldEngagement(w) ==
  LET c == call[w] IN
  /\ AtCall(w, "findOldEngagement")
  /\ CheckCall(w, c.id \in EngagementsOf(c.person), [c EXCEPT !.step = "archiveEngagement"])
  /\ UNCHANGED peopleTables

ArchiveEngagement(w) ==
  /\ AtCall(w, "archiveEngagement")
  /\ engagements' = [engagements EXCEPT ![call[w].id].archived = TRUE]
  /\ Returning(w)
  /\ UNCHANGED <<persons, personDocuments, signers, provisioning, queue, handled>>

-----------------------------------------------------------------------------
(* Documents and signature participants: the person page archives the      *)
(* first; the other services create both, and neither looks at archivedAt. *)

\* createDocument; the foreign key wants a person that exists.
CreatePersonDocument(w, d, p) ==
  /\ Free(w)
  /\ LinkRoom
  /\ d \notin DOMAIN personDocuments
  /\ p \in DOMAIN persons \cup {None}
  /\ personDocuments' = Put(personDocuments, d, [person |-> p, archived |-> FALSE])
  /\ UNCHANGED <<persons, engagements, signers, provisioning, queue, handled, call>>

\* createNativeRequest for one participant.
RequestSignature(w, d, p) ==
  /\ Free(w)
  /\ LinkRoom
  /\ d \in DOMAIN personDocuments
  /\ p \in DOMAIN persons
  /\ signers' = signers \cup {<<d, p>>}
  /\ UNCHANGED <<persons, engagements, personDocuments, provisioning, queue, handled, call>>

StartArchiveDocument(w, p, d) == StartOnPerson(w, "findDocument", p, d, None, None)

FindDocument(w) ==
  LET c == call[w] IN
  /\ AtCall(w, "findDocument")
  /\ CheckCall(w, /\ c.id \in DocumentsOf(c.person)
                  /\ \A s \in signers : s[1] # c.id,
               [c EXCEPT !.step = "archiveDocument"])
  /\ UNCHANGED peopleTables

ArchiveDocument(w) ==
  /\ AtCall(w, "archiveDocument")
  /\ personDocuments' = [personDocuments EXCEPT ![call[w].id].archived = TRUE]
  /\ Returning(w)
  /\ UNCHANGED <<persons, engagements, signers, provisioning, queue, handled>>

-----------------------------------------------------------------------------
(* Provisioning jobs: createJob inserts the row and then adds its id to    *)
(* the queue, in another store; the person only has to exist. The worker   *)
(* returns a record of what it would do, and writes no row.                *)

InsertJob(w, i, p) ==
  /\ Free(w)
  /\ LinkRoom
  /\ i \notin DOMAIN provisioning
  /\ p \in DOMAIN persons
  /\ provisioning' = Put(provisioning, i, [person |-> p, status |-> "QUEUED"])
  /\ Calling(w, [NoCall EXCEPT !.step = "enqueue", !.id = i])
  /\ UNCHANGED <<persons, engagements, personDocuments, signers, queue, handled>>

Enqueue(w) ==
  /\ AtCall(w, "enqueue")
  /\ queue' = queue \cup {call[w].id}
  /\ Returning(w)
  /\ UNCHANGED <<persons, engagements, personDocuments, signers, provisioning, handled>>

\* The API stops between the two: the row stays, and nothing adds its id later.
DieBeforeEnqueue(w) ==
  /\ AtCall(w, "enqueue")
  /\ Returning(w)
  /\ UNCHANGED peopleTables

HandleJob ==
  \E i \in queue :
    /\ queue' = queue \ {i}
    /\ handled' = handled \cup {i}
    /\ UNCHANGED <<persons, engagements, personDocuments, signers, provisioning, call>>

StartRemoveJob(w, p, i) == StartOnPerson(w, "findJob", p, i, None, None)

\* No code changes the status of a job, so the read and the delete are one step.
RemoveJob(w) ==
  LET c == call[w] IN
  /\ AtCall(w, "findJob")
  /\ provisioning' =
       IF c.id \in JobsOf(c.person) /\ Removable(provisioning[c.id].status)
       THEN Restrict(provisioning, DOMAIN provisioning \ {c.id})
       ELSE provisioning
  /\ Returning(w)
  /\ UNCHANGED <<persons, engagements, personDocuments, signers, queue, handled>>

-----------------------------------------------------------------------------

PersonStart(w, p) ==
  \/ \E profile \in Profiles : CreatePerson(w, p, profile) \/ StartUpdatePerson(w, p, profile)
  \/ StartDeletePerson(w, p)
  \/ \E e \in Engagements :
       \/ \E start, end \in Dates \cup {None} : StartCreateEngagement(w, p, e, start, end)
       \/ \E start, end \in Dates \cup {None, Keep} : StartUpdateEngagement(w, p, e, start, end)
       \/ StartRemoveEngagement(w, p, e)
  \/ \E d \in PersonDocuments : RequestSignature(w, d, p) \/ StartArchiveDocument(w, p, d)
  \/ \E i \in ProvisioningJobs : InsertJob(w, i, p) \/ StartRemoveJob(w, p, i)

PeopleContinue(w) ==
  \/ UpdatePerson(w) \/ CountLinked(w) \/ ArchivePerson(w)
  \/ InsertEngagement(w)
  \/ FindEngagement(w) \/ UpdateEngagement(w)
  \/ FindOldEngagement(w) \/ ArchiveEngagement(w)
  \/ FindDocument(w) \/ ArchiveDocument(w)
  \/ Enqueue(w) \/ DieBeforeEnqueue(w)
  \/ RemoveJob(w)
==============================================================================
