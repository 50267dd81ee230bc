------------------------- MODULE OrganizationProofs -------------------------
(***************************************************************************)
(* Proofs about OrganizationSystem: what any number of handlers keep of    *)
(* provisioning jobs, and, with one handler at a time, that patched dates  *)
(* stay ordered, that nothing stays linked to an archived person, and that *)
(* a job pins its person.                                                  *)
(***************************************************************************)
EXTENDS OrganizationSystem, EquitySystemProofs

\* What a handler in flight remembers.
CallSound(c) ==
  /\ c.step = "updatePerson" => c.person \in DOMAIN persons /\ c.profile \in Profiles
  /\ c.step \in {"countLinked", "archivePerson"} => c.person \in DOMAIN persons
  /\ c.step = "insertEngagement" =>
       /\ c.person \in Persons /\ c.id \in Engagements
       /\ c.start \in Dates \cup {None} /\ c.end \in Dates \cup {None}
       /\ DatesOrdered(c.start, c.end)
  /\ c.step \in {"updateEngagement", "archiveEngagement"} => c.id \in DOMAIN engagements
  /\ c.step \in {"findEngagement", "updateEngagement"} =>
       c.start \in Dates \cup {None, Keep} /\ c.end \in Dates \cup {None, Keep}
  /\ c.step = "archiveDocument" => c.id \in DOMAIN personDocuments
  /\ c.step = "enqueue" => c.id \in DOMAIN provisioning

CallsSound == \A w \in Workers : CallSound(call[w])

\* No code changes the status of a job, and only other statuses are removed.
JobsQueued ==
  /\ IsFiniteSet(DOMAIN provisioning)
  /\ \A i \in DOMAIN provisioning : provisioning[i].status = "QUEUED"
  /\ queue \cup handled \subseteq DOMAIN provisioning

PeopleInv == PeopleTypeOK /\ CallsSound /\ JobsQueued

Archived(p) == p \in DOMAIN persons /\ persons[p].archived

NoLinks(p) ==
  /\ EngagementsOf(p) = {}
  /\ \A g \in DOMAIN grants : grants[g].person # p
  /\ \A r \in DOMAIN requests : requests[r].person # p

\* What the checks of a people handler are worth when it writes, nobody else about.
ChecksHold(c) ==
  /\ c.step = "updateEngagement" => PatchedDatesOrdered(engagements[c.id], c.start, c.end)
  /\ c.step = "insertEngagement" => ~Archived(c.person)
  /\ c.step = "archivePerson" => JobsOf(c.person) = {} /\ NoLinks(c.person)

\* An equity handler is about to write a grant or a request of a person who is there.
LinkSteps == ExerciseSteps \cup GrantSteps \cup UpdateSteps

JobLinks(j) == j.step \in LinkSteps => ~Archived(j.row.person)

OneAtATime == \A w, v \in Workers : w = v

\* A worker serves one request at a time, of either service.
OneStore == \A w \in Workers : At(w, "idle") \/ AtCall(w, "idle")

ChecksHeld == \A w \in Workers : ChecksHold(call[w])

RowsLinked == \A w \in Workers : JobLinks(job[w])

SequentialInv ==
  /\ EngagementDatesOrdered
  /\ ArchivedIsClear
  /\ OneStore
  /\ ChecksHeld
  /\ RowsLinked

-----------------------------------------------------------------------------
(* What the steps have in common *)

\* No row of the tables goes.
Grows ==
  /\ DOMAIN persons \subseteq DOMAIN persons'
  /\ DOMAIN engagements \subseteq DOMAIN engagements'
  /\ DOMAIN personDocuments \subseteq DOMAIN personDocuments'
  /\ DOMAIN provisioning \subseteq DOMAIN provisioning'

TablesTyped ==
  /\ persons \in [DOMAIN persons -> PersonRow] /\ DOMAIN persons \subseteq Persons
  /\ engagements \in [DOMAIN engagements -> EngagementRow]
  /\ DOMAIN engagements \subseteq Engagements
  /\ personDocuments \in [DOMAIN personDocuments -> DocumentRow]
  /\ DOMAIN personDocuments \subseteq PersonDocuments
  /\ signers \subseteq PersonDocuments \X Persons
  /\ provisioning \in [DOMAIN provisioning -> JobRow]
  /\ DOMAIN provisioning \subseteq ProvisioningJobs
  /\ queue \subseteq ProvisioningJobs /\ handled \subseteq ProvisioningJobs

LEMMA TypedIsTables == PeopleTypeOK <=> TablesTyped /\ call \in [Workers -> Call]
BY DEF PeopleTypeOK, TablesTyped

\* The tables grow, and one handler remembers something else.
LEMMA PeopleStepKeeps ==
  ASSUME PeopleInv, NEW w \in Workers, NEW c \in Call, Calling(w, c),
         TablesTyped', JobsQueued', Grows, CallSound(c)'
  PROVE  PeopleInv'
<1>1. /\ \A v \in Workers : call'[v] = IF v = w THEN c ELSE call[v]
      /\ call' \in [Workers -> Call]
  BY DEF PeopleInv, PeopleTypeOK, Calling
<1>2. PeopleTypeOK'
  BY <1>1 DEF PeopleTypeOK, TablesTyped
<1>3. \A z : CallSound(z) => CallSound(z)'
  BY DEF CallSound, Grows, DatesOrdered
<1>4. CallsSound'
  BY <1>1, <1>3 DEF PeopleInv, CallsSound
<1> QED
  BY <1>2, <1>4 DEF PeopleInv

\* A step that only changes what a handler remembers.
LEMMA CallOnly ==
  ASSUME PeopleInv, NEW w \in Workers, NEW c \in Call, Calling(w, c),
         UNCHANGED peopleTables, CallSound(c)
  PROVE  PeopleInv'
<1>1. TablesTyped' /\ JobsQueued' /\ Grows
  BY DEF PeopleInv, PeopleTypeOK, TablesTyped, JobsQueued, Grows, peopleTables, linked
<1>2. CallSound(c)'
  BY DEF CallSound, peopleTables, linked, DatesOrdered
<1> QED
  BY <1>1, <1>2, PeopleStepKeeps

\* A handler that returns.
LEMMA NoCallSound ==
  NoCall \in Call /\ NoCall.step = "idle" /\ CallSound(NoCall) /\ CallSound(NoCall)'
<1>1. NoCall \in Call /\ NoCall.step = "idle"
  BY DEF NoCall, Call, PeopleStep
<1> QED
  BY <1>1 DEF CallSound, NoCall

LEMMA Returned ==
  ASSUME PeopleInv, NEW w \in Workers, Returning(w), UNCHANGED peopleTables
  PROVE  PeopleInv'
BY NoCallSound, CallOnly DEF Returning

\* A handler that writes one table and returns.
LEMMA WriteAndReturn ==
  ASSUME PeopleInv, NEW w \in Workers, Returning(w), TablesTyped', Grows,
         UNCHANGED <<provisioning, queue, handled>>
  PROVE  PeopleInv'
<1>1. JobsQueued'
  BY DEF PeopleInv, JobsQueued
<1> QED
  BY <1>1, NoCallSound, PeopleStepKeeps DEF Returning

-----------------------------------------------------------------------------
(* Starts of handlers *)

LEMMA StartStep ==
  ASSUME PeopleInv, NEW w \in Workers, NEW c \in Call, Calling(w, c),
         UNCHANGED peopleTables,
         c.step \in {"updatePerson", "countLinked", "findEngagement", "findOldEngagement",
                     "findDocument", "findJob"},
         c.person \in DOMAIN persons,
         c.step = "updatePerson" => c.profile \in Profiles
  PROVE  PeopleInv'
<1>1. CallSound(c)
  BY DEF CallSound, Call
<1> QED
  BY <1>1, CallOnly

LEMMA StartOnPersonStep ==
  ASSUME PeopleInv, NEW w \in Workers, NEW p \in Persons,
         NEW step \in {"findEngagement", "findOldEngagement", "findDocument", "findJob"},
         NEW id \in Engagements \cup PersonDocuments \cup ProvisioningJobs,
         NEW start \in Dates \cup {None, Keep}, NEW end \in Dates \cup {None, Keep},
         StartOnPerson(w, step, p, id, start, end)
  PROVE  PeopleInv'
<1>1. PICK c : c = [NoCall EXCEPT !.step = step, !.person = p, !.id = id,
                                  !.start = start, !.end = end]
  OBVIOUS
<1>2. c \in Call /\ c.step = step /\ c.person = p
  BY <1>1 DEF NoCall, Call, PeopleStep
<1>3. Calling(w, c) /\ UNCHANGED peopleTables /\ p \in DOMAIN persons
  BY <1>1 DEF StartOnPerson, PersonInOrg
<1> QED
  BY <1>2, <1>3, StartStep

LEMMA StartUpdatePersonStep ==
  ASSUME PeopleInv, NEW w \in Workers, NEW p \in Persons, NEW profile \in Profiles,
         StartUpdatePerson(w, p, profile)
  PROVE  PeopleInv'
<1>1. PICK c : c = [NoCall EXCEPT !.step = "updatePerson", !.person = p, !.profile = profile]
  OBVIOUS
<1>2. c \in Call /\ c.step = "updatePerson" /\ c.person = p /\ c.profile = profile
  BY <1>1 DEF NoCall, Call, PeopleStep
<1>3. Calling(w, c) /\ UNCHANGED peopleTables /\ p \in DOMAIN persons
  BY <1>1 DEF StartUpdatePerson, PersonInOrg
<1> QED
  BY <1>2, <1>3, StartStep

LEMMA StartDeletePersonStep ==
  ASSUME PeopleInv, NEW w \in Workers, NEW p \in Persons, StartDeletePerson(w, p)
  PROVE  PeopleInv'
<1>1. PICK c : c = [NoCall EXCEPT !.step = "countLinked", !.person = p]
  OBVIOUS
<1>2. c \in Call /\ c.step = "countLinked" /\ c.person = p
  BY <1>1 DEF NoCall, Call, PeopleStep
<1>3. Calling(w, c) /\ UNCHANGED peopleTables /\ p \in DOMAIN persons
  BY <1>1 DEF StartDeletePerson, PersonInOrg
<1> QED
  BY <1>2, <1>3, StartStep

LEMMA StartCreateEngagementStep ==
  ASSUME PeopleInv, NEW w \in Workers, NEW p \in Persons, NEW e \in Engagements,
         NEW start \in Dates \cup {None}, NEW end \in Dates \cup {None},
         StartCreateEngagement(w, p, e, start, end)
  PROVE  PeopleInv'
<1>1. PICK c : c = [NoCall EXCEPT !.step = "insertEngagement", !.person = p, !.id = e,
                                  !.start = start, !.end = end]
  OBVIOUS
<1>2. /\ c \in Call /\ c.step = "insertEngagement" /\ c.person = p /\ c.id = e
      /\ c.start = start /\ c.end = end
  BY <1>1 DEF NoCall, Call, PeopleStep
<1>3. Calling(w, c) /\ UNCHANGED peopleTables /\ DatesOrdered(start, end)
  BY <1>1 DEF StartCreateEngagement
<1>4. CallSound(c)
  BY <1>2, <1>3 DEF CallSound
<1> QED
  BY <1>2, <1>3, <1>4, CallOnly

-----------------------------------------------------------------------------
(* The other steps *)

LEMMA CountLinkedStep ==
  ASSUME PeopleInv, NEW w \in Workers, CountLinked(w)
  PROVE  PeopleInv'
<1>1. call[w] \in Call /\ call[w].step = "countLinked" /\ CallSound(call[w])
  BY DEF CountLinked, AtCall, PeopleInv, PeopleTypeOK, CallsSound
<1>2. PICK c : c = [call[w] EXCEPT !.step = "archivePerson"]
  OBVIOUS
<1>3. c \in Call /\ c.step = "archivePerson" /\ c.person = call[w].person
  BY <1>1, <1>2 DEF Call, PeopleStep
<1>4. CallSound(c)
  BY <1>1, <1>3 DEF CallSound
<1>5. UNCHANGED peopleTables /\ (Calling(w, c) \/ Returning(w))
  BY <1>2 DEF CountLinked, CheckCall
<1> QED
  BY <1>3, <1>4, <1>5, CallOnly, Returned

LEMMA FindStep ==
  ASSUME PeopleInv, NEW w \in Workers,
         FindEngagement(w) \/ FindOldEngagement(w) \/ FindDocument(w)
  PROVE  PeopleInv'
<1>1. call[w] \in Call /\ CallSound(call[w])
  BY DEF PeopleInv, PeopleTypeOK, CallsSound
<1>2. PICK found, update, archive :
        /\ found = [call[w] EXCEPT !.step = "updateEngagement"]
        /\ update = [call[w] EXCEPT !.step = "archiveEngagement"]
        /\ archive = [call[w] EXCEPT !.step = "archiveDocument"]
  OBVIOUS
<1>3. /\ found \in Call /\ found.step = "updateEngagement" /\ found.id = call[w].id
      /\ found.start = call[w].start /\ found.end = call[w].end
      /\ update \in Call /\ update.step = "archiveEngagement" /\ update.id = call[w].id
      /\ archive \in Call /\ archive.step = "archiveDocument" /\ archive.id = call[w].id
  BY <1>1, <1>2 DEF Call, PeopleStep
<1>4. CASE FindEngagement(w)
  <2>1. /\ call[w].step = "findEngagement" /\ UNCHANGED peopleTables
        /\ \/ Calling(w, found) /\ call[w].id \in DOMAIN engagements
           \/ Returning(w)
    BY <1>2, <1>4 DEF FindEngagement, AtCall, CheckCall, EngagementsOf
  <2>2. call[w].id \in DOMAIN engagements => CallSound(found)
    BY <1>1, <1>3, <2>1 DEF CallSound
  <2> QED
    BY <1>3, <2>1, <2>2, CallOnly, Returned
<1>5. CASE FindOldEngagement(w)
  <2>1. /\ UNCHANGED peopleTables
        /\ \/ Calling(w, update) /\ call[w].id \in DOMAIN engagements
           \/ Returning(w)
    BY <1>2, <1>5 DEF FindOldEngagement, CheckCall, EngagementsOf
  <2>2. call[w].id \in DOMAIN engagements => CallSound(update)
    BY <1>3 DEF CallSound
  <2> QED
    BY <1>3, <2>1, <2>2, CallOnly, Returned
<1>6. CASE FindDocument(w)
  <2>1. /\ UNCHANGED peopleTables
        /\ \/ Calling(w, archive) /\ call[w].id \in DOMAIN personDocuments
           \/ Returning(w)
    BY <1>2, <1>6 DEF FindDocument, CheckCall, DocumentsOf
  <2>2. call[w].id \in DOMAIN personDocuments => CallSound(archive)
    BY <1>3 DEF CallSound
  <2> QED
    BY <1>3, <2>1, <2>2, CallOnly, Returned
<1> QED
  BY <1>4, <1>5, <1>6

\* An update of one row of persons.
LEMMA WritePersonStep ==
  ASSUME PeopleInv, NEW w \in Workers, UpdatePerson(w) \/ ArchivePerson(w)
  PROVE  PeopleInv'
<1>1. PICK p, profile : p = call[w].person /\ profile = call[w].profile
  OBVIOUS
<1>2. p \in DOMAIN persons /\ (UpdatePerson(w) => profile \in Profiles)
  BY <1>1 DEF UpdatePerson, ArchivePerson, AtCall, PeopleInv, CallsSound, CallSound
<1>3. /\ \/ UpdatePerson(w) /\ persons' = [persons EXCEPT ![p].profile = profile]
         \/ persons' = [persons EXCEPT ![p].archived = TRUE]
      /\ Returning(w) /\ UNCHANGED linked
  BY <1>1 DEF UpdatePerson, ArchivePerson
<1>4. persons[p] \in PersonRow
  BY <1>2 DEF PeopleInv, PeopleTypeOK
<1>5. persons' \in [DOMAIN persons' -> PersonRow] /\ DOMAIN persons' = DOMAIN persons
  BY <1>2, <1>3, <1>4 DEF PeopleInv, PeopleTypeOK, PersonRow
<1>6. TablesTyped' /\ Grows
  BY <1>3, <1>5 DEF PeopleInv, PeopleTypeOK, TablesTyped, Grows, linked
<1> QED
  BY <1>3, <1>6, WriteAndReturn DEF linked

LEMMA InsertEngagementStep ==
  ASSUME PeopleInv, NEW w \in Workers, InsertEngagement(w)
  PROVE  PeopleInv'
<1>1. PICK row : row = [person |-> call[w].person, start |-> call[w].start,
                        end |-> call[w].end, archived |-> FALSE]
  OBVIOUS
<1>2. CallSound(call[w]) /\ call[w].step = "insertEngagement"
  BY DEF InsertEngagement, AtCall, PeopleInv, CallsSound
<1>3. row \in EngagementRow /\ call[w].id \in Engagements
  BY <1>1, <1>2 DEF CallSound, EngagementRow
<1>4. /\ engagements' = Put(engagements, call[w].id, row)
      /\ Returning(w)
      /\ UNCHANGED <<persons, personDocuments, signers, provisioning, queue, handled>>
  BY <1>1 DEF InsertEngagement
<1>5. /\ engagements' \in [DOMAIN engagements' -> EngagementRow]
      /\ DOMAIN engagements' \subseteq Engagements
      /\ DOMAIN engagements \subseteq DOMAIN engagements'
  BY <1>3, <1>4 DEF Put, PeopleInv, PeopleTypeOK
<1>6. TablesTyped' /\ Grows
  BY <1>4, <1>5 DEF PeopleInv, PeopleTypeOK, TablesTyped, Grows
<1> QED
  BY <1>4, <1>6, WriteAndReturn

\* An update of one row of engagements: its dates, or that it is archived.
LEMMA WriteEngagementStep ==
  ASSUME PeopleInv, NEW w \in Workers, UpdateEngagement(w) \/ ArchiveEngagement(w)
  PROVE  /\ PeopleInv'
         /\ \A e \in DOMAIN engagements' : e \in DOMAIN engagements
         /\ \A e \in DOMAIN engagements : e # call[w].id => engagements'[e] = engagements[e]
         /\ engagements'[call[w].id].person = engagements[call[w].id].person
         /\ engagements[call[w].id].archived => engagements'[call[w].id].archived
         /\ UpdateEngagement(w) =>
              /\ engagements'[call[w].id].start
                   = NextDate(call[w].start, engagements[call[w].id].start)
              /\ engagements'[call[w].id].end
                   = NextDate(call[w].end, engagements[call[w].id].end)
         /\ ArchiveEngagement(w) =>
              /\ engagements'[call[w].id].start = engagements[call[w].id].start
              /\ engagements'[call[w].id].end = engagements[call[w].id].end
<1>1. PICK e, c : e = call[w].id /\ c = call[w]
  OBVIOUS
<1>2. e \in DOMAIN engagements /\ CallSound(c)
  BY <1>1 DEF UpdateEngagement, ArchiveEngagement, AtCall, PeopleInv, CallsSound, CallSound
<1>3. PICK row : row = engagements[e]
  OBVIOUS
<1>4. row \in EngagementRow
  BY <1>2, <1>3 DEF PeopleInv, PeopleTypeOK
<1>5. PICK start, end : start = NextDate(c.start, row.start) /\ end = NextDate(c.end, row.end)
  OBVIOUS
<1>6. UpdateEngagement(w) => start \in Dates \cup {None} /\ end \in Dates \cup {None}
  BY <1>1, <1>2, <1>4, <1>5 DEF UpdateEngagement, AtCall, CallSound, NextDate, EngagementRow
<1>7. PICK new :
        /\ new = IF UpdateEngagement(w) THEN [row EXCEPT !.start = start, !.end = end]
                 ELSE [row EXCEPT !.archived = TRUE]
  OBVIOUS
<1>8. /\ new \in EngagementRow /\ new.person = row.person
      /\ row.archived => new.archived
      /\ UpdateEngagement(w) => new.start = start /\ new.end = end
      /\ ~UpdateEngagement(w) => new.start = row.start /\ new.end = row.end
  BY <1>4, <1>6, <1>7 DEF EngagementRow
<1>9. ArchiveEngagement(w) => ~UpdateEngagement(w)
  BY DEF ArchiveEngagement, UpdateEngagement, AtCall
<1>10. engagements' = [engagements EXCEPT ![e] = new]
  <2>1. CASE UpdateEngagement(w)
    <3>1. engagements' = [engagements EXCEPT ![e].start = NextDate(c.start, @),
                                             ![e].end = NextDate(c.end, @)]
      BY <1>1, <2>1 DEF UpdateEngagement
    <3>2. new = [row EXCEPT !.start = start, !.end = end]
      BY <1>7, <2>1
    <3> QED
      BY <1>2, <1>3, <1>4, <1>5, <3>1, <3>2 DEF EngagementRow, PeopleInv, PeopleTypeOK
  <2>2. CASE ArchiveEngagement(w)
    BY <1>1, <1>2, <1>3, <1>7, <1>9, <2>2 DEF ArchiveEngagement, PeopleInv, PeopleTypeOK
  <2> QED
    BY <2>1, <2>2
<1>11. /\ engagements' \in [DOMAIN engagements' -> EngagementRow]
       /\ DOMAIN engagements' = DOMAIN engagements
       /\ \A x \in DOMAIN engagements : engagements'[x] = IF x = e THEN new ELSE engagements[x]
  BY <1>2, <1>8, <1>10 DEF PeopleInv, PeopleTypeOK
<1>12. /\ Returning(w)
       /\ UNCHANGED <<persons, personDocuments, signers, provisioning, queue, handled>>
  BY DEF UpdateEngagement, ArchiveEngagement
<1>13. TablesTyped' /\ Grows
  BY <1>11, <1>12 DEF PeopleInv, PeopleTypeOK, TablesTyped, Grows
<1>14. PeopleInv'
  BY <1>12, <1>13, WriteAndReturn
<1> QED
  BY <1>1, <1>2, <1>3, <1>5, <1>8, <1>9, <1>11, <1>14

LEMMA ArchiveDocumentStep ==
  ASSUME PeopleInv, NEW w \in Workers, ArchiveDocument(w)
  PROVE  PeopleInv'
<1>1. PICK d : d = call[w].id
  OBVIOUS
<1>2. d \in DOMAIN personDocuments
  BY <1>1 DEF ArchiveDocument, AtCall, PeopleInv, CallsSound, CallSound
<1>3. /\ personDocuments' = [personDocuments EXCEPT ![d].archived = TRUE]
      /\ Returning(w)
      /\ UNCHANGED <<persons, engagements, signers, provisioning, queue, handled>>
  BY <1>1 DEF ArchiveDocument
<1>4. personDocuments[d] \in DocumentRow
  BY <1>2 DEF PeopleInv, PeopleTypeOK
<1>5. /\ personDocuments' \in [DOMAIN personDocuments' -> DocumentRow]
      /\ DOMAIN personDocuments' = DOMAIN personDocuments
  BY <1>2, <1>3, <1>4 DEF PeopleInv, PeopleTypeOK, DocumentRow
<1>6. TablesTyped' /\ Grows
  BY <1>3, <1>5 DEF PeopleInv, PeopleTypeOK, TablesTyped, Grows
<1> QED
  BY <1>3, <1>6, WriteAndReturn

\* Steps next to which no handler remembers anything new.
LEMMA TablesOnly ==
  ASSUME PeopleInv, UNCHANGED call, TablesTyped', JobsQueued', Grows
  PROVE  PeopleInv'
<1>1. PeopleTypeOK'
  BY DEF PeopleInv, PeopleTypeOK, TablesTyped
<1>2. \A z : CallSound(z) => CallSound(z)'
  BY DEF CallSound, Grows, DatesOrdered
<1>3. CallsSound'
  BY <1>2 DEF PeopleInv, CallsSound
<1> QED
  BY <1>1, <1>3 DEF PeopleInv

LEMMA CreatePersonStep ==
  ASSUME PeopleInv, NEW w \in Workers, NEW p \in Persons, NEW profile \in Profiles,
         CreatePerson(w, p, profile)
  PROVE  PeopleInv' /\ UNCHANGED <<linked, call>>
                    /\ \A q \in DOMAIN persons : persons'[q] = persons[q]
<1>1. PICK row : row = [profile |-> profile, archived |-> FALSE]
  OBVIOUS
<1>2. persons' = Put(persons, p, row) /\ p \notin DOMAIN persons /\ UNCHANGED <<linked, call>>
  BY <1>1 DEF CreatePerson
<1>3. row \in PersonRow
  BY <1>1 DEF PersonRow
<1>4. /\ persons' \in [DOMAIN persons' -> PersonRow] /\ DOMAIN persons' \subseteq Persons
      /\ DOMAIN persons \subseteq DOMAIN persons'
      /\ \A q \in DOMAIN persons : persons'[q] = persons[q]
  BY <1>2, <1>3 DEF Put, PeopleInv, PeopleTypeOK
<1>5. TablesTyped' /\ Grows /\ JobsQueued'
  BY <1>2, <1>4 DEF PeopleInv, PeopleTypeOK, TablesTyped, Grows, linked, JobsQueued
<1> QED
  BY <1>2, <1>4, <1>5, TablesOnly

LEMMA CreatePersonDocumentStep ==
  ASSUME PeopleInv, NEW w \in Workers, NEW d \in PersonDocuments,
         NEW p \in Persons \cup {None}, CreatePersonDocument(w, d, p)
  PROVE  PeopleInv'
<1>1. PICK row : row = [person |-> p, archived |-> FALSE]
  OBVIOUS
<1>2. /\ personDocuments' = Put(personDocuments, d, row)
      /\ UNCHANGED <<persons, engagements, signers, provisioning, queue, handled, call>>
  BY <1>1 DEF CreatePersonDocument
<1>3. row \in DocumentRow
  BY <1>1 DEF DocumentRow
<1>4. /\ personDocuments' \in [DOMAIN personDocuments' -> DocumentRow]
      /\ DOMAIN personDocuments' \subseteq PersonDocuments
      /\ DOMAIN personDocuments \subseteq DOMAIN personDocuments'
  BY <1>2, <1>3 DEF Put, PeopleInv, PeopleTypeOK
<1>5. TablesTyped' /\ Grows /\ JobsQueued'
  BY <1>2, <1>4 DEF PeopleInv, PeopleTypeOK, TablesTyped, Grows, JobsQueued
<1> QED
  BY <1>2, <1>5, TablesOnly

LEMMA RequestSignatureStep ==
  ASSUME PeopleInv, NEW w \in Workers, NEW d \in PersonDocuments, NEW p \in Persons,
         RequestSignature(w, d, p)
  PROVE  PeopleInv'
<1>1. /\ signers' = signers \cup {<<d, p>>}
      /\ UNCHANGED <<persons, engagements, personDocuments, provisioning, queue, handled, call>>
  BY DEF RequestSignature
<1>2. TablesTyped' /\ Grows /\ JobsQueued'
  BY <1>1 DEF PeopleInv, PeopleTypeOK, TablesTyped, Grows, JobsQueued
<1> QED
  BY <1>1, <1>2, TablesOnly

LEMMA InsertJobStep ==
  ASSUME PeopleInv, NEW w \in Workers, NEW i \in ProvisioningJobs, NEW p \in Persons,
         InsertJob(w, i, p)
  PROVE  /\ PeopleInv'
         /\ DOMAIN provisioning \subseteq DOMAIN provisioning'
         /\ \A x \in DOMAIN provisioning : provisioning'[x] = provisioning[x]
<1>1. PICK c, row : /\ c = [NoCall EXCEPT !.step = "enqueue", !.id = i]
                    /\ row = [person |-> p, status |-> "QUEUED"]
  OBVIOUS
<1>2. c \in Call /\ c.step = "enqueue" /\ c.id = i /\ row \in JobRow /\ row.status = "QUEUED"
  BY <1>1 DEF NoCall, Call, PeopleStep, JobRow, ProvisioningStatus
<1>3. /\ provisioning' = Put(provisioning, i, row) /\ i \notin DOMAIN provisioning
      /\ Calling(w, c)
      /\ UNCHANGED <<persons, engagements, personDocuments, signers, queue, handled>>
  BY <1>1 DEF InsertJob
<1>4. /\ provisioning' \in [DOMAIN provisioning' -> JobRow]
      /\ DOMAIN provisioning' = DOMAIN provisioning \cup {i}
      /\ DOMAIN provisioning' \subseteq ProvisioningJobs
      /\ provisioning'[i] = row
      /\ \A x \in DOMAIN provisioning : provisioning'[x] = provisioning[x]
  BY <1>2, <1>3 DEF Put, PeopleInv, PeopleTypeOK
<1>5. IsFiniteSet(DOMAIN provisioning')
  BY <1>4, FS_AddElement DEF PeopleInv, JobsQueued
<1>6. JobsQueued'
  BY <1>2, <1>3, <1>4, <1>5 DEF PeopleInv, JobsQueued
<1>7. TablesTyped' /\ Grows
  BY <1>3, <1>4 DEF PeopleInv, PeopleTypeOK, TablesTyped, Grows
<1>8. CallSound(c)'
  BY <1>2, <1>4 DEF CallSound
<1> QED
  BY <1>2, <1>3, <1>4, <1>6, <1>7, <1>8, PeopleStepKeeps

LEMMA EnqueueStep ==
  ASSUME PeopleInv, NEW w \in Workers, Enqueue(w) \/ DieBeforeEnqueue(w)
  PROVE  PeopleInv'
<1>1. CASE DieBeforeEnqueue(w)
  BY <1>1, Returned DEF DieBeforeEnqueue
<1>2. CASE Enqueue(w)
  <2>1. call[w].id \in DOMAIN provisioning
    BY <1>2 DEF Enqueue, AtCall, PeopleInv, CallsSound, CallSound
  <2>2. /\ queue' = queue \cup {call[w].id} /\ Returning(w)
        /\ UNCHANGED <<persons, engagements, personDocuments, signers, provisioning, handled>>
    BY <1>2 DEF Enqueue
  <2>3. TablesTyped' /\ Grows /\ JobsQueued'
    BY <2>1, <2>2 DEF PeopleInv, PeopleTypeOK, TablesTyped, Grows, JobsQueued
  <2> QED
    BY <2>2, <2>3, NoCallSound, PeopleStepKeeps DEF Returning
<1> QED
  BY <1>1, <1>2

LEMMA HandleJobStep ==
  ASSUME PeopleInv, HandleJob
  PROVE  PeopleInv'
<1>1. /\ queue' \cup handled' \subseteq queue \cup handled
      /\ UNCHANGED <<persons, engagements, personDocuments, signers, provisioning, call>>
  BY DEF HandleJob
<1>2. TablesTyped' /\ Grows /\ JobsQueued'
  BY <1>1 DEF PeopleInv, PeopleTypeOK, TablesTyped, Grows, JobsQueued
<1> QED
  BY <1>1, <1>2, TablesOnly

\* A queued job is not removable: the handler returns with all rows in place.
LEMMA RemoveJobStep ==
  ASSUME PeopleInv, NEW w \in Workers, RemoveJob(w)
  PROVE  PeopleInv' /\ UNCHANGED peopleTables
<1>1. ~(call[w].id \in JobsOf(call[w].person) /\ Removable(provisioning[call[w].id].status))
  BY DEF JobsOf, Removable, PeopleInv, JobsQueued
<1>2. UNCHANGED peopleTables /\ Returning(w)
  BY <1>1 DEF RemoveJob, peopleTables, linked
<1> QED
  BY <1>2, Returned

-----------------------------------------------------------------------------
(* The invariant, under any interleaving *)

LEMMA PersonStartStep ==
  ASSUME PeopleInv, NEW w \in Workers, NEW p \in Persons, PersonStart(w, p)
  PROVE  PeopleInv'
<1>1. CASE \E profile \in Profiles : CreatePerson(w, p, profile) \/ StartUpdatePerson(w, p, profile)
  BY <1>1, CreatePersonStep, StartUpdatePersonStep
<1>2. CASE StartDeletePerson(w, p)
  BY <1>2, StartDeletePersonStep
<1>3. CASE \E e \in Engagements :
             \/ \E start, end \in Dates \cup {None} : StartCreateEngagement(w, p, e, start, end)
             \/ \E start, end \in Dates \cup {None, Keep} :
                  StartUpdateEngagement(w, p, e, start, end)
             \/ StartRemoveEngagement(w, p, e)
  BY <1>3, StartCreateEngagementStep, StartOnPersonStep
     DEF StartUpdateEngagement, StartRemoveEngagement
<1>4. CASE \E d \in PersonDocuments : RequestSignature(w, d, p) \/ StartArchiveDocument(w, p, d)
  BY <1>4, RequestSignatureStep, StartOnPersonStep DEF StartArchiveDocument
<1>5. CASE \E i \in ProvisioningJobs : InsertJob(w, i, p) \/ StartRemoveJob(w, p, i)
  BY <1>5, InsertJobStep, StartOnPersonStep DEF StartRemoveJob
<1> QED
  BY <1>1, <1>2, <1>3, <1>4, <1>5 DEF PersonStart

LEMMA PeopleContinueStep ==
  ASSUME PeopleInv, NEW w \in Workers, PeopleContinue(w)
  PROVE  PeopleInv'
BY WritePersonStep, CountLinkedStep, InsertEngagementStep, FindStep, WriteEngagementStep,
   ArchiveDocumentStep, EnqueueStep, RemoveJobStep DEF PeopleContinue

LEMMA PeopleInitInv ==
  ASSUME PeopleInit
  PROVE  PeopleInv
<1>1. /\ persons = <<>> /\ engagements = <<>> /\ personDocuments = <<>> /\ provisioning = <<>>
      /\ signers = {} /\ queue = {} /\ handled = {}
      /\ call = [w \in Workers |-> NoCall]
  BY DEF PeopleInit
<1>2. NoCall \in Call /\ CallSound(NoCall)
  BY NoCallSound
<1>3. PeopleTypeOK
  BY <1>1, <1>2 DEF PeopleTypeOK
<1>4. JobsQueued
  BY <1>1, FS_EmptySet DEF JobsQueued
<1> QED
  BY <1>1, <1>2, <1>3, <1>4 DEF PeopleInv, CallsSound

LEMMA PeopleUnchanged ==
  ASSUME PeopleInv, UNCHANGED peopleVars
  PROVE  PeopleInv'
<1>1. TablesTyped' /\ JobsQueued' /\ Grows /\ UNCHANGED call
  BY DEF PeopleInv, PeopleTypeOK, TablesTyped, JobsQueued, Grows, peopleVars
<1> QED
  BY <1>1, TablesOnly

LEMMA PeopleNextInv ==
  ASSUME PeopleInv, [OrganizationNext]_organizationVars
  PROVE  PeopleInv'
<1>1. CASE \E w \in Workers : EquityStep(w)
  BY <1>1, PeopleUnchanged DEF EquityStep
<1>2. CASE \E w \in Workers : PeopleStepOf(w)
  BY <1>2, PersonStartStep, CreatePersonDocumentStep, PeopleContinueStep DEF PeopleStepOf
<1>3. CASE HandleJob
  BY <1>3, HandleJobStep
<1>4. CASE UNCHANGED peopleVars
  BY <1>4, PeopleUnchanged
<1> QED
  BY <1>1, <1>2, <1>3, <1>4
     DEF OrganizationNext, OrganizationQuiescent, organizationVars

\* Under any interleaving of the two services: the tables of people have their
\* types, every handler in flight writes rows that exist, and every job is QUEUED.
THEOREM PeopleInvariant == OrganizationSpec => []PeopleInv
<1>1. OrganizationInit => PeopleInv
  BY PeopleInitInv DEF OrganizationInit
<1>2. PeopleInv /\ [OrganizationNext]_organizationVars => PeopleInv'
  BY PeopleNextInv
<1> QED
  BY <1>1, <1>2, PTL DEF OrganizationSpec

\* Rows, queue and handlers of the people and provisioning services have their types.
THEOREM PeopleTypes == OrganizationSpec => []PeopleTypeOK
<1>1. PeopleInv => PeopleTypeOK
  BY DEF PeopleInv
<1> QED
  BY <1>1, PeopleInvariant, PTL

\* What the queue holds and the worker returns for has a row, and that row never
\* becomes removable, nor its person deletable: whatever runs or dies next to it.
THEOREM JobsHaveRows == OrganizationSpec => []QueuedHasRow
<1>1. PeopleInv => QueuedHasRow
  <2> SUFFICES ASSUME PeopleInv PROVE QueuedHasRow
    OBVIOUS
  <2>1. ASSUME NEW i \in DOMAIN provisioning
        PROVE  ~CanRemove(provisioning[i].status) /\ ~CanDeletePerson(provisioning[i].person)
    <3>1. PICK p : p = provisioning[i].person
      OBVIOUS
    <3>2. i \in JobsOf(p) /\ JobsOf(p) \subseteq DOMAIN provisioning
      BY <3>1 DEF JobsOf
    <3>3. Cardinality(JobsOf(p)) # 0
      BY <3>2, FS_Subset, FS_EmptySet DEF PeopleInv, JobsQueued
    <3>4. "provisioningJobs" \in DOMAIN Blockers(p)
          /\ Blockers(p).provisioningJobs = Cardinality(JobsOf(p))
      BY DEF Blockers
    <3>5. ~CanDeletePerson(p)
      BY <3>3, <3>4 DEF CanDeletePerson
    <3>6. ~CanRemove(provisioning[i].status)
      BY DEF CanRemove, PeopleInv, JobsQueued
    <3> QED
      BY <3>1, <3>5, <3>6
  <2> QED
    BY <2>1 DEF PeopleInv, JobsQueued, QueuedHasRow
<1> QED
  BY <1>1, PeopleInvariant, PTL

-----------------------------------------------------------------------------
(* One handler at a time: what a handler found holds until it writes *)

LEMMA CallsAre ==
  ASSUME PeopleInv, NEW w \in Workers, NEW c, Calling(w, c), OneAtATime
  PROVE  \A v \in Workers : call'[v] = c
BY DEF PeopleInv, PeopleTypeOK, Calling, OneAtATime

LEMMA AloneChecked ==
  ASSUME PeopleInv, NEW w \in Workers, NEW c, Calling(w, c), ChecksHold(c)', OneAtATime
  PROVE  ChecksHeld'
BY CallsAre DEF ChecksHeld, ChecksHold

LEMMA AloneReturned ==
  ASSUME PeopleInv, NEW w \in Workers, Returning(w), OneAtATime
  PROVE  ChecksHeld'
<1>1. ChecksHold(NoCall)'
  BY NoCallSound DEF ChecksHold
<1> QED
  BY <1>1, AloneChecked DEF Returning

\* Whoever is free has checked nothing.
LEMMA AloneFree ==
  ASSUME NEW w \in Workers, AtCall(w, "idle"), OneAtATime, UNCHANGED call
  PROVE  ChecksHeld'
BY DEF AtCall, OneAtATime, ChecksHeld, ChecksHold

\* While a people handler runs, no equity handler does.
LEMMA AloneIdle ==
  ASSUME NEW w \in Workers, At(w, "idle"), OneAtATime, UNCHANGED vars
  PROVE  OneStore' /\ RowsLinked'
<1>1. \A v \in Workers : job'[v].step = "idle"
  BY DEF At, OneAtATime, vars
<1>2. "idle" \notin LinkSteps
  BY DEF LinkSteps, ExerciseSteps, GrantSteps, UpdateSteps
<1> QED
  BY <1>1, <1>2 DEF OneStore, RowsLinked, JobLinks, At

LEMMA DatesKept ==
  ASSUME EngagementDatesOrdered, UNCHANGED engagements
  PROVE  EngagementDatesOrdered'
BY DEF EngagementDatesOrdered, DatesOrdered

LEMMA ClearKept ==
  ASSUME ArchivedIsClear, \A p : Archived(p)' => Archived(p),
         \A p : EngagementsOf(p)' \subseteq EngagementsOf(p), UNCHANGED vars
  PROVE  ArchivedIsClear'
BY DEF ArchivedIsClear, Archived, vars

\* Most steps: neither an engagement nor an archived person more.
LEMMA SequentialKept ==
  ASSUME SequentialInv, OneAtATime, UNCHANGED <<vars, engagements>>, ChecksHeld',
         \A p : Archived(p)' => Archived(p), NEW w \in Workers, At(w, "idle")
  PROVE  SequentialInv'
<1>1. \A p : EngagementsOf(p)' \subseteq EngagementsOf(p)
  BY DEF EngagementsOf
<1> QED
  BY <1>1, DatesKept, ClearKept, AloneIdle DEF SequentialInv

-----------------------------------------------------------------------------
(* Handlers of people *)

LEMMA SequentialStart ==
  ASSUME PeopleInv, SequentialInv, OneAtATime, NEW w \in Workers, NEW p \in Persons,
         PersonStart(w, p), UNCHANGED vars
  PROVE  SequentialInv'
<1>1. UNCHANGED engagements /\ Free(w)
  BY Zenon DEF PersonStart, CreatePerson, StartUpdatePerson, StartDeletePerson,
     StartCreateEngagement, StartUpdateEngagement, StartRemoveEngagement, StartOnPerson,
     RequestSignature, StartArchiveDocument, InsertJob, StartRemoveJob, peopleTables, linked
<1>2. \/ UNCHANGED call /\ \E profile \in Profiles : CreatePerson(w, p, profile)
      \/ UNCHANGED <<call, persons>>
      \/ /\ UNCHANGED persons
         /\ \E c : Calling(w, c) /\ (c.step = "insertEngagement" => c.person = p /\ PersonInOrg(p))
                   /\ c.step \notin {"updateEngagement", "archivePerson"}
  <2>1. CASE \E profile \in Profiles : CreatePerson(w, p, profile)
    BY <2>1 DEF CreatePerson
  <2>2. CASE \E profile \in Profiles : StartUpdatePerson(w, p, profile)
    <3>1. PICK profile \in Profiles : StartUpdatePerson(w, p, profile)
      BY <2>2
    <3>2. PICK c : c = [NoCall EXCEPT !.step = "updatePerson", !.person = p, !.profile = profile]
      OBVIOUS
    <3>3. c.step = "updatePerson"
      BY <3>2 DEF NoCall
    <3>4. Calling(w, c) /\ UNCHANGED persons
      BY <3>1, <3>2 DEF StartUpdatePerson, peopleTables
    <3> QED
      BY <3>3, <3>4
  <2>3. CASE StartDeletePerson(w, p)
    <3>1. PICK c : c = [NoCall EXCEPT !.step = "countLinked", !.person = p]
      OBVIOUS
    <3>2. c.step = "countLinked"
      BY <3>1 DEF NoCall
    <3>3. Calling(w, c) /\ UNCHANGED persons
      BY <2>3, <3>1 DEF StartDeletePerson, peopleTables
    <3> QED
      BY <3>2, <3>3
  <2>4. CASE \E e \in Engagements, start, end \in Dates \cup {None} :
               StartCreateEngagement(w, p, e, start, end)
    <3>1. PICK e \in Engagements, start \in Dates \cup {None}, end \in Dates \cup {None} :
            StartCreateEngagement(w, p, e, start, end)
      BY <2>4
    <3>2. PICK c : c = [NoCall EXCEPT !.step = "insertEngagement", !.person = p, !.id = e,
                                      !.start = start, !.end = end]
      OBVIOUS
    <3>3. c.step = "insertEngagement" /\ c.person = p
      BY <3>2 DEF NoCall
    <3>4. Calling(w, c) /\ UNCHANGED persons /\ PersonInOrg(p)
      BY <3>1, <3>2 DEF StartCreateEngagement, peopleTables
    <3> QED
      BY <3>3, <3>4
  <2>5. ASSUME NEW step \in {"findEngagement", "findOldEngagement", "findDocument", "findJob"},
               NEW id, NEW start, NEW end, StartOnPerson(w, step, p, id, start, end)
        PROVE  /\ UNCHANGED persons
               /\ \E c : Calling(w, c) /\ c.step = step
    <3>1. PICK c : c = [NoCall EXCEPT !.step = step, !.person = p, !.id = id,
                                      !.start = start, !.end = end]
      OBVIOUS
    <3>2. c.step = step
      BY <3>1 DEF NoCall
    <3>3. Calling(w, c) /\ UNCHANGED persons
      BY <2>5, <3>1 DEF StartOnPerson, peopleTables
    <3> QED
      BY <3>2, <3>3
  <2>6. CASE \E d \in PersonDocuments : RequestSignature(w, d, p)
    BY <2>6 DEF RequestSignature
  <2>7. CASE \E i \in ProvisioningJobs : InsertJob(w, i, p)
    <3>1. PICK i \in ProvisioningJobs : InsertJob(w, i, p)
      BY <2>7
    <3>2. PICK c : c = [NoCall EXCEPT !.step = "enqueue", !.id = i]
      OBVIOUS
    <3>3. c.step = "enqueue"
      BY <3>2 DEF NoCall
    <3>4. Calling(w, c) /\ UNCHANGED persons
      BY <3>1, <3>2 DEF InsertJob
    <3> QED
      BY <3>3, <3>4
  <2> QED
    BY <2>1, <2>2, <2>3, <2>4, <2>5, <2>6, <2>7
       DEF PersonStart, StartUpdateEngagement, StartRemoveEngagement, StartArchiveDocument,
           StartRemoveJob
<1>3. \A q : Archived(q)' => Archived(q)
  <2>1. CASE UNCHANGED persons
    BY <2>1 DEF Archived
  <2>2. CASE \E profile \in Profiles : CreatePerson(w, p, profile)
    BY <2>2 DEF CreatePerson, Put, Archived
  <2> QED
    BY <1>2, <2>1, <2>2
<1>4. ChecksHeld'
  <2>1. CASE UNCHANGED call
    BY <1>1, <2>1, AloneFree DEF Free
  <2>2. ASSUME UNCHANGED persons, NEW c, Calling(w, c),
               c.step = "insertEngagement" => c.person = p /\ PersonInOrg(p),
               c.step \notin {"updateEngagement", "archivePerson"}
        PROVE  ChecksHeld'
    <3>1. ChecksHold(c)'
      BY <2>2 DEF ChecksHold, Archived, PersonInOrg
    <3> QED
      BY <2>2, <3>1, AloneChecked
  <2> QED
    BY <1>2, <2>1, <2>2
<1> QED
  BY <1>1, <1>3, <1>4, SequentialKept DEF Free

LEMMA SequentialContinue ==
  ASSUME PeopleInv, SequentialInv, OneAtATime, NEW w \in Workers, PeopleContinue(w),
         UNCHANGED vars
  PROVE  SequentialInv'
<1>1. ~AtCall(w, "idle") /\ At(w, "idle")
  <2>1. ~AtCall(w, "idle")
    BY Zenon DEF PeopleContinue, UpdatePerson, CountLinked, ArchivePerson, InsertEngagement,
       FindEngagement, UpdateEngagement, FindOldEngagement, ArchiveEngagement, FindDocument,
       ArchiveDocument, Enqueue, DieBeforeEnqueue, RemoveJob, AtCall
  <2> QED
    BY <2>1 DEF SequentialInv, OneStore
<1>2. CASE Returning(w) /\ UNCHANGED <<engagements, persons>>
  <2>1. ChecksHeld' /\ \A p : Archived(p)' => Archived(p)
    BY <1>2, AloneReturned DEF Archived
  <2> QED
    BY <1>1, <1>2, <2>1, SequentialKept
<1>3. CASE ArchiveDocument(w) \/ Enqueue(w) \/ DieBeforeEnqueue(w) \/ RemoveJob(w)
  BY <1>2, <1>3, Zenon
     DEF ArchiveDocument, Enqueue, DieBeforeEnqueue, RemoveJob, peopleTables, linked
<1>4. ASSUME UNCHANGED peopleTables, NEW c, Calling(w, c), ChecksHold(c)
      PROVE  SequentialInv'
  <2>1. UNCHANGED <<engagements, persons, provisioning, grants, requests>>
    BY <1>4 DEF peopleTables, linked, vars
  <2>2. ChecksHold(c)'
    BY <1>4, <2>1 DEF ChecksHold, PatchedDatesOrdered, DatesOrdered, NextDate, JobsOf, NoLinks,
       EngagementsOf, Archived
  <2>3. ChecksHeld' /\ \A p : Archived(p)' => Archived(p)
    BY <1>4, <2>1, <2>2, AloneChecked DEF Archived
  <2> QED
    BY <1>1, <2>1, <2>3, SequentialKept
<1>5. call[w] \in Call
  BY DEF PeopleInv, PeopleTypeOK
<1>6. CASE CountLinked(w)
  <2>1. PICK c : c = [call[w] EXCEPT !.step = "archivePerson"]
    OBVIOUS
  <2>2. c.step = "archivePerson" /\ c.person = call[w].person
    BY <1>5, <2>1 DEF Call
  <2>3. /\ UNCHANGED peopleTables
        /\ \/ Calling(w, c) /\ UnlinkedPerson(call[w].person)
           \/ Returning(w) /\ UNCHANGED <<engagements, persons>>
    BY <1>6, <2>1, Zenon DEF CountLinked, CheckCall, peopleTables, linked
  <2>4. UnlinkedPerson(call[w].person) => ChecksHold(c)
    BY <2>2 DEF ChecksHold, UnlinkedPerson, NoLinks
  <2> QED
    BY <1>2, <1>4, <2>3, <2>4
<1>7. CASE FindEngagement(w)
  <2>1. PICK c : c = [call[w] EXCEPT !.step = "updateEngagement"]
    OBVIOUS
  <2>2. /\ c.step = "updateEngagement" /\ c.id = call[w].id
        /\ c.start = call[w].start /\ c.end = call[w].end
    BY <1>5, <2>1 DEF Call
  <2>3. /\ UNCHANGED peopleTables
        /\ \/ /\ Calling(w, c)
              /\ PatchedDatesOrdered(engagements[call[w].id], call[w].start, call[w].end)
           \/ Returning(w) /\ UNCHANGED <<engagements, persons>>
    BY <1>7, <2>1, Zenon DEF FindEngagement, CheckCall, peopleTables, linked
  <2>4. PatchedDatesOrdered(engagements[call[w].id], call[w].start, call[w].end) => ChecksHold(c)
    BY <2>2 DEF ChecksHold
  <2> QED
    BY <1>2, <1>4, <2>3, <2>4
<1>8. CASE FindOldEngagement(w) \/ FindDocument(w)
  <2>1. PICK engagement, document :
          /\ engagement = [call[w] EXCEPT !.step = "archiveEngagement"]
          /\ document = [call[w] EXCEPT !.step = "archiveDocument"]
    OBVIOUS
  <2>2. ChecksHold(engagement) /\ ChecksHold(document)
    BY <1>5, <2>1 DEF Call, ChecksHold
  <2>3. /\ UNCHANGED peopleTables
        /\ \/ Calling(w, engagement) \/ Calling(w, document)
           \/ Returning(w) /\ UNCHANGED <<engagements, persons>>
    BY <1>8, <2>1, Zenon DEF FindOldEngagement, FindDocument, CheckCall, peopleTables, linked
  <2> QED
    BY <1>2, <1>4, <2>2, <2>3
<1>9. CASE UpdatePerson(w)
  <2>1. PICK p, profile : p = call[w].person /\ profile = call[w].profile
    OBVIOUS
  <2>2. persons' = [persons EXCEPT ![p].profile = profile] /\ Returning(w) /\ UNCHANGED engagements
    BY <1>9, <2>1 DEF UpdatePerson, linked
  <2>3. \A q \in DOMAIN persons : persons[q] \in PersonRow
    BY DEF PeopleInv, PeopleTypeOK
  <2>4. \A q : Archived(q)' => Archived(q)
    BY <2>2, <2>3 DEF Archived, PersonRow
  <2> QED
    BY <1>1, <2>2, <2>4, AloneReturned, SequentialKept
<1>10. CASE ArchivePerson(w)
  <2>1. PICK p : p = call[w].person
    OBVIOUS
  <2>2. NoLinks(p)
    BY <1>10, <2>1 DEF ArchivePerson, AtCall, SequentialInv, ChecksHeld, ChecksHold
  <2>3. /\ persons' = [persons EXCEPT ![p].archived = TRUE]
        /\ Returning(w) /\ UNCHANGED engagements
    BY <1>10, <2>1 DEF ArchivePerson, linked
  <2>4. \A q : Archived(q)' => q = p \/ Archived(q)
    BY <2>3 DEF Archived
  <2>5. \A q : Archived(q)' => NoLinks(q)
    BY <2>2, <2>4 DEF SequentialInv, ArchivedIsClear, Archived, NoLinks
  <2>6. ArchivedIsClear'
    BY <2>3, <2>5 DEF ArchivedIsClear, Archived, NoLinks, EngagementsOf, vars
  <2> QED
    BY <1>1, <2>3, <2>6, DatesKept, AloneReturned, AloneIdle DEF SequentialInv
<1>11. CASE InsertEngagement(w)
  <2>1. /\ CallSound(call[w]) /\ call[w].step = "insertEngagement"
        /\ ~Archived(call[w].person)
    BY <1>11 DEF InsertEngagement, AtCall, PeopleInv, CallsSound, SequentialInv, ChecksHeld,
       ChecksHold
  <2>2. PICK row : row = [person |-> call[w].person, start |-> call[w].start,
                          end |-> call[w].end, archived |-> FALSE]
    OBVIOUS
  <2>3. DatesOrdered(row.start, row.end) /\ ~Archived(row.person)
    BY <2>1, <2>2 DEF CallSound
  <2>4. engagements' = Put(engagements, call[w].id, row) /\ Returning(w) /\ UNCHANGED persons
    BY <1>11, <2>2 DEF InsertEngagement
  <2>5. \A e \in DOMAIN engagements' :
          \/ engagements'[e] = row
          \/ e \in DOMAIN engagements /\ engagements'[e] = engagements[e]
    BY <2>4 DEF Put
  <2>6. EngagementDatesOrdered'
    BY <2>3, <2>5 DEF SequentialInv, EngagementDatesOrdered, DatesOrdered
  <2>7. \A q : Archived(q) => EngagementsOf(q)' \subseteq EngagementsOf(q)
    BY <2>3, <2>5 DEF EngagementsOf
  <2>8. ArchivedIsClear'
    BY <2>4, <2>7 DEF SequentialInv, ArchivedIsClear, Archived, vars
  <2> QED
    BY <1>1, <2>4, <2>6, <2>8, AloneReturned, AloneIdle DEF SequentialInv
<1>12. CASE UpdateEngagement(w) \/ ArchiveEngagement(w)
  <2>1. UpdateEngagement(w) =>
          DatesOrdered(NextDate(call[w].start, engagements[call[w].id].start),
                       NextDate(call[w].end, engagements[call[w].id].end))
    BY DEF SequentialInv, ChecksHeld, ChecksHold, PatchedDatesOrdered, UpdateEngagement, AtCall
  <2>2. call[w].id \in DOMAIN engagements
    BY <1>12 DEF PeopleInv, CallsSound, CallSound, UpdateEngagement, ArchiveEngagement, AtCall
  <2>3. DatesOrdered(engagements'[call[w].id].start, engagements'[call[w].id].end)
    BY <1>12, <2>1, <2>2, WriteEngagementStep DEF SequentialInv, EngagementDatesOrdered
  <2>4. EngagementDatesOrdered'
    BY <1>12, <2>3, WriteEngagementStep DEF SequentialInv, EngagementDatesOrdered, DatesOrdered
  <2>5. Returning(w) /\ UNCHANGED persons
    BY <1>12 DEF UpdateEngagement, ArchiveEngagement
  <2>6. \A q : EngagementsOf(q)' \subseteq EngagementsOf(q)
    BY <1>12, <2>2, WriteEngagementStep DEF EngagementsOf
  <2>7. ArchivedIsClear'
    BY <2>5, <2>6, ClearKept DEF SequentialInv, Archived
  <2> QED
    BY <1>1, <2>4, <2>5, <2>7, AloneReturned, AloneIdle DEF SequentialInv
<1> QED
  BY <1>3, <1>6, <1>7, <1>8, <1>9, <1>10, <1>11, <1>12 DEF PeopleContinue

-----------------------------------------------------------------------------
(* Handlers of equity: whoever they link was there when they began, and     *)
(* nobody has been archived since.                                          *)

LEMMA WritesGrant ==
  ASSUME NEW w \in Workers, ExerciseStep(w) \/ AdminStep(w)
  PROVE  UNCHANGED grants \/ CommitGrant(w) \/ CommitUpdate(w) \/ CommitDelete(w)
<1>1. CASE ExerciseStep(w)
  BY <1>1 DEF ExerciseStep, StartTermination, InsertTermination, StartExerciseRequest,
     CheckExerciseWindow, CheckExercisable, InsertRequest, StartApprove, StartDecline,
     StartCancel, StartDecision, Approve, Decline, Cancel, WriteDecision, StartCompletion,
     CheckCompletionWindow, CheckAvailable, ReadCompletionSequence, CommitCompletion,
     OtherThanRequests, tables
<1>2. CASE AdminStep(w)
  <2>1. /\ \A p, q : CreatePlan(w, p, q) \/ StartUpdatePlan(w, p, q) => UNCHANGED grants
        /\ UpdatePlan(w) => UNCHANGED grants
        /\ \A S : UpdateCapTablePools(w, S) => UNCHANGED grants
    BY DEF CreatePlan, StartUpdatePlan, UpdatePlan, UpdateCapTablePools, tables
  <2>2. /\ \A row : StartCreateGrant(w, row) => UNCHANGED grants
        /\ ReadGrantPlan(w) \/ CheckGrantCapacity(w) \/ ReadGrantSequence(w)
             => UNCHANGED grants
    BY DEF StartCreateGrant, ReadGrantPlan, CheckGrantCapacity, ReadGrantSequence, tables
  <2>3. /\ \A g, row : StartUpdateGrant(w, g, row) => UNCHANGED grants
        /\ ReadUpdatePlan(w) \/ CheckUpdateCapacity(w) => UNCHANGED grants
        /\ \A g : StartDeleteGrant(w, g) => UNCHANGED grants
    BY DEF StartUpdateGrant, ReadUpdatePlan, CheckUpdateCapacity, StartDeleteGrant, tables
  <2>4. /\ \A e : StartTransaction(w, e) => UNCHANGED grants
        /\ CheckBalance(w) \/ ReadEntrySequence(w) \/ InsertEntry(w) => UNCHANGED grants
    BY DEF StartTransaction, CheckBalance, ReadEntrySequence, InsertEntry, tables
  <2> QED
    BY <1>2, <2>1, <2>2, <2>3, <2>4 DEF AdminStep
<1> QED
  BY <1>1, <1>2

LEMMA WritesRequest ==
  ASSUME NEW w \in Workers, ExerciseStep(w) \/ AdminStep(w)
  PROVE  \/ UNCHANGED requests
         \/ InsertRequest(w) \/ Approve(w) \/ Decline(w) \/ Cancel(w) \/ CommitCompletion(w)
<1>1. CASE ExerciseStep(w)
  BY <1>1 DEF ExerciseStep, StartTermination, InsertTermination, StartExerciseRequest,
     CheckExerciseWindow, CheckExercisable, StartApprove, StartDecline,
     StartCancel, StartDecision, StartCompletion,
     CheckCompletionWindow, CheckAvailable, ReadCompletionSequence, tables
<1>2. CASE AdminStep(w)
  <2>1. /\ \A p, q : CreatePlan(w, p, q) \/ StartUpdatePlan(w, p, q) => UNCHANGED requests
        /\ UpdatePlan(w) => UNCHANGED requests
        /\ \A S : UpdateCapTablePools(w, S) => UNCHANGED requests
    BY DEF CreatePlan, StartUpdatePlan, UpdatePlan, UpdateCapTablePools, tables
  <2>2. /\ \A row : StartCreateGrant(w, row) => UNCHANGED requests
        /\ ReadGrantPlan(w) \/ CheckGrantCapacity(w) \/ ReadGrantSequence(w) \/ CommitGrant(w)
             => UNCHANGED requests
    BY DEF StartCreateGrant, ReadGrantPlan, CheckGrantCapacity, ReadGrantSequence, CommitGrant,
       tables
  <2>3. /\ \A g, row : StartUpdateGrant(w, g, row) => UNCHANGED requests
        /\ ReadUpdatePlan(w) \/ CheckUpdateCapacity(w) \/ CommitUpdate(w) => UNCHANGED requests
        /\ \A g : StartDeleteGrant(w, g) => UNCHANGED requests
        /\ CommitDelete(w) => UNCHANGED requests
    BY DEF StartUpdateGrant, ReadUpdatePlan, CheckUpdateCapacity, CommitUpdate, StartDeleteGrant,
       CommitDelete, tables
  <2>4. /\ \A e : StartTransaction(w, e) => UNCHANGED requests
        /\ CheckBalance(w) \/ ReadEntrySequence(w) \/ InsertEntry(w) => UNCHANGED requests
    BY DEF StartTransaction, CheckBalance, ReadEntrySequence, InsertEntry, tables
  <2> QED
    BY <1>2, <2>1, <2>2, <2>3, <2>4 DEF AdminStep
<1> QED
  BY <1>1, <1>2

\* Every row of grants is an old one or the one the handler remembers.
LEMMA GrantsComeFrom ==
  ASSUME NEW w \in Workers, ExerciseStep(w) \/ AdminStep(w), NEW g \in DOMAIN grants'
  PROVE  \/ g \in DOMAIN grants /\ grants'[g] = grants[g]
         \/ job[w].step \in LinkSteps /\ grants'[g] = job[w].row
<1> USE DEF LinkSteps, GrantSteps, UpdateSteps
<1>1. CASE UNCHANGED grants
  BY <1>1
<1>2. CASE CommitGrant(w)
  <2>1. job[w].step \in LinkSteps
    BY <1>2 DEF CommitGrant, At
  <2>2. CASE UNCHANGED grants
    BY <2>2
  <2>3. CASE \E new \in Grants : grants' = Put(grants, new, job[w].row)
    BY <2>1, <2>3 DEF Put
  <2> QED
    BY <1>2, <2>2, <2>3, Zenon DEF CommitGrant
<1>3. CASE CommitUpdate(w)
  BY <1>3 DEF CommitUpdate, At
<1>4. CASE CommitDelete(w)
  BY <1>4 DEF CommitDelete, Restrict
<1> QED
  BY <1>1, <1>2, <1>3, <1>4, WritesGrant

\* Every request is of the person of an old one, or of the grant the handler read.
LEMMA RequestsComeFrom ==
  ASSUME IInv, NEW w \in Workers, ExerciseStep(w) \/ AdminStep(w), NEW r \in DOMAIN requests'
  PROVE  \/ r \in DOMAIN requests /\ requests'[r].person = requests[r].person
         \/ job[w].step \in LinkSteps /\ requests'[r].person = job[w].row.person
<1>0. Sound(job[w]) /\ \A q \in DOMAIN requests : requests[q] \in RequestRow
  BY SoundWorker DEF IInv, TypeOK
<1>1. CASE UNCHANGED requests
  BY <1>1
<1>2. CASE InsertRequest(w)
  <2>1. job[w].step \in LinkSteps
    BY <1>2 DEF InsertRequest, At, LinkSteps, ExerciseSteps
  <2>2. CASE UNCHANGED requests
    BY <2>2
  <2>3. CASE \E new \in Requests :
               requests' = Put(requests, new, NewRequest(job[w].grant, job[w].row, job[w].qty))
    BY <2>1, <2>3 DEF Put, NewRequest
  <2> QED
    BY <1>2, <2>2, <2>3, Zenon DEF InsertRequest
<1>3. ASSUME NEW row \in RequestRow, row.person = requests[job[w].request].person,
             job[w].request \in DOMAIN requests,
             requests' = [requests EXCEPT ![job[w].request] = row]
      PROVE  r \in DOMAIN requests /\ requests'[r].person = requests[r].person
  BY <1>3
<1>4. CASE Approve(w) \/ Decline(w) \/ Cancel(w)
  <2>1. job[w].request \in DOMAIN requests
    BY <1>0, <1>4 DEF Approve, Decline, Cancel, WriteDecision, At, Sound, DecisionSteps
  <2>2. requests[job[w].request] \in RequestRow
    BY <1>0, <2>1
  <2>3. PICK row :
          /\ requests' = [requests EXCEPT ![job[w].request] = row]
          /\ \/ row = [requests[job[w].request] EXCEPT !.status = "APPROVED", !.approvedAt = TRUE]
             \/ row = [requests[job[w].request] EXCEPT !.status = "DECLINED"]
             \/ row = [requests[job[w].request] EXCEPT !.status = "CANCELED"]
    BY <1>4, Zenon DEF Approve, Decline, Cancel, WriteDecision
  <2>4. row \in RequestRow /\ row.person = requests[job[w].request].person
    BY <2>2, <2>3 DEF RequestRow, RequestStatus
  <2> QED
    BY <1>3, <2>1, <2>3, <2>4
<1>5. CASE CommitCompletion(w)
  <2>1. job[w].request \in DOMAIN requests
    BY <1>0, <1>5 DEF CommitCompletion, At, Sound, CompletionSteps
  <2>2. CASE CompletionWrites(job[w])
    BY <1>0, <2>1, <2>2 DEF CompletionWrites, RequestRow
  <2>3. CASE UNCHANGED requests
    BY <2>3
  <2> QED
    BY <1>5, <2>2, <2>3 DEF CommitCompletion, CompletionRolledBack
<1> QED
  BY <1>1, <1>2, <1>4, <1>5, WritesRequest

\* Where the row comes from that a handler remembers.
RowComesFrom(w) ==
  \/ job'[w].step \notin LinkSteps
  \/ job[w].step \in LinkSteps /\ job'[w].row = job[w].row
  \/ \E g \in DOMAIN grants : job'[w].row = grants[g]
  \/ At(w, "idle") /\ job'[w].step \in {"grantPlan", "regrantPlan"}

LEMMA JobGoesOn ==
  ASSUME IInv, NEW w \in Workers
  PROVE  /\ \A j : Continue(w, j) => job'[w] = j
         /\ Finish(w) => RowComesFrom(w)
         /\ \A h, j : Begin(w, h, j) => job'[w] = j /\ At(w, "idle")
         /\ UNCHANGED job /\ At(w, "idle") => RowComesFrom(w)
<1>1. job \in [Workers -> Job]
  BY DEF IInv, TypeOK
<1>2. "idle" \notin LinkSteps /\ NoJob.step = "idle"
  BY DEF LinkSteps, ExerciseSteps, GrantSteps, UpdateSteps, NoJob
<1> QED
  BY <1>1, <1>2 DEF Continue, Finish, Begin, RowComesFrom, At

\* A handler that goes on with the row it has, or returns.
LEMMA RowKept ==
  ASSUME IInv, NEW w \in Workers, job[w].step \in LinkSteps, NEW j, j.row = job[w].row,
         Continue(w, j) \/ Finish(w)
  PROVE  RowComesFrom(w)
BY JobGoesOn DEF RowComesFrom

\* A handler that goes on to a step which links nobody, or returns.
LEMMA RowUnused ==
  ASSUME IInv, NEW w \in Workers, NEW j, j.step \notin LinkSteps,
         Continue(w, j) \/ Finish(w) \/ \E h : Begin(w, h, j)
  PROVE  RowComesFrom(w)
BY JobGoesOn DEF RowComesFrom

LEMMA ExerciseRows ==
  ASSUME IInv, NEW w \in Workers, ExerciseStep(w)
  PROVE  RowComesFrom(w)
<1>0. job[w] \in Job
  BY SoundWorker
<1>1. CASE \E g \in Grants, at \in 0..LastMonth : StartTermination(w, g, at)
  <2>1. PICK g \in Grants, at \in 0..LastMonth : StartTermination(w, g, at)
    BY <1>1
  <2>2. PICK j : j = [NoJob EXCEPT !.step = "insertTermination", !.grant = g,
                                   !.row = grants[g], !.asOf = at]
    OBVIOUS
  <2>3. j.step \notin LinkSteps
    BY <2>2 DEF NoJob, LinkSteps, ExerciseSteps, GrantSteps, UpdateSteps
  <2>4. Begin(w, "recordTermination", j)
    BY <2>1, <2>2 DEF StartTermination
  <2> QED
    BY <2>3, <2>4, RowUnused
<1>2. CASE \E g \in Grants, q \in Quantities : StartExerciseRequest(w, g, q)
  <2>1. PICK g \in Grants, q \in Quantities : StartExerciseRequest(w, g, q)
    BY <1>2
  <2>2. PICK j : j = [NoJob EXCEPT !.step = "exerciseWindow", !.grant = g,
                                   !.row = grants[g], !.qty = q]
    OBVIOUS
  <2>3. j.row = grants[g]
    BY <2>2 DEF NoJob
  <2>4. Begin(w, "createExerciseRequest", j) /\ g \in DOMAIN grants
    BY <2>1, <2>2 DEF StartExerciseRequest
  <2> QED
    BY <2>3, <2>4, JobGoesOn DEF RowComesFrom
<1>3. CASE CheckExerciseWindow(w) \/ CheckExercisable(w)
  <2>1. job[w].step \in LinkSteps
    BY <1>3 DEF CheckExerciseWindow, CheckExercisable, At, LinkSteps, ExerciseSteps
  <2>2. PICK window, exercisable :
          /\ window = [job[w] EXCEPT !.step = "exerciseQuantity", !.asOf = now]
          /\ exercisable = [job[w] EXCEPT !.step = "insertRequest"]
    OBVIOUS
  <2>3. window.row = job[w].row /\ exercisable.row = job[w].row
    BY <1>0, <2>2 DEF Job
  <2>4. Continue(w, window) \/ Continue(w, exercisable) \/ Finish(w)
    BY <1>3, <2>2, Zenon DEF CheckExerciseWindow, CheckExercisable, Check
  <2> QED
    BY <2>1, <2>3, <2>4, RowKept
<1>4. CASE InsertTermination(w) \/ InsertRequest(w) \/ Approve(w) \/ Decline(w) \/ Cancel(w)
           \/ CommitCompletion(w)
  <2>1. Finish(w)
    BY <1>4, Zenon DEF InsertTermination, InsertRequest, Approve, Decline, Cancel, WriteDecision,
       CommitCompletion
  <2> QED
    BY <2>1, JobGoesOn
<1>5. CASE \E r \in Requests : StartApprove(w, r) \/ StartDecline(w, r) \/ StartCancel(w, r)
  <2>1. PICK r \in Requests, h \in DecisionSteps,
             allowed \in {{"SUBMITTED"}, {"SUBMITTED", "APPROVED"}} :
               StartDecision(w, r, h, allowed)
    BY <1>5 DEF StartApprove, StartDecline, StartCancel, DecisionSteps
  <2>2. PICK j : j = [NoJob EXCEPT !.step = h, !.request = r]
    OBVIOUS
  <2>3. j.step \notin LinkSteps
    BY <2>2 DEF NoJob, LinkSteps, ExerciseSteps, GrantSteps, UpdateSteps, DecisionSteps
  <2>4. Begin(w, h, j)
    BY <2>1, <2>2 DEF StartDecision
  <2> QED
    BY <2>3, <2>4, RowUnused
<1>6. CASE \E r \in Requests : StartCompletion(w, r)
  <2>1. PICK r \in Requests : StartCompletion(w, r)
    BY <1>6
  <2>2. PICK j : j = [NoJob EXCEPT !.step = "completeWindow", !.request = r,
                                   !.grant = requests[r].grant,
                                   !.row = grants[requests[r].grant]]
    OBVIOUS
  <2>3. j.step \notin LinkSteps
    BY <2>2 DEF NoJob, LinkSteps, ExerciseSteps, GrantSteps, UpdateSteps
  <2>4. Begin(w, "complete", j)
    BY <2>1, <2>2 DEF StartCompletion
  <2> QED
    BY <2>3, <2>4, RowUnused
<1>7. CASE CheckCompletionWindow(w) \/ CheckAvailable(w) \/ ReadCompletionSequence(w)
  <2>1. PICK window, available, sequence :
          /\ window = [job[w] EXCEPT !.step = "completeQuantity", !.asOf = now]
          /\ available = [job[w] EXCEPT !.step = "completeSequence"]
          /\ sequence = [job[w] EXCEPT !.step = "commitCompletion", !.seq = NextSequence]
    OBVIOUS
  <2>2. {window.step, available.step, sequence.step} \cap LinkSteps = {}
    BY <1>0, <2>1 DEF Job, LinkSteps, ExerciseSteps, GrantSteps, UpdateSteps
  <2>3. Continue(w, window) \/ Continue(w, available) \/ Continue(w, sequence) \/ Finish(w)
    BY <1>7, <2>1, Zenon DEF CheckCompletionWindow, CheckAvailable, ReadCompletionSequence, Check
  <2>4. window.step \notin LinkSteps /\ available.step \notin LinkSteps
        /\ sequence.step \notin LinkSteps
    BY <2>2
  <2> QED
    BY <2>3, <2>4, RowUnused
<1> QED
  BY <1>1, <1>2, <1>3, <1>4, <1>5, <1>6, <1>7 DEF ExerciseStep

LEMMA AdminRows ==
  ASSUME IInv, NEW w \in Workers, AdminStep(w)
  PROVE  RowComesFrom(w)
<1>0. job[w] \in Job
  BY SoundWorker
<1>1. CASE \/ \E p \in Plans, q \in Quantities : CreatePlan(w, p, q)
           \/ \E S \in SUBSET Plans : UpdateCapTablePools(w, S)
  BY <1>1, JobGoesOn DEF CreatePlan, UpdateCapTablePools, At
<1>2. CASE \E p \in Plans, q \in Quantities : StartUpdatePlan(w, p, q)
  <2>1. PICK p \in Plans, q \in Quantities : StartUpdatePlan(w, p, q)
    BY <1>2
  <2>2. PICK j : j = [NoJob EXCEPT !.step = "updatePlan", !.plan = p, !.qty = q]
    OBVIOUS
  <2>3. j.step \notin LinkSteps
    BY <2>2 DEF NoJob, LinkSteps, ExerciseSteps, GrantSteps, UpdateSteps
  <2>4. Begin(w, "updatePlan", j)
    BY <2>1, <2>2 DEF StartUpdatePlan
  <2> QED
    BY <2>3, <2>4, RowUnused
<1>3. CASE UpdatePlan(w) \/ CommitGrant(w) \/ CommitUpdate(w) \/ CommitDelete(w) \/ InsertEntry(w)
  <2>1. Finish(w)
    BY <1>3, Zenon DEF UpdatePlan, CommitGrant, CommitUpdate, CommitDelete, InsertEntry
  <2> QED
    BY <2>1, JobGoesOn
<1>4. CASE \E row \in GrantRow : StartCreateGrant(w, row)
  <2>1. PICK row \in GrantRow : StartCreateGrant(w, row)
    BY <1>4
  <2>2. PICK j : j = [NoJob EXCEPT !.step = "grantPlan", !.row = row]
    OBVIOUS
  <2>3. j.step = "grantPlan"
    BY <2>2 DEF NoJob
  <2>4. Begin(w, "createGrant", j)
    BY <2>1, <2>2 DEF StartCreateGrant
  <2> QED
    BY <2>3, <2>4, JobGoesOn DEF RowComesFrom
<1>5. CASE \E g \in Grants, row \in GrantRow : StartUpdateGrant(w, g, row)
  <2>1. PICK g \in Grants, row \in GrantRow : StartUpdateGrant(w, g, row)
    BY <1>5
  <2>2. PICK j : j = [NoJob EXCEPT !.step = "regrantPlan", !.grant = g, !.row = row]
    OBVIOUS
  <2>3. j.step = "regrantPlan"
    BY <2>2 DEF NoJob
  <2>4. Begin(w, "updateGrant", j)
    BY <2>1, <2>2 DEF StartUpdateGrant
  <2> QED
    BY <2>3, <2>4, JobGoesOn DEF RowComesFrom
<1>6. CASE ReadGrantPlan(w) \/ CheckGrantCapacity(w) \/ ReadGrantSequence(w)
           \/ ReadUpdatePlan(w) \/ CheckUpdateCapacity(w)
  <2>1. job[w].step \in LinkSteps
    BY <1>6 DEF ReadGrantPlan, CheckGrantCapacity, ReadGrantSequence, ReadUpdatePlan,
       CheckUpdateCapacity, At, LinkSteps, GrantSteps, UpdateSteps
  <2>2. PICK plan, capacity, sequence, replan, recapacity :
          /\ plan = [job[w] EXCEPT !.step = "grantCapacity", !.qty = plans[job[w].row.plan]]
          /\ capacity = [job[w] EXCEPT !.step = "grantSequence"]
          /\ sequence = [job[w] EXCEPT !.step = "commitGrant", !.seq = NextSequence]
          /\ replan = [job[w] EXCEPT !.step = "regrantCapacity", !.qty = plans[job[w].row.plan]]
          /\ recapacity = [job[w] EXCEPT !.step = "commitRegrant"]
    OBVIOUS
  <2>3. /\ plan.row = job[w].row /\ capacity.row = job[w].row /\ sequence.row = job[w].row
        /\ replan.row = job[w].row /\ recapacity.row = job[w].row
    BY <1>0, <2>2 DEF Job
  <2>4. \/ Continue(w, plan) \/ Continue(w, capacity) \/ Continue(w, sequence)
        \/ Continue(w, replan) \/ Continue(w, recapacity) \/ Finish(w)
    BY <1>6, <2>2, Zenon DEF ReadGrantPlan, CheckGrantCapacity, ReadGrantSequence, ReadUpdatePlan,
       CheckUpdateCapacity, Check
  <2> QED
    BY <2>1, <2>3, <2>4, RowKept
<1>7. CASE \E g \in Grants : StartDeleteGrant(w, g)
  <2>1. PICK g \in Grants : StartDeleteGrant(w, g)
    BY <1>7
  <2>2. PICK j : j = [NoJob EXCEPT !.step = "commitDelete", !.grant = g]
    OBVIOUS
  <2>3. j.step \notin LinkSteps
    BY <2>2 DEF NoJob, LinkSteps, ExerciseSteps, GrantSteps, UpdateSteps
  <2>4. Begin(w, "deleteGrant", j)
    BY <2>1, <2>2 DEF StartDeleteGrant
  <2> QED
    BY <2>3, <2>4, RowUnused
<1>8. ASSUME NEW e, StartTransaction(w, e)
      PROVE  RowComesFrom(w)
  <2>1. PICK step \in {"received", "entrySequence"} :
          Begin(w, "createTransaction", [NoJob EXCEPT !.step = step, !.entry = e])
    BY <1>8, Zenon DEF StartTransaction
  <2>2. PICK j : j = [NoJob EXCEPT !.step = step, !.entry = e]
    OBVIOUS
  <2>3. j.step \notin LinkSteps
    BY <2>2 DEF NoJob, LinkSteps, ExerciseSteps, GrantSteps, UpdateSteps
  <2> QED
    BY <2>1, <2>2, <2>3, RowUnused
<1>9. CASE CheckBalance(w) \/ ReadEntrySequence(w)
  <2>1. PICK balance, sequence :
          /\ balance = [job[w] EXCEPT !.step = "entrySequence"]
          /\ sequence = [job[w] EXCEPT !.step = "insertEntry", !.seq = NextSequence]
    OBVIOUS
  <2>2. balance.step \notin LinkSteps /\ sequence.step \notin LinkSteps
    BY <1>0, <2>1 DEF Job, LinkSteps, ExerciseSteps, GrantSteps, UpdateSteps
  <2>3. Continue(w, balance) \/ Continue(w, sequence) \/ Finish(w)
    BY <1>9, <2>1, Zenon DEF CheckBalance, ReadEntrySequence, Check
  <2> QED
    BY <2>2, <2>3, RowUnused
<1> QED
  BY <1>1, <1>2, <1>3, <1>4, <1>5, <1>6, <1>7, <1>8, <1>9 DEF AdminStep

LEMMA SequentialEquity ==
  ASSUME IInv, PeopleInv, SequentialInv, OneAtATime, NEW w \in Workers, EquityStep(w)
  PROVE  SequentialInv'
<1>1. /\ AtCall(w, "idle") /\ PeopleEnsured(w)
      /\ ExerciseStep(w) \/ AdminStep(w)
      /\ UNCHANGED <<persons, engagements, call>>
  BY DEF EquityStep, peopleVars
<1>2. /\ JobLinks(job[w])
      /\ \A g \in DOMAIN grants : ~Archived(grants[g].person)
      /\ \A r \in DOMAIN requests : ~Archived(requests[r].person)
  BY DEF SequentialInv, RowsLinked, ArchivedIsClear, Archived
<1>3. OneStore' /\ ChecksHeld' /\ EngagementDatesOrdered'
  <2>1. OneStore'
    BY <1>1 DEF OneStore, AtCall, OneAtATime
  <2> QED
    BY <1>1, <2>1, AloneFree, DatesKept DEF SequentialInv
<1>4. \A g \in DOMAIN grants' : ~Archived(grants'[g].person)
  BY <1>1, <1>2, GrantsComeFrom DEF JobLinks
<1>5. \A r \in DOMAIN requests' : ~Archived(requests'[r].person)
  BY <1>1, <1>2, RequestsComeFrom DEF JobLinks
<1>6. ArchivedIsClear'
  BY <1>1, <1>4, <1>5 DEF SequentialInv, ArchivedIsClear, Archived, EngagementsOf
<1>7. job'[w].step \in LinkSteps => ~Archived(job'[w].row.person)
  <2>1. RowComesFrom(w)
    BY <1>1, ExerciseRows, AdminRows
  <2>2. At(w, "idle") /\ job'[w].step \in {"grantPlan", "regrantPlan"}
          => ~Archived(job'[w].row.person)
    BY <1>1 DEF PeopleEnsured, GrantPersonInOrg, PersonInOrg, Archived
  <2> QED
    BY <1>2, <2>1, <2>2 DEF RowComesFrom, JobLinks
<1>8. RowsLinked'
  BY <1>1, <1>7 DEF RowsLinked, JobLinks, OneAtATime, Archived
<1> QED
  BY <1>3, <1>6, <1>8 DEF SequentialInv

-----------------------------------------------------------------------------
(* The theorems for one handler at a time *)

LEMMA SequentialUnchanged ==
  ASSUME SequentialInv, UNCHANGED <<persons, engagements, provisioning, call, grants, requests, job>>
  PROVE  SequentialInv'
BY DEF SequentialInv, EngagementDatesOrdered, ArchivedIsClear, OneStore, ChecksHeld, RowsLinked,
   ChecksHold, JobLinks, PatchedDatesOrdered, DatesOrdered, NextDate, JobsOf, NoLinks,
   EngagementsOf, Archived, At, AtCall

LEMMA SequentialNextInv ==
  ASSUME IInv, PeopleInv, SequentialInv, OneAtATime, [OrganizationNext]_organizationVars
  PROVE  IInv' /\ SequentialInv'
<1>1. CASE \E w \in Workers : EquityStep(w)
  BY <1>1, SequentialEquity, WorkerStep DEF EquityStep
<1>2. CASE \E w \in Workers : PeopleStepOf(w)
  <2>1. PICK w \in Workers : PeopleStepOf(w)
    BY <1>2
  <2>2. UNCHANGED vars /\ IInv'
    BY <2>1, OtherSteps DEF PeopleStepOf
  <2>3. CASE \E p \in Persons : PersonStart(w, p)
    BY <2>2, <2>3, SequentialStart
  <2>4. CASE \E d \in PersonDocuments, p \in Persons \cup {None} : CreatePersonDocument(w, d, p)
    BY <2>2, <2>4, SequentialUnchanged DEF CreatePersonDocument, vars
  <2>5. CASE PeopleContinue(w)
    BY <2>2, <2>5, SequentialContinue
  <2> QED
    BY <2>1, <2>3, <2>4, <2>5 DEF PeopleStepOf
<1>3. CASE HandleJob /\ UNCHANGED vars
  BY <1>3, SequentialUnchanged, OtherSteps DEF HandleJob, vars
<1>4. CASE Tick /\ UNCHANGED peopleVars
  BY <1>4, SequentialUnchanged, OtherSteps DEF Tick, tables, peopleVars
<1>5. CASE UNCHANGED organizationVars
  BY <1>5, SequentialUnchanged, OtherSteps DEF organizationVars, vars, peopleVars
<1> QED
  BY <1>1, <1>2, <1>3, <1>4, <1>5 DEF OrganizationNext, OrganizationQuiescent

LEMMA SequentialInvariant ==
  ASSUME OneAtATime
  PROVE  OrganizationSpec => [](IInv /\ PeopleInv /\ SequentialInv)
<1>1. OrganizationInit => IInv /\ PeopleInv /\ SequentialInv
  <2> SUFFICES ASSUME OrganizationInit PROVE IInv /\ PeopleInv /\ SequentialInv
    OBVIOUS
  <2>1. /\ persons = <<>> /\ engagements = <<>>
        /\ call = [w \in Workers |-> NoCall] /\ job = [w \in Workers |-> NoJob]
    BY DEF OrganizationInit, PeopleInit, Init
  <2>2. NoJob.step = "idle" /\ "idle" \notin LinkSteps
    BY DEF NoJob, LinkSteps, ExerciseSteps, GrantSteps, UpdateSteps
  <2>3. SequentialInv
    BY <2>1, <2>2, NoCallSound
       DEF SequentialInv, EngagementDatesOrdered, ArchivedIsClear, OneStore, ChecksHeld,
           RowsLinked, ChecksHold, JobLinks, At, AtCall
  <2> QED
    BY <2>3, PeopleInitInv, InitInv DEF OrganizationInit
<1>2. IInv /\ PeopleInv /\ SequentialInv /\ [OrganizationNext]_organizationVars
        => (IInv /\ PeopleInv /\ SequentialInv)'
  BY PeopleNextInv, SequentialNextInv
<1> QED
  BY <1>1, <1>2, PTL DEF OrganizationSpec

\* With one handler at a time, patches of one date at a time never cross the dates of
\* an engagement: updatePersonEngagement compares what the row will hold.
THEOREM DatesStayOrdered ==
  ASSUME OneAtATime
  PROVE  OrganizationSpec => []EngagementDatesOrdered
<1>1. IInv /\ PeopleInv /\ SequentialInv => EngagementDatesOrdered
  BY DEF SequentialInv
<1> QED
  BY <1>1, SequentialInvariant, PTL

\* With one handler at a time, nothing that was counted or asked for stays linked to
\* an archived person: deletePerson, createGrant, updateGrant, createExerciseRequest
\* and createEngagement between them leave no way.
THEOREM ArchivedStaysClear ==
  ASSUME OneAtATime
  PROVE  OrganizationSpec => []ArchivedIsClear
<1>1. IInv /\ PeopleInv /\ SequentialInv => ArchivedIsClear
  BY DEF SequentialInv
<1> QED
  BY <1>1, SequentialInvariant, PTL

-----------------------------------------------------------------------------
(* A provisioning job pins its person *)

LEMMA PersonStartWrites ==
  ASSUME PeopleInv, NEW w \in Workers, NEW p \in Persons, PersonStart(w, p)
  PROVE  /\ UNCHANGED provisioning \/ \E i \in ProvisioningJobs : InsertJob(w, i, p)
         /\ UNCHANGED persons \/ \E profile \in Profiles : CreatePerson(w, p, profile)
BY Zenon DEF PersonStart, CreatePerson, StartUpdatePerson, StartDeletePerson,
   StartCreateEngagement, StartUpdateEngagement, StartRemoveEngagement, StartOnPerson,
   RequestSignature, StartArchiveDocument, InsertJob, StartRemoveJob, peopleTables, linked

LEMMA ContinueWrites ==
  ASSUME PeopleInv, NEW w \in Workers, PeopleContinue(w)
  PROVE  /\ UNCHANGED provisioning
         /\ UNCHANGED persons \/ UpdatePerson(w) \/ ArchivePerson(w)
<1>1. RemoveJob(w) => UNCHANGED <<persons, provisioning>>
  BY RemoveJobStep DEF peopleTables, linked
<1> QED
  BY <1>1, Zenon DEF PeopleContinue, UpdatePerson, CountLinked, ArchivePerson, InsertEngagement,
     FindEngagement, UpdateEngagement, FindOldEngagement, ArchiveEngagement, FindDocument,
     ArchiveDocument, Enqueue, DieBeforeEnqueue, peopleTables, linked

\* Under any interleaving no job goes or changes.
LEMMA JobsStay ==
  ASSUME PeopleInv, [OrganizationNext]_organizationVars
  PROVE  \A i \in DOMAIN provisioning :
           i \in DOMAIN provisioning' /\ provisioning'[i] = provisioning[i]
<1>1. CASE UNCHANGED provisioning
  BY <1>1
<1>2. CASE \E w \in Workers, p \in Persons, i \in ProvisioningJobs : InsertJob(w, i, p)
  BY <1>2, InsertJobStep
<1>3. CASE \E w \in Workers : PeopleStepOf(w)
  BY <1>1, <1>2, <1>3, PersonStartWrites, ContinueWrites DEF PeopleStepOf, CreatePersonDocument
<1> QED
  BY <1>1, <1>3
     DEF OrganizationNext, EquityStep, HandleJob, OrganizationQuiescent, organizationVars,
         peopleVars

LEMMA PersonsStay ==
  ASSUME PeopleInv, SequentialInv, [OrganizationNext]_organizationVars,
         NEW p \in DOMAIN persons, JobsOf(p) # {}
  PROVE  persons'[p].archived = persons[p].archived
<1>0. \A q \in DOMAIN persons : persons[q] \in PersonRow
  BY DEF PeopleInv, PeopleTypeOK
<1>1. CASE UNCHANGED persons
  BY <1>1
<1>2. CASE \E w \in Workers, q \in Persons, profile \in Profiles : CreatePerson(w, q, profile)
  BY <1>2, CreatePersonStep
<1>3. CASE \E w \in Workers : UpdatePerson(w)
  <2>1. PICK q, profile : persons' = [persons EXCEPT ![q].profile = profile]
    BY <1>3 DEF UpdatePerson
  <2> QED
    BY <1>0, <2>1 DEF PersonRow
<1>4. CASE \E w \in Workers : ArchivePerson(w)
  <2>1. PICK w \in Workers : ArchivePerson(w)
    BY <1>4
  <2>2. call[w].person # p
    BY <2>1 DEF ArchivePerson, AtCall, SequentialInv, ChecksHeld, ChecksHold
  <2>3. PICK q : q = call[w].person /\ persons' = [persons EXCEPT ![q].archived = TRUE]
    BY <2>1 DEF ArchivePerson
  <2> QED
    BY <2>2, <2>3
<1>5. CASE \E w \in Workers : PeopleStepOf(w)
  BY <1>1, <1>2, <1>3, <1>4, <1>5, PersonStartWrites, ContinueWrites
     DEF PeopleStepOf, CreatePersonDocument
<1> QED
  BY <1>1, <1>5
     DEF OrganizationNext, EquityStep, HandleJob, OrganizationQuiescent, organizationVars,
         peopleVars

\* With one handler at a time, a person with a provisioning job keeps one, and is
\* neither archived nor brought back.
THEOREM PersonKept ==
  ASSUME OneAtATime
  PROVE  OrganizationSpec => JobKeepsPerson
<1> DEFINE Inv == IInv /\ PeopleInv /\ SequentialInv
           Kept == \A p \in DOMAIN persons : JobsOf(p) # {} =>
                     JobsOf(p)' # {} /\ persons'[p].archived = persons[p].archived
<1>1. ASSUME Inv, [OrganizationNext]_organizationVars PROVE Kept
  <2> SUFFICES ASSUME NEW p \in DOMAIN persons, JobsOf(p) # {}
               PROVE  JobsOf(p)' # {} /\ persons'[p].archived = persons[p].archived
    OBVIOUS
  <2>1. JobsOf(p)' # {}
    BY <1>1, JobsStay DEF JobsOf
  <2> QED
    BY <1>1, <2>1, PersonsStay
<1>2. OrganizationSpec => []Inv
  BY SequentialInvariant
<1> QED
  BY <1>1, <1>2, PTL DEF OrganizationSpec, JobKeepsPerson
==============================================================================
