------------------------- MODULE OrganizationSystem -------------------------
(***************************************************************************)
(* People and equity over one database: the equity handlers name people,   *)
(* and a person goes only when nothing is linked to them.                  *)
(***************************************************************************)
EXTENDS EquitySystem, PeopleAdmin

organizationVars == <<vars, peopleVars>>

\* Mutant: the person of a grant only has to exist.
GrantPersonExists(p) == p \in DOMAIN persons

GrantPersonInOrg(p) == PersonInOrg(p)

\* ensurePersonInOrg, awaited by createGrant, updateGrant and createTransaction
\* before anything else they read; GrantAdmin leaves people out.
PeopleEnsured(w) ==
  LET j == job'[w] IN
  At(w, "idle") =>
    /\ j.step \in {"grantPlan", "regrantPlan"} => GrantPersonInOrg(j.row.person)
    /\ j.entry # None =>
         \A p \in {j.entry.from, j.entry.to} \ {None} : GrantPersonInOrg(p)

EquityStep(w) ==
  /\ AtCall(w, "idle")
  /\ ExerciseStep(w) \/ AdminStep(w)
  /\ PeopleEnsured(w)
  /\ UNCHANGED peopleVars

PeopleStepOf(w) ==
  /\ \/ \E p \in Persons : PersonStart(w, p)
     \/ \E d \in PersonDocuments, p \in Persons \cup {None} : CreatePersonDocument(w, d, p)
     \/ PeopleContinue(w)
  /\ UNCHANGED vars

OrganizationInit == Init /\ PeopleInit

OrganizationQuiescent ==
  /\ \A w \in Workers : Free(w)
  /\ UNCHANGED organizationVars

OrganizationNext ==
  \/ \E w \in Workers : EquityStep(w) \/ PeopleStepOf(w)
  \/ HandleJob /\ UNCHANGED vars
  \/ Tick /\ UNCHANGED peopleVars
  \/ OrganizationQuiescent

OrganizationSpec == OrganizationInit /\ [][OrganizationNext]_organizationVars

-----------------------------------------------------------------------------
(* What holds when handlers run one at a time, and a race can break *)

\* An archived person has no active engagement, no grant and no exercise
\* request: deletePerson counts them, and every handler that would link a new
\* one asks for a person that is not archived. Documents, signature requests
\* and provisioning jobs are created without asking.
ArchivedIsClear ==
  \A p \in DOMAIN persons : persons[p].archived =>
    /\ EngagementsOf(p) = {}
    /\ \A g \in DOMAIN grants : grants[g].person # p
    /\ \A r \in DOMAIN requests : requests[r].person # p

\* No engagement ends before it starts, through patches of one date at a time.
EngagementDatesOrdered ==
  \A e \in DOMAIN engagements : DatesOrdered(engagements[e].start, engagements[e].end)

\* A person with a provisioning job keeps one and stays as they are: the row stays
\* QUEUED, so it can neither be removed nor stop counting against deletion. A job that is
\* created between the counts and the update of a deletion is counted by no one.
JobKeepsPerson ==
  [][\A p \in DOMAIN persons : JobsOf(p) # {} =>
       JobsOf(p)' # {} /\ persons'[p].archived = persons[p].archived]_organizationVars

-----------------------------------------------------------------------------
(* What every interleaving keeps *)

\* The queue and the worker only know jobs that have a row, which the details of
\* its person never offer to remove, nor the person to delete.
QueuedHasRow ==
  /\ queue \cup handled \subseteq DOMAIN provisioning
  /\ \A i \in DOMAIN provisioning :
       ~CanRemove(provisioning[i].status) /\ ~CanDeletePerson(provisioning[i].person)
==============================================================================
