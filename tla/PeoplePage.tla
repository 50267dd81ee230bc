----------------------------- MODULE PeoplePage -----------------------------
(***************************************************************************)
(* apps/web/app/app/people/page.tsx, the list of people with the forms of  *)
(* a person, an engagement and an account, and people/[personId]/page.tsx, *)
(* the records that are related to one person.                             *)
(***************************************************************************)
EXTENDS PageKit

PeopleLoad == <<{"people"}>>
DetailsLoad == <<{"details"}>>

\* selectedPersonId is the target of the profile form, whose key mounts it anew.
Select(p) == edit' = [edit EXCEPT !.profile = [target |-> p, origin |-> p]]

-----------------------------------------------------------------------------
(* The list and the forms over it *)

PeopleList == modal = None /\ shown["people"] # NotShown

PersonForm == modal = "createPerson"

ProfileForm == modal = "profile" /\ edit.profile.target # None

\* Needs a person to choose.
EngagementForm == modal = "createEngagement" /\ shown["people"] # NotShown

AccountForm == modal = "account"

\* The effect on queryString.
ChangeSearch(q) ==
  /\ uses < UseBound[page]
  /\ uses' = uses + 1
  /\ modal = None
  /\ wanted' = [wanted EXCEPT !["people"] = q]
  /\ q # wanted["people"]
  /\ StartLoad(PeopleLoad, wanted')
  /\ UNCHANGED <<page, stored, shown, modal, edit>>

\* loadPeople: the selection stays when its row is in the list, which a search or
\* a deletion may have left out, and is the first row otherwise.
PeopleLoaded(i) ==
  /\ Deliver(i, <<>>, {})
  /\ \/ calls[i].got["people"] # Failed /\ \E p \in Row : Select(p)
     \/ calls[i].got["people"] = Failed /\ UNCHANGED edit
  /\ UNCHANGED <<wanted, modal>>

\* The Edit button of a row.
EditProfile(p) ==
  /\ PeopleList
  /\ Open("profile")
  /\ Select(p)

OpenPeopleModal(m) ==
  /\ Open(m)
  /\ UNCHANGED edit

ClosePeopleModal ==
  /\ page = "people"
  /\ Close
  /\ UNCHANGED <<edit>>

\* onCreatePerson
CreatePerson ==
  /\ PersonForm
  /\ Send("createPerson", Flag("person"), NoEdit)
  /\ UNCHANGED <<wanted, modal, edit>>

\* onUpdateSelectedPerson: the form of the person selected, whole.
UpdateSelectedPerson ==
  /\ ProfileForm
  /\ Send("profile", Flag("profile"), edit.profile)
  /\ UNCHANGED <<wanted, modal, edit>>

PersonSaved(i) ==
  /\ At(i, "accepted") /\ calls[i].form \in {"createPerson", "profile", "saveAccount"}
  /\ modal' = None
  /\ Reload(i, PeopleLoad)
  /\ UNCHANGED <<wanted, edit>>

\* onDeletePerson, with the flag of its row
DeletePerson(p) ==
  /\ PeopleList
  /\ Send("deletePerson", RowFlag(p), NoEdit)
  /\ UNCHANGED <<wanted, modal, edit>>

PersonDeleted(i) ==
  /\ At(i, "accepted") /\ calls[i].form = "deletePerson"
  /\ Reload(i, PeopleLoad)
  /\ UNCHANGED <<wanted, modal, edit>>

\* onCreateEngagement: the list shows nothing of engagements.
CreateEngagement ==
  /\ EngagementForm
  /\ Send("createEngagement", Flag("engagement"), NoEdit)
  /\ UNCHANGED <<wanted, modal, edit>>

RejectEngagement == EngagementForm /\ Reject(Flag("engagement"))

EngagementCreated(i) ==
  /\ At(i, "accepted") /\ calls[i].form = "createEngagement"
  /\ ResetThrows(i, {})
  /\ UNCHANGED <<modal, edit>>

-----------------------------------------------------------------------------
(* Accounts *)

\* Mutant: the Account buttons of the other rows stay enabled.
NoFlag == None

\* accountLoading disables the Account button of every row.
AccountFlag == Flag("accountLoading")

\* openAccountModal: the person is set at once, the fields with the answer.
OpenAccount(p) ==
  /\ PeopleList
  /\ Send("openAccount", AccountFlag, [target |-> p, origin |-> p])
  /\ edit' = [edit EXCEPT !.account.target = p]
  /\ UNCHANGED <<wanted, modal>>

AccountOpened(i) ==
  /\ At(i, "accepted") /\ calls[i].form = "openAccount"
  /\ modal' = "account"
  /\ edit' = [edit EXCEPT !.account.origin = calls[i].target]
  /\ End(i)
  /\ UNCHANGED <<page, stored, shown, wanted, uses, troubled>>

\* saveLinkedAccount
SaveAccount ==
  /\ AccountForm
  /\ Send("saveAccount", Flag("accountSaving"), edit.account)
  /\ UNCHANGED <<wanted, modal, edit>>

\* resetLinkedAccountPassword
ResetAccountPassword ==
  /\ AccountForm
  /\ Send("resetAccount", Flag("accountResetting"), edit.account)
  /\ UNCHANGED <<wanted, modal, edit>>

PasswordReset(i) ==
  /\ At(i, "accepted") /\ calls[i].form = "resetAccount"
  /\ End(i)
  /\ UNCHANGED <<page, stored, shown, wanted, modal, edit, uses, troubled>>

-----------------------------------------------------------------------------
(* One person *)

\* The lists of what is linked to the person.
RelatedLists == modal = None /\ shown["details"] # NotShown

\* A failed load hides the form.
EngagementEditor == modal = "engagement" /\ shown["details"] # NotShown

\* openEditEngagement: the modal is open while editingEngagement is set.
EditEngagement(e) ==
  /\ RelatedLists
  /\ Open("engagement")
  /\ edit' = [edit EXCEPT !.engagement = [target |-> e, origin |-> e]]

CloseEngagement ==
  /\ modal = "engagement"
  /\ Close
  /\ edit' = [edit EXCEPT !.engagement = NoEdit]

\* onSaveEngagement: a PATCH with every field.
SaveEngagement ==
  /\ EngagementEditor
  /\ Send("engagement", Flag("engagement"), edit.engagement)
  /\ UNCHANGED <<wanted, modal, edit>>

EngagementSaved(i) ==
  /\ At(i, "accepted") /\ calls[i].form = "engagement"
  /\ modal' = None
  /\ edit' = [edit EXCEPT !.engagement = NoEdit]
  /\ Reload(i, DetailsLoad)
  /\ UNCHANGED wanted

\* onArchiveEngagement, onArchiveDocument, onRemoveProvisioningJob: busyKey has room
\* for one row.
ArchiveRelated(r) ==
  /\ RelatedLists
  /\ Send("archive", RowFlag(r), NoEdit)
  /\ UNCHANGED <<wanted, modal, edit>>

RelatedArchived(i) ==
  /\ At(i, "accepted") /\ calls[i].form = "archive"
  /\ Reload(i, DetailsLoad)
  /\ UNCHANGED <<wanted, modal, edit>>

-----------------------------------------------------------------------------

PeopleUse ==
  \/ \E p \in Rows : EditProfile(p) \/ DeletePerson(p) \/ OpenAccount(p)
  \/ \E q \in Row : ChangeSearch(q)
  \/ \E m \in {"createPerson", "createEngagement"} : OpenPeopleModal(m)
  \/ ClosePeopleModal \/ CreatePerson \/ UpdateSelectedPerson
  \/ CreateEngagement \/ RejectEngagement
  \/ SaveAccount \/ ResetAccountPassword
  \/ Refresh(PeopleLoad)

PeopleGoesOn(i) ==
  \/ PeopleLoaded(i) \/ PersonSaved(i) \/ PersonDeleted(i) \/ EngagementCreated(i)
  \/ AccountOpened(i) \/ PasswordReset(i)

PeopleTouched(form) ==
  IF form \in {"createPerson", "profile", "saveAccount", "deletePerson"} THEN {"people"} ELSE {}

PeopleNext ==
  /\ page = "people"
  /\ \/ PeopleUse
     \/ \E i \in DOMAIN calls : PeopleGoesOn(i) \/ Answer(i, PeopleTouched(calls[i].form))

PersonUse ==
  \/ \E r \in Rows : EditEngagement(r) \/ ArchiveRelated(r)
  \/ CloseEngagement \/ SaveEngagement
  \/ shown["details"] # NotShown /\ Refresh(DetailsLoad)

PersonGoesOn(i) ==
  \/ EngagementSaved(i) \/ RelatedArchived(i)
  \/ Deliver(i, <<>>, {}) /\ UNCHANGED <<wanted, modal, edit>>

PersonNext ==
  /\ page = "person"
  /\ \/ PersonUse
     \/ \E i \in DOMAIN calls : PersonGoesOn(i) \/ Answer(i, {"details"})
=============================================================================
