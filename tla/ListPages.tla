----------------------------- MODULE ListPages -----------------------------
(***************************************************************************)
(* The pages of apps/web/app/app that show a list, its selected row, or a  *)
(* form: documents, fundraising, admin-settings, tasks, approvals, m365,   *)
(* valuations-reports, search, setup-security, and the sign-in page.       *)
(***************************************************************************)
EXTENDS PageKit

ItemsLoad == <<{"items"}>>

\* Most of them keep each modal's state in a flag of its own; one is open.
OpenListModal(m) ==
  /\ Open(m)
  /\ UNCHANGED edit

CloseListModal == Close /\ UNCHANGED <<edit>>

\* The effect on a search text or a selection that has changed.
Want(r, k, batches) ==
  /\ uses < UseBound[page] /\ uses' = uses + 1
  /\ modal = None
  /\ k # wanted[r]
  /\ wanted' = [wanted EXCEPT ![r] = k]
  /\ StartLoad(batches, wanted')
  /\ UNCHANGED <<page, stored, shown, modal, edit>>

\* A form without a row of its own.
Post(m, flag) ==
  /\ modal = m
  /\ Send(m, flag, NoEdit)
  /\ UNCHANGED <<wanted, modal, edit>>

\* Its event has no form any more when the answer comes.
PostThrows(i, form, touched) ==
  /\ At(i, "accepted") /\ calls[i].form = form
  /\ ResetThrows(i, touched)
  /\ UNCHANGED <<modal, edit>>

\* A page that answers with another page.
Leave(i) ==
  /\ At(i, "accepted")
  /\ End(i)
  /\ UNCHANGED <<page, stored, shown, wanted, modal, edit, uses, troubled>>

Settle(i) == Deliver(i, <<>>, {}) /\ UNCHANGED <<wanted, modal, edit>>

-----------------------------------------------------------------------------
(* documents/page.tsx *)

VersionsLoad == <<{"versions"}>>

SearchDocuments(q) == Want("documents", q, <<{"documents"}>>)

SelectDocument(d) == Loaded("documents") /\ Want("versions", d, VersionsLoad)

CreateDocument == Post("createDocument", None)

\* onUploadVersion: asks for an address, puts the object, hashes it and finalizes
\* the version. Only the last call changes what the page loads.
UploadVersion ==
  /\ wanted["versions"] # None
  /\ Post("upload", Flag("uploading"))

\* The effect on selectedDocumentId, when it changes.
VersionsEffect(d) ==
  IF d \in {None, wanted["versions"]} THEN <<>>
  ELSE <<Load(VersionsLoad, [wanted EXCEPT !["versions"] = d])>>

\* loadDocuments keeps the selection when the document that was selected as it
\* began is listed, else selects the first one; no list, no document, no versions.
DocumentsLoaded(i) ==
  /\ "documents" \in Head(calls[i].batches)
  /\ \/ \E d \in Row :
          /\ calls[i].got["documents"] # Failed
          /\ wanted' = [wanted EXCEPT !["versions"] = d]
          /\ Deliver(i, VersionsEffect(d), IF d = None THEN {"versions"} ELSE {})
     \/ /\ calls[i].got["documents"] = Failed \/ calls[i].keys["versions"] # None
        /\ wanted' = wanted
        /\ Deliver(i, <<>>, {})
  /\ UNCHANGED <<modal, edit>>

DocumentsTouched(form) == IF form = "createDocument" THEN {"documents"} ELSE RoutesOf.documents

DocumentsNext ==
  /\ page = "documents"
  /\ \/ \E q \in Row : SearchDocuments(q)
     \/ \E d \in Rows : SelectDocument(d)
     \/ OpenListModal("createDocument") \/ OpenListModal("upload") \/ CloseListModal
     \/ CreateDocument \/ UploadVersion \/ Refresh(<<{"documents"}>>)
     \/ \E i \in DOMAIN calls :
          \/ \E form \in {"createDocument", "upload"} :
               PostThrows(i, form, DocumentsTouched(form))
          \/ At(i, "loading") /\ DocumentsLoaded(i)
          \/ At(i, "loading") /\ "versions" \in Head(calls[i].batches) /\ Settle(i)
          \/ Answer(i, DocumentsTouched(calls[i].form))

-----------------------------------------------------------------------------
(* fundraising/page.tsx *)

ScenariosLoad == <<{"scenarios"}>>

SelectRound(x) == Loaded("rounds") /\ Want("scenarios", x, ScenariosLoad)

CreateRound == Post("createRound", None)

CreateScenario == wanted["scenarios"] # None /\ Post("createScenario", None)

\* simulate: of the round selected when the button was pressed.
Simulate ==
  /\ modal = None
  /\ shown["scenarios"] # NotShown
  /\ Send("simulate", None, NoEdit)
  /\ UNCHANGED <<wanted, modal, edit>>

Simulated(i) ==
  /\ At(i, "accepted") /\ calls[i].form = "simulate"
  /\ Reload(i, ScenariosLoad)
  /\ UNCHANGED <<wanted, modal, edit>>

\* The effect on selectedRoundId, when it changes.
ScenariosEffect(x) ==
  IF x = wanted["scenarios"] THEN <<>>
  ELSE <<Load(ScenariosLoad, [wanted EXCEPT !["scenarios"] = x])>>

\* loadRounds selects the first round, if there is one, when none was selected as
\* it began.
RoundsLoaded(i) ==
  /\ "rounds" \in Head(calls[i].batches)
  /\ \/ \E x \in Rows :
          /\ calls[i].got["rounds"] # Failed
          /\ calls[i].keys["scenarios"] = None
          /\ wanted' = [wanted EXCEPT !["scenarios"] = x]
          /\ Deliver(i, ScenariosEffect(x), {})
     \/ wanted' = wanted /\ Deliver(i, <<>>, {})
  /\ UNCHANGED <<modal, edit>>

FundraisingTouched(form) == IF form = "createRound" THEN {"rounds"} ELSE {"scenarios"}

FundraisingNext ==
  /\ page = "fundraising"
  /\ \/ \E x \in Rows : SelectRound(x)
     \/ OpenListModal("createRound") \/ OpenListModal("createScenario") \/ CloseListModal
     \/ CreateRound \/ CreateScenario \/ Simulate \/ Refresh(<<{"rounds"}>>)
     \/ \E i \in DOMAIN calls :
          \/ \E form \in {"createRound", "createScenario"} :
               PostThrows(i, form, FundraisingTouched(form))
          \/ Simulated(i)
          \/ At(i, "loading") /\ RoundsLoaded(i)
          \/ At(i, "loading") /\ "scenarios" \in Head(calls[i].batches) /\ Settle(i)
          \/ Answer(i, FundraisingTouched(calls[i].form))

-----------------------------------------------------------------------------
(* admin-settings/page.tsx: no form has a flag. *)

SettingsLoad == <<{"settings", "rbac"}>>

SettingForms == {"m365", "ses", "esign"}

\* saveM365, saveAwsSes, saveEsign
SaveSetting(form) == form \in SettingForms /\ Post(form, None)

\* saveGrantLetters writes two settings, one after the other.
SaveGrantLetters == Post("letters", None)

SaveRbac == shown["rbac"] # NotShown /\ Post("rbac", None)

FirstLetterSettingSaved(i) ==
  /\ At(i, "accepted") /\ calls[i].form = "letters"
  /\ calls' = [calls EXCEPT ![i].step = "sent", ![i].form = "secondLetters"]
  /\ UNCHANGED <<page, stored, shown, wanted, modal, edit, flags, uses, troubled>>

SettingSaved(i) ==
  /\ At(i, "accepted") /\ calls[i].form \in SettingForms \cup {"secondLetters"}
  /\ modal' = None
  /\ Reload(i, SettingsLoad)
  /\ UNCHANGED <<wanted, edit>>

\* setRbac(answer)
RbacSaved(i) ==
  /\ At(i, "accepted") /\ calls[i].form = "rbac"
  /\ shown' = [shown EXCEPT !["rbac"] = [version |-> calls[i].got["rbac"], key |-> None]]
  /\ troubled' = Judged(calls[i], {"rbac"})
  /\ modal' = None
  /\ End(i)
  /\ UNCHANGED <<page, stored, wanted, edit, uses>>

SettingsNext ==
  /\ page = "settings"
  /\ \/ \E m \in SettingForms \cup {"letters", "rbac"} : OpenListModal(m) \/ SaveSetting(m)
     \/ CloseListModal \/ SaveGrantLetters \/ SaveRbac
     \/ Refresh(SettingsLoad)
     \/ \E i \in DOMAIN calls :
          \/ FirstLetterSettingSaved(i) \/ SettingSaved(i) \/ RbacSaved(i) \/ Settle(i)
          \/ Answer(i, IF calls[i].form = "rbac" THEN {"rbac"} ELSE {"settings"})

-----------------------------------------------------------------------------
(* The small pages *)

\* tasks/page.tsx
SearchTasks(q) == Want("items", q, ItemsLoad)
CreateTask == Post("createTask", Flag("task"))

TasksNext ==
  /\ page = "tasks"
  /\ \/ \E q \in Row : SearchTasks(q)
     \/ Refresh(ItemsLoad)
     \/ OpenListModal("createTask") \/ CloseListModal \/ CreateTask
     \/ \E i \in DOMAIN calls :
          PostThrows(i, "createTask", {"items"}) \/ Settle(i) \/ Answer(i, {"items"})

\* approvals/page.tsx: the buttons of decide have no flag.
CreateApproval == Post("createApproval", None)

Decide ==
  /\ modal = None /\ shown["items"] # NotShown
  /\ Send("decide", None, NoEdit)
  /\ UNCHANGED <<wanted, modal, edit>>

Decided(i) ==
  /\ At(i, "accepted") /\ calls[i].form = "decide"
  /\ Reload(i, ItemsLoad)
  /\ UNCHANGED <<wanted, modal, edit>>

ApprovalsNext ==
  /\ page = "approvals"
  /\ \/ OpenListModal("createApproval") \/ CloseListModal \/ CreateApproval \/ Decide
     \/ Refresh(ItemsLoad)
     \/ \E i \in DOMAIN calls :
          \/ PostThrows(i, "createApproval", {"items"}) \/ Decided(i) \/ Settle(i)
          \/ Answer(i, {"items"})

\* m365/page.tsx and valuations-reports/page.tsx
CreateJob == Post("createJob", None)
CreateValuation == Post("createValuation", None)

M365Next ==
  /\ page = "m365"
  /\ \/ OpenListModal("createJob") \/ CloseListModal \/ CreateJob \/ Refresh(ItemsLoad)
     \/ \E i \in DOMAIN calls :
          PostThrows(i, "createJob", {"items"}) \/ Settle(i) \/ Answer(i, {"items"})

ValuationsNext ==
  /\ page = "valuations"
  /\ \/ OpenListModal("createValuation") \/ CloseListModal \/ CreateValuation
     \/ Refresh(ItemsLoad)
     \/ \E i \in DOMAIN calls :
          PostThrows(i, "createValuation", {"items"}) \/ Settle(i) \/ Answer(i, {"items"})

\* search/page.tsx: onGlobalSearch and onTimeline load for what is in their forms;
\* each closes its modal with the answer.
LookUp(r, q) ==
  /\ modal = r
  /\ uses < UseBound[page] /\ uses' = uses + 1
  /\ wanted' = [wanted EXCEPT ![r] = q]
  /\ StartLoad(<<{r}>>, wanted')
  /\ UNCHANGED <<page, stored, shown, modal, edit>>

FoundShown(i) ==
  /\ Deliver(i, <<>>, {})
  /\ \E r \in Head(calls[i].batches) :
       IF calls[i].got[r] # Failed THEN CloseOwn(r) ELSE UNCHANGED modal
  /\ UNCHANGED <<wanted, edit>>

\* openLatestDocumentVersion: asks for the versions of a document that was found,
\* and then for the address of the latest, if there is one.
OpenLatest(d) ==
  /\ modal = None /\ shown["hits"] # NotShown
  /\ Send("versions", RowFlag(d), NoEdit)
  /\ UNCHANGED <<wanted, modal, edit>>

VersionsFound(i) ==
  /\ At(i, "accepted") /\ calls[i].form = "versions"
  /\ calls' = [calls EXCEPT ![i].step = "sent", ![i].form = "address"]
  /\ UNCHANGED <<page, stored, shown, wanted, modal, edit, flags, uses, troubled>>

SearchNext ==
  /\ page = "search"
  /\ \/ \E r \in RoutesOf.search : OpenListModal(r) \/ \E q \in Rows : LookUp(r, q)
     \/ CloseListModal
     \/ \E d \in Rows : OpenLatest(d)
     \/ \E i \in DOMAIN calls : FoundShown(i) \/ VersionsFound(i) \/ Leave(i) \/ Answer(i, {})

\* app/page.tsx signs in, setup-security/page.tsx changes the password.
LocalLogin ==
  /\ page = "home"
  /\ Send("login", Flag("login"), NoEdit)
  /\ UNCHANGED <<wanted, modal, edit>>

HomeNext ==
  \/ LocalLogin
  \/ /\ page = "home"
     /\ \E i \in DOMAIN calls : Leave(i) \/ Answer(i, {})

ChangePassword == Post("password", Flag("password"))
RejectPassword == modal = "password" /\ Reject(Flag("password"))

SecurityNext ==
  /\ page = "security"
  /\ \/ OpenListModal("password") \/ CloseListModal \/ ChangePassword \/ RejectPassword
     \/ \E i \in DOMAIN calls : Leave(i) \/ Answer(i, {})
=============================================================================
