----------------------------- MODULE GrantPage -----------------------------
(***************************************************************************)
(* apps/web/app/app/equity/[grantId]/page.tsx: one grant with its exercise *)
(* requests, its letter and its signature packet. While it loads, the page *)
(* is a line of text without buttons.                                      *)
(***************************************************************************)
EXTENDS PageKit

GrantLoad == <<{"detail"}>>

Usable == Loaded("detail")

\* The requests, the letter and its signers, below the modals.
Lifecycle == Usable /\ modal = None

GrantModal(m) == Usable /\ modal = m

OpenGrantModal(m) ==
  /\ Usable
  /\ Open(m)
  /\ UNCHANGED edit

CloseGrantModal ==
  /\ page = "grant" /\ Usable
  /\ Close
  /\ UNCHANGED <<edit>>

\* refreshVesting: closes its modal once the page has loaded.
RefreshVesting ==
  /\ GrantModal("vesting")
  /\ uses < UseBound[page] /\ uses' = uses + 1
  /\ calls' = Append(calls, [Load(GrantLoad, wanted) EXCEPT !.form = "vesting"])
  /\ flags' = flags \cup WhileLoading({"detail"})
  /\ UNCHANGED <<page, stored, shown, wanted, modal, edit, troubled>>

\* loadPageData has read the grant, and the people page by page.
GrantLoaded(i) ==
  /\ Deliver(i, <<>>, {})
  /\ IF calls[i].form = "vesting" THEN CloseOwn("vesting") ELSE UNCHANGED modal
  /\ UNCHANGED <<wanted, edit>>

CreateExerciseRequest ==
  /\ GrantModal("exercise")
  /\ Send("exercise", Flag("exercise"), NoEdit)
  /\ UNCHANGED <<wanted, modal, edit>>

\* The form's reset() comes first, before the modal is closed.
ExerciseRequested(i) ==
  /\ At(i, "accepted") /\ calls[i].form = "exercise"
  /\ ResetThrows(i, {"detail"})
  /\ UNCHANGED <<modal, edit>>

\* runExerciseAction: approve, decline, cancel and complete have no flag.
RunExerciseAction ==
  /\ Lifecycle
  /\ Send("exerciseAction", None, NoEdit)
  /\ UNCHANGED <<wanted, modal, edit>>

ExerciseActionDone(i) ==
  /\ At(i, "accepted") /\ calls[i].form = "exerciseAction"
  /\ Reload(i, GrantLoad)
  /\ UNCHANGED <<wanted, modal, edit>>

RecordTermination ==
  /\ GrantModal("termination")
  /\ Send("termination", Flag("termination"), NoEdit)
  /\ UNCHANGED <<wanted, modal, edit>>

RejectTermination == GrantModal("termination") /\ Reject(Flag("termination"))

TerminationRecorded(i) ==
  /\ At(i, "accepted") /\ calls[i].form = "termination"
  /\ CloseOwn("termination")
  /\ Reload(i, GrantLoad)
  /\ UNCHANGED <<wanted, edit>>

\* generateLetter: the page keeps the letter of that moment.
GenerateLetter ==
  /\ Lifecycle
  /\ Send("letter", Flag("letter"), NoEdit)
  /\ UNCHANGED <<wanted, modal, edit>>

LetterGenerated(i) ==
  /\ At(i, "accepted") /\ calls[i].form = "letter"
  /\ shown' = [shown EXCEPT !["letter"] = [version |-> calls[i].got["detail"], key |-> None]]
  /\ End(i)
  /\ UNCHANGED <<page, stored, wanted, modal, edit, uses, troubled>>

\* createESignPackage: the API makes the letter of the packet itself.
CreateESignPackage ==
  /\ Lifecycle
  /\ shown["letter"] # NotShown
  /\ Send("esign", Flag("esign"), NoEdit)
  /\ UNCHANGED <<wanted, modal, edit>>

PackageCreated(i) ==
  /\ At(i, "accepted") /\ calls[i].form = "esign"
  /\ End(i)
  /\ UNCHANGED <<page, stored, shown, wanted, modal, edit, uses, troubled>>

GrantTouched(form) == IF form \in {"letter", "esign"} THEN {} ELSE {"detail"}

GrantUse ==
  \/ \E m \in {"vesting", "exercise", "termination"} : OpenGrantModal(m)
  \/ CloseGrantModal \/ RefreshVesting \/ CreateExerciseRequest \/ RunExerciseAction
  \/ RecordTermination \/ RejectTermination \/ GenerateLetter \/ CreateESignPackage

GrantGoesOn(i) ==
  \/ GrantLoaded(i) \/ ExerciseRequested(i) \/ ExerciseActionDone(i)
  \/ TerminationRecorded(i) \/ LetterGenerated(i) \/ PackageCreated(i)

GrantNext ==
  /\ page = "grant"
  /\ \/ GrantUse
     \/ \E i \in DOMAIN calls : GrantGoesOn(i) \/ Answer(i, GrantTouched(calls[i].form))
=============================================================================
