---------------------------- MODULE ClientSystem ----------------------------
(***************************************************************************)
(* A visit of one page of apps/web.                                        *)
(***************************************************************************)
EXTENDS EquityPage, PeoplePage, GrantPage, SignerPages, ListPages

\* What the effects of the first rendering load, each page in its own way.
FirstLoads ==
  [equity |-> EquityLoad, people |-> PeopleLoad, grant |-> GrantLoad, person |-> DetailsLoad,
   sign |-> PacketLoad, documents |-> <<{"documents"}>>, fundraising |-> <<{"rounds"}>>,
   settings |-> SettingsLoad, tasks |-> ItemsLoad, approvals |-> ItemsLoad,
   m365 |-> ItemsLoad, valuations |-> ItemsLoad]

FirstCalls ==
  CASE page = "portal" -> PortalLoads
    [] page \in {"search", "home", "security"} -> <<>>
    [] OTHER -> <<Load(FirstLoads[page], wanted)>>

ClientInit ==
  /\ PageInit
  /\ flags = WhileLoading(RoutesOf[page] \ {"versions", "scenarios"})
  /\ calls = FirstCalls

Network ==
  \E i \in DOMAIN calls : Refused(i) \/ Fetch(i)

ClientNext ==
  \/ EquityNext \/ PeopleNext \/ PersonNext \/ GrantNext \/ PortalNext \/ SignNext
  \/ DocumentsNext \/ FundraisingNext \/ SettingsNext \/ TasksNext \/ ApprovalsNext
  \/ M365Next \/ ValuationsNext \/ SearchNext \/ HomeNext \/ SecurityNext
  \/ Network

ClientSpec == ClientInit /\ [][ClientNext]_pageVars

-----------------------------------------------------------------------------

\* A save that is on its way carries the fields of the row it is for: no load,
\* answer or closing in between leaves a form with one row's fields and another
\* row's id.
EditsMatchTheirRow ==
  \A i \in DOMAIN calls : calls[i].form \in EditForms \cup {"saveAccount"} =>
    calls[i].target = calls[i].origin

\* Buttons come back: a flag that is set belongs to a handler in flight, which will
\* reset it, and a form has at most one.
ButtonsComeBack ==
  /\ \A f \in flags \ {Flag("loading")} : \E i \in DOMAIN calls : calls[i].flag = f
  /\ \A i, j \in DOMAIN calls :
       calls[i].flag # None /\ ~Busy(calls[i].flag) /\ calls[j].flag = calls[i].flag => j = i

\* At rest the page shows what the server has, for what is selected or searched,
\* however its handlers overlapped: every handler that writes loads what it changed,
\* for what is wanted. This leaves out, until it is loaded again, a route
\*  - whose last load failed, or was overtaken: between its read and its setter came
\*    a write or a new selection, and the older rows replaced newer ones;
\*  - that was written by a call whose reply was lost, or by the first of two calls
\*    of which the second was refused (saveGrantLetters);
\*  - that was written by one of the forms whose reset() throws before they load, of
\*    which the property is false: after every write of theirs the old list stays.
ShowsWhatIsStored ==
  calls = <<>> =>
    \A r \in RoutesOf[page] \ troubled :
      shown[r] = NotShown \/ shown[r] = [version |-> stored[r], key |-> wanted[r]]
=============================================================================
