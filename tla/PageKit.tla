------------------------------ MODULE PageKit ------------------------------
(***************************************************************************)
(* What the pages of apps/web have in common: a React component keeps      *)
(* rows it loaded, the open modal, the row a form was filled from and the  *)
(* flags that disable buttons; its event handlers are async functions that *)
(* go on, when a response arrives, with what they captured when the event  *)
(* came. One page is mounted, in one tab, by a user who clicks: an open    *)
(* modal covers the buttons below it. Unmounting makes a page's setters    *)
(* no-ops, so a visit of a page is a behaviour of its own.                 *)
(*                                                                         *)
(* Data is reduced to versions: stored counts the writes that changed what *)
(* a route of the API returns, shown is the count that a page has read.    *)
(***************************************************************************)
EXTENDS Integers, Sequences, SequencesExt

CONSTANTS
  Rows,      \* records of a page's list, and texts of its search field
  UseBound,  \* bound, by page: how many events start a handler that calls the API
  None, Failed

VARIABLES
  page,      \* the page mounted
  stored,    \* route -> how many writes changed it
  shown,     \* route -> [version, key] that the page has set
  wanted,    \* route -> the search text or the selected row it is loaded for
  modal,     \* the modal open, or None
  edit,      \* form -> [target, origin]: row it is for, row its fields are of
  flags,     \* the flags that are set; for keyed ones, with the key
  calls,     \* handlers in flight, in the order they started
  uses,      \* how many events have started one
  troubled   \* history: routes whose last load failed or was overtaken, or whose last
             \* write the page was not told of or does not load

pageVars == <<page, stored, shown, wanted, modal, edit, flags, calls, uses, troubled>>

\* The routes that each page loads, grants to dashboard of equity as one.
RoutesOf ==
  [equity |-> {"lists", "capTable"}, people |-> {"people"}, grant |-> {"detail"},
   person |-> {"details"}, portal |-> {"summary", "requests"}, sign |-> {"packet"},
   documents |-> {"documents", "versions"}, fundraising |-> {"rounds", "scenarios"},
   settings |-> {"settings", "rbac"}, tasks |-> {"items"}, approvals |-> {"items"},
   m365 |-> {"items"}, valuations |-> {"items"}, search |-> {"hits", "timeline"},
   home |-> {}, security |-> {}]

Pages == DOMAIN RoutesOf

\* Those of the page mounted. The grant letter is generated on request, never loaded.
Routes == RoutesOf[page] \cup (IF page = "grant" THEN {"letter"} ELSE {})

EditForms == {"grant", "plan", "account", "profile", "engagement", "packet"}

\* What flags are for: a form or a button, a row's button ("busy"), a page that loads.
FlagNames ==
  {"grant", "plan", "base", "pools", "opening", "txn", "exercise", "termination", "letter",
   "esign", "person", "profile", "engagement", "accountLoading", "accountSaving",
   "accountResetting", "packetLoading", "signing", "declining", "uploading", "task", "login",
   "password", "busy", "loading"}

Row == Rows \cup {None}

\* None is no version, form or flag, and Failed no version.
ASSUME PageAssumption ==
  /\ None \notin Nat \cup EditForms \cup (FlagNames \X Row)
  /\ Failed \notin Nat \cup {None}

NoEdit == [target |-> None, origin |-> None]
NotShown == [version |-> None, key |-> None]

PageInit ==
  /\ page \in Pages
  /\ stored = [r \in Routes |-> 0]
  /\ shown = [r \in Routes |-> NotShown]
  /\ wanted = [r \in Routes |-> None]
  /\ modal = None /\ edit = [f \in EditForms |-> NoEdit]
  /\ uses = 0 /\ troubled = {}

-----------------------------------------------------------------------------
(* Handlers in flight *)

\* batches are the loads still to do, each a set of routes fetched together;
\* got what the batch under way has read, keys what it reads it for.
Call(form, flag, e) ==
  [form |-> form, flag |-> flag, step |-> "sent", target |-> e.target, origin |-> e.origin,
   batches |-> <<>>, got |-> [r \in Routes |-> None], keys |-> wanted]

Load(batches, keys) ==
  [Call("load", None, NoEdit) EXCEPT !.step = "loading", !.batches = batches, !.keys = keys]

\* What a handler sets is overtaken when a write or a new selection came after its
\* read, and otherwise puts the route in order.
Judged(c, taken) ==
  (troubled \ taken) \cup {r \in taken : c.got[r] # stored[r] \/ c.keys[r] # wanted[r]}

\* What was written and is not loaded.
NotLoaded(touched) == troubled \cup (touched \cap Routes)

At(i, step) == i \in DOMAIN calls /\ calls[i].step = step

Flag(name) == <<name, None>>

\* A flag is <<name, key>>, or None for a handler without one. One state variable
\* keeps the key of the busy row: the next row replaces it, and finally resets it
\* whichever key it has by then.
BusyFlags == {f \in flags : f[1] = "busy"}

Busy(flag) == flag # None /\ flag[1] = "busy"

\* Instead of its buttons a page or a list shows a line of text while it loads.
WhileLoading(batch) ==
  IF batch \cap {"detail", "packet", "documents", "rounds"} # {} THEN {Flag("loading")} ELSE {}

Loaded(r) == shown[r] # NotShown /\ Flag("loading") \notin flags

\* The flag of a row's button.
RowFlag(r) == <<"busy", r>>

Raised(flag) ==
  (IF Busy(flag) THEN flags \ BusyFlags ELSE flags) \cup ({flag} \ {None})

Lowered(flag) == IF Busy(flag) THEN flags \ BusyFlags ELSE flags \ {flag}

\* An event on a button or form that its flag does not disable calls the API.
Send(form, flag, e) ==
  /\ uses < UseBound[page]
  /\ uses' = uses + 1
  /\ flag \notin flags
  /\ flags' = Raised(flag)
  /\ calls' = Append(calls, Call(form, flag, e))
  /\ UNCHANGED <<page, stored, shown, troubled>>

\* Mutant: the early return forgets the flag it has set.
FlagLeft(flag) == Raised(flag)

FlagReset(flag) == flags

\* Input that the handler does not accept: it sets its flag, reports an error,
\* resets the flag and returns.
Reject(flag) ==
  /\ flag \notin flags
  /\ flags' = FlagReset(flag)
  /\ UNCHANGED <<page, stored, shown, wanted, modal, edit, calls, uses, troubled>>

\* An effect or a refresh button loads.
StartLoad(batches, keys) ==
  /\ calls' = Append(calls, Load(batches, keys))
  /\ flags' = flags \cup WhileLoading(Head(batches))
  /\ UNCHANGED troubled

Refresh(batches) ==
  /\ uses < UseBound[page]
  /\ uses' = uses + 1
  /\ modal = None
  /\ StartLoad(batches, wanted)
  /\ UNCHANGED <<page, stored, shown, wanted, modal, edit>>

-----------------------------------------------------------------------------
(* The API, as the browser sees it (external) *)

\* What a handler takes from a reply, other than a form's fields: the other replies
\* are a new row that the page does not keep.
Answered(form) ==
  CASE form \in {"base", "pools"} -> {"capTable"}
    [] form = "rbac" -> {"rbac"}
    [] form = "letter" -> {"detail"}
    [] OTHER -> {}

\* The server writes or refuses; the reply to a write may be lost.
Answer(i, touched) ==
  \E written, ok \in BOOLEAN :
    /\ At(i, "sent")
    /\ ok => written
    /\ stored' = [r \in Routes |-> IF written /\ r \in touched THEN stored[r] + 1 ELSE stored[r]]
    /\ calls' = [calls EXCEPT ![i].step = IF ok THEN "accepted" ELSE "refused",
                              ![i].got = [r \in Routes |-> IF ok /\ r \in Answered(calls[i].form)
                                                           THEN stored'[r] ELSE None]]
    /\ troubled' = IF written /\ ~ok THEN NotLoaded(touched) ELSE troubled
    /\ UNCHANGED <<page, shown, wanted, modal, edit, flags, uses>>

\* The fetches of a batch answer in any order: a route is read at some moment
\* before the batch is delivered, or fails. No two routes are compared, so they
\* are read in one step.
Fetch(i) ==
  /\ At(i, "loading")
  /\ \A r \in Head(calls[i].batches) : calls[i].got[r] = None
  /\ \E failed \in SUBSET Head(calls[i].batches) :
       calls' = [calls EXCEPT ![i].got =
                   [r \in Routes |-> IF r \notin Head(calls[i].batches) THEN None
                                     ELSE IF r \in failed THEN Failed ELSE stored[r]]]
  /\ UNCHANGED <<page, stored, shown, wanted, modal, edit, flags, uses, troubled>>

-----------------------------------------------------------------------------
(* What a handler does when it goes on *)

End(i) ==
  /\ calls' = RemoveAt(calls, i)
  /\ flags' = Lowered(calls[i].flag)

\* The response is not ok, or there is none: nothing is loaded. The second of two
\* settings leaves the first one written.
Refused(i) ==
  /\ At(i, "refused")
  /\ troubled' = IF calls[i].form = "secondLetters" THEN NotLoaded({"settings"}) ELSE troubled
  /\ End(i)
  /\ UNCHANGED <<page, stored, shown, wanted, modal, edit, uses>>

\* await load(): the handler keeps its flag until the load is done.
Reload(i, batches) ==
  /\ calls' = [calls EXCEPT ![i].step = "loading", ![i].batches = batches,
                            ![i].got = [r \in Routes |-> None]]
  /\ flags' = flags \cup WhileLoading(Head(batches))
  /\ UNCHANGED <<page, stored, shown, uses, troubled>>

\* event.currentTarget is null once the event has been dispatched: reset()
\* throws after the write, and catch reports an error. What comes after reset(),
\* closing the modal and loading what was written, is not reached.
ResetThrows(i, touched) ==
  /\ troubled' = NotLoaded(touched)
  /\ End(i)
  /\ UNCHANGED <<page, stored, shown, wanted, uses>>

\* How a fetch fails: it throws, or its response is not ok, 403 or another.
Failures == {"unreachable", "forbidden", "error"}

\* Nothing is set once a fetch has thrown or the settings have failed.
Taken(batch, failed, how) ==
  IF (failed # {} /\ how = "unreachable") \/ "settings" \in failed THEN {} ELSE batch \ failed

\* Some pages clear what the failed load was to replace, others leave it.
Cleared(failed, how) ==
  failed \cap CASE how = "unreachable" -> {"details", "versions"}
                [] how = "error" -> {"details", "versions", "capTable"}
                [] how = "forbidden" ->
                     {"details", "versions", "capTable"} \cup
                     (IF "settings" \in failed THEN {} ELSE {"rbac"})

\* All routes of the batch have answered: the setters run, and the next batch
\* starts or the handler ends. A new selection starts the load in effect, or
\* empties the routes of no row.
Deliver(i, effect, emptied) ==
  LET c == calls[i]
      batch == Head(c.batches)
      failed == {r \in batch : c.got[r] = Failed}
      others == RemoveAt(calls, i) IN
  /\ At(i, "loading")
  /\ \A r \in batch : c.got[r] # None
  /\ \E how \in IF failed = {} THEN {"error"} ELSE Failures :
       LET taken == Taken(batch, failed, how) IN
       /\ shown' = [r \in Routes |->
                      CASE r \in taken -> [version |-> c.got[r], key |-> c.keys[r]]
                        [] r \in Cleared(failed, how) \cup emptied -> NotShown
                        [] OTHER -> shown[r]]
       /\ troubled' = (Judged(c, taken) \ emptied) \cup (batch \ taken)
  /\ IF Len(c.batches) = 1
     THEN /\ flags' = Lowered(c.flag) \ WhileLoading(batch)
          /\ calls' = others \o effect
     ELSE /\ calls' = [calls EXCEPT ![i].batches = Tail(c.batches),
                                    ![i].got = [r \in Routes |-> None]]
          /\ UNCHANGED flags
  /\ UNCHANGED <<page, stored, uses>>

-----------------------------------------------------------------------------
(* Modals *)

\* The buttons of the page, below a modal, open the others (bound: while another
\* call may follow).
Open(m) ==
  /\ modal = None
  /\ uses < UseBound[page]
  /\ modal' = m
  /\ UNCHANGED <<page, stored, shown, wanted, flags, calls, uses, troubled>>

\* A handler that closes its own modal only.
CloseOwn(m) == modal' = IF modal = m THEN None ELSE modal

\* Close, Cancel, Escape, or a click beside the modal.
Close ==
  /\ modal # None
  /\ modal' = None
  /\ UNCHANGED <<page, stored, shown, wanted, flags, calls, uses, troubled>>
=============================================================================
