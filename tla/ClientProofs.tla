---------------------------- MODULE ClientProofs ----------------------------
(***************************************************************************)
(* Proofs about ClientSystem, for any rows, pages' visits of any length    *)
(* and handlers in any number. A page's actions are of a few kinds, which  *)
(* are defined first; each inductive invariant is shown to survive every   *)
(* kind, and every action of every page to be of one.                      *)
(***************************************************************************)
EXTENDS ClientSystem, SequenceTheorems, TLAPS

-----------------------------------------------------------------------------
(* Types *)

FlagValue == (FlagNames \X Row) \cup {None}

Forms ==
  {"load", "vesting", "grant", "deleteGrant", "base", "pools", "opening", "txn", "plan",
   "exercise", "exerciseAction", "termination", "letter", "esign", "createPerson", "profile",
   "deletePerson", "createEngagement", "openAccount", "saveAccount", "resetAccount",
   "engagement", "archive", "openPacket", "packet", "sign", "decline", "createDocument",
   "upload", "createRound", "createScenario", "simulate", "m365", "ses", "letters",
   "secondLetters", "rbac", "createTask", "createApproval", "decide", "createJob",
   "createValuation", "versions", "address", "login", "password"}

Filled == [target: Row, origin: Row]

\* What one step of a load fetches together. A list that may change the selection
\* is not fetched with what is loaded for the selection.
Batches ==
  {B \in SUBSET RoutesOf[page] :
     /\ "documents" \in B => "versions" \notin B
     /\ "rounds" \in B => "scenarios" \notin B}

Loads == {<<B>> : B \in Batches} \cup (IF page = "portal" THEN {PortalLoad} ELSE {})

\* Routes that no search and no selection decides on.
Unkeyed == Routes \cap {"capTable", "rbac"}

CallRow ==
  [form: Forms, flag: FlagValue, step: {"sent", "accepted", "refused", "loading"},
   target: Row, origin: Row, batches: Loads \cup {<<>>},
   got: [Routes -> Nat \cup {None, Failed}], keys: [Routes -> Row]]

ShownRow == [version: Nat \cup {None, Failed}, key: Row]

Wants(w) == w \in [Routes -> Row] /\ \A r \in Unkeyed : w[r] = None

TypeOK ==
  /\ page \in Pages
  /\ stored \in [Routes -> Nat]
  /\ shown \in [Routes -> ShownRow]
  /\ Wants(wanted)
  /\ calls \in Seq(CallRow)
  /\ \A i \in DOMAIN calls : calls[i].step = "loading" => calls[i].batches \in Loads
  /\ troubled \subseteq Routes

-----------------------------------------------------------------------------
(* The kinds of actions *)

\* What of a page a form's write changes.
TouchedOn(p, form) ==
  CASE p = "equity" -> EquityTouched(form)
    [] p = "people" -> PeopleTouched(form)
    [] p = "grant" -> GrantTouched(form)
    [] p = "person" -> {"details"}
    [] p = "portal" -> (IF form = "packet" THEN RoutesOf.portal ELSE {})
    [] p = "sign" -> {"packet"}
    [] p = "documents" -> DocumentsTouched(form)
    [] p = "fundraising" -> FundraisingTouched(form)
    [] p = "settings" -> (IF form = "rbac" THEN {"rbac"} ELSE {"settings"})
    [] p \in {"tasks", "approvals", "m365", "valuations"} -> {"items"}
    [] p \in {"search", "home", "security"} -> {}

TouchedBy(form) == TouchedOn(page, form)

\* What a handler in flight on page p is going to load, whatever becomes of the
\* others: the rest of its batches, or what its write changed.
Owes(p, c, r) ==
  \/ c.step = "loading" /\ r \in UNION Range(c.batches)
  \/ c.step = "accepted" /\ r \in TouchedOn(p, c.form)
  \/ c.step # "loading" /\ c.form = "secondLetters" /\ r = "settings"

\* The forms are left alone or filled from one row; the account form is left alone.
EditsKept ==
  /\ edit' \in [EditForms -> Filled]
  /\ \A f \in EditForms \ {"account"} : edit'[f].target = edit'[f].origin
  /\ edit'["account"] = edit["account"]
  /\ modal' = modal \/ modal' # "account"

\* The user opens, closes or fills something.
Acts ==
  /\ UNCHANGED <<page, stored, shown, wanted, flags, calls, troubled>>
  /\ EditsKept

\* A button or form calls the API.
Sends ==
  \E form \in Forms, flag \in FlagValue \ {Flag("loading")}, e \in Filled :
    /\ Send(form, flag, e)
    /\ form \in EditForms \cup {"saveAccount"} => e.target = e.origin
    /\ UNCHANGED <<wanted, modal>>
    /\ IF form = "openAccount"
       THEN /\ flag = AccountFlag /\ modal = None
            /\ edit' = [edit EXCEPT !["account"].target = e.target]
       ELSE edit' = edit

\* A load starts, for what is wanted now.
Starts ==
  \E B \in Batches, form \in {"load", "vesting"} :
    /\ Wants(wanted') /\ \A r \in Routes \ B : wanted'[r] = wanted[r]
    /\ calls' = Append(calls, [Load(<<B>>, wanted') EXCEPT !.form = form])
    /\ flags' = flags \cup WhileLoading(B)
    /\ UNCHANGED <<page, stored, shown, modal, edit, troubled>>

\* The API answers.
Replies == \E i \in DOMAIN calls : Answer(i, TouchedBy(calls[i].form))

\* A batch is read.
Reads == \E i \in DOMAIN calls : Fetch(i)

\* A handler ends with an error; what it owes will not be loaded.
Breaks ==
  \E i \in DOMAIN calls :
    /\ troubled \subseteq troubled' /\ troubled' \subseteq Routes
    /\ \A r \in RoutesOf[page] : Owes(page, calls[i], r) => r \in troubled'
    /\ End(i)
    /\ EditsKept
    /\ UNCHANGED <<page, stored, shown, wanted>>

\* A handler takes the answer for what its write changed, and ends.
Ends ==
  \E i \in DOMAIN calls :
    /\ At(i, "accepted")
    /\ End(i)
    /\ shown' \in [Routes -> ShownRow]
    /\ \A r \in RoutesOf[page] :
         IF r \in TouchedBy(calls[i].form)
         THEN /\ r \in Unkeyed \cap Answered(calls[i].form)
              /\ shown'[r] = [version |-> calls[i].got[r], key |-> None]
         ELSE shown'[r] = shown[r]
    /\ \/ EditsKept
       \/ /\ calls[i].form = "openAccount"
          /\ modal' = "account"
          /\ edit' = [edit EXCEPT !["account"].origin = calls[i].target]
    /\ troubled' = Judged(calls[i], TouchedBy(calls[i].form)) /\ troubled' \subseteq Routes
    /\ UNCHANGED <<page, stored, wanted>>

\* A handler loads what its write changed.
Reloads ==
  \E i \in DOMAIN calls, b \in Loads :
    /\ At(i, "accepted")
    /\ TouchedBy(calls[i].form) \subseteq UNION Range(b)
    /\ Reload(i, b)
    /\ EditsKept
    /\ UNCHANGED wanted

\* A handler calls the API once more.
SendsAgain ==
  \E i \in DOMAIN calls, form \in {"secondLetters", "address"} :
    /\ At(i, "accepted")
    /\ TouchedBy(calls[i].form) \subseteq (IF form = "secondLetters" THEN {"settings"} ELSE {})
    /\ calls' = [calls EXCEPT ![i].step = "sent", ![i].form = form]
    /\ UNCHANGED <<page, stored, shown, wanted, modal, edit, flags, troubled>>

\* A batch is set; a selection that it changes is loaded, or emptied.
Delivers ==
  \E i \in DOMAIN calls, B \in Batches, effect \in Seq(CallRow), emptied \in SUBSET Routes :
    /\ At(i, "loading")
    /\ Deliver(i, effect, emptied)
    /\ B \cap Head(calls[i].batches) = {}
    /\ Wants(wanted') /\ \A r \in Routes \ B : wanted'[r] = wanted[r]
    /\ \/ effect = <<>> /\ emptied = {} /\ wanted' = wanted
       \/ effect = <<Load(<<B>>, wanted')>> /\ emptied = {} /\ Len(calls[i].batches) = 1
       \/ effect = <<>> /\ emptied = B /\ Len(calls[i].batches) = 1
    /\ EditsKept

Kinds ==
  \/ Acts \/ Sends \/ Starts
  \/ page = "portal" /\ RefreshPortal
  \/ Replies \/ Reads \/ Breaks \/ Ends \/ Reloads \/ SendsAgain \/ Delivers

-----------------------------------------------------------------------------
(* Loads *)

\* A load is one batch, or the two of the portal.
LEMMA LoadShape ==
  ASSUME NEW b \in Loads
  PROVE  /\ Head(b) \in Batches
         /\ \/ b = <<Head(b)>> /\ Len(b) = 1 /\ UNION Range(b) = Head(b)
            \/ /\ page = "portal" /\ b = PortalLoad /\ Len(b) = 2
               /\ Head(b) = {"summary"} /\ b[2] = {"requests"} /\ Tail(b) = <<b[2]>>
               /\ UNION Range(b) = Head(b) \cup b[2] /\ b[2] \in Batches
<1>1. CASE \E B \in Batches : b = <<B>>
  <2> PICK B \in Batches : b = <<B>>
    BY <1>1
  <2>1. Head(b) = B /\ Len(b) = 1 /\ DOMAIN b = {1} /\ b[1] = B
    OBVIOUS
  <2>2. Range(b) = {B}
    BY <2>1 DEF Range
  <2> QED
    BY <2>1, <2>2
<1>2. CASE page = "portal" /\ b = PortalLoad
  <2>1. /\ Head(b) = {"summary"} /\ Len(b) = 2 /\ DOMAIN b = {1, 2}
        /\ b[1] = {"summary"} /\ b[2] = {"requests"} /\ Tail(b) = <<{"requests"}>>
    BY <1>2 DEF PortalLoad
  <2>2. Range(b) = {b[1], b[2]}
    BY <2>1 DEF Range
  <2>3. Head(b) \in Batches /\ b[2] \in Batches
    BY <1>2, <2>1 DEF Batches, RoutesOf
  <2> QED
    BY <1>2, <2>1, <2>2, <2>3
<1> QED
  BY <1>1, <1>2 DEF Loads

-----------------------------------------------------------------------------
(* Sequences of handlers *)

\* Where a handler was before the one at i was removed.
Old(i, m) == IF m < i THEN m ELSE m + 1

\* A sequence without its element at i.
LEMMA Removal ==
  ASSUME NEW S, NEW s \in Seq(S), NEW i \in DOMAIN s
  PROVE  /\ RemoveAt(s, i) \in Seq(S)
         /\ Len(RemoveAt(s, i)) = Len(s) - 1
         /\ \A m \in 1..(Len(s) - 1) :
              /\ Old(i, m) \in DOMAIN s /\ Old(i, m) # i
              /\ RemoveAt(s, i)[m] = s[Old(i, m)]
         /\ \A k \in DOMAIN s \ {i} : \E m \in 1..(Len(s) - 1) : k = Old(i, m)
<1> DEFINE n == Len(s)
           a == SubSeq(s, 1, i - 1)
           c == SubSeq(s, i + 1, n)
<1>1. n \in Nat /\ s \in [1..n -> S] /\ i \in 1..n /\ DOMAIN s = 1..n
  BY LenProperties
<1>2. a \in Seq(S) /\ Len(a) = i - 1 /\ \A k \in 1..(i - 1) : a[k] = s[k]
  <2>1. 1 \in Int /\ i - 1 \in Int /\ \A k \in 1..(i - 1) : s[k] \in S
    BY <1>1
  <2> HIDE DEF n
  <2>2. /\ a \in Seq(S)
        /\ Len(a) = IF 1 <= i - 1 THEN (i - 1) - 1 + 1 ELSE 0
        /\ \A k \in 1..((i - 1) - 1 + 1) : a[k] = s[1 + k - 1]
    BY <2>1, SubSeqProperties
  <2> HIDE DEF a
  <2> QED
    BY <1>1, <2>2
<1>3. c \in Seq(S) /\ Len(c) = n - i /\ \A k \in 1..(n - i) : c[k] = s[i + k]
  <2>1. i + 1 \in Int /\ n \in Int /\ \A k \in (i + 1)..n : s[k] \in S
    BY <1>1
  <2> HIDE DEF n
  <2>2. /\ c \in Seq(S)
        /\ Len(c) = IF i + 1 <= n THEN n - (i + 1) + 1 ELSE 0
        /\ \A k \in 1..(n - (i + 1) + 1) : c[k] = s[(i + 1) + k - 1]
    BY <2>1, SubSeqProperties
  <2> HIDE DEF c
  <2> QED
    BY <1>1, <2>2
<1>4. RemoveAt(s, i) = a \o c
  BY DEF RemoveAt
<1> HIDE DEF a, c, n
<1>5. /\ a \o c \in Seq(S) /\ Len(a \o c) = n - 1
      /\ \A k \in 1..(n - 1) : (a \o c)[k] = IF k <= i - 1 THEN a[k] ELSE c[k - (i - 1)]
  <2>1. /\ a \o c \in Seq(S) /\ Len(a \o c) = Len(a) + Len(c)
        /\ \A k \in 1..(Len(a) + Len(c)) :
             (a \o c)[k] = IF k <= Len(a) THEN a[k] ELSE c[k - Len(a)]
    BY <1>2, <1>3, ConcatProperties
  <2>2. Len(a) + Len(c) = n - 1
    BY <1>1, <1>2, <1>3
  <2> QED
    BY <1>2, <2>1, <2>2
<1>6. ASSUME NEW m \in 1..(n - 1)
      PROVE  Old(i, m) \in 1..n /\ Old(i, m) # i /\ (a \o c)[m] = s[Old(i, m)]
  <2>1. CASE m < i
    BY <1>1, <1>2, <1>5, <2>1 DEF Old
  <2>2. CASE m >= i
    <3>1. m - (i - 1) \in 1..(n - i) /\ i + (m - (i - 1)) = m + 1
      BY <1>1, <2>2
    <3>2. c[m - (i - 1)] = s[m + 1]
      BY <1>3, <3>1
    <3> QED
      BY <1>1, <1>5, <2>2, <3>2 DEF Old
  <2>3. m < i \/ m >= i
    BY <1>1
  <2> QED
    BY <2>1, <2>2, <2>3
<1>7. ASSUME NEW k \in 1..n, k # i PROVE \E m \in 1..(n - 1) : k = Old(i, m)
  <2> DEFINE m == IF k < i THEN k ELSE k - 1
  <2>1. m \in 1..(n - 1) /\ k = Old(i, m)
    BY <1>1, <1>7 DEF Old
  <2> QED
    BY <2>1
<1> QED
  BY <1>1, <1>4, <1>5, <1>6, <1>7 DEF n

\* Each handler that is left was one before.
LEMMA OldApart ==
  ASSUME NEW i \in Nat, NEW m \in Nat, NEW k \in Nat, Old(i, m) = Old(i, k)
  PROVE  m = k
BY DEF Old

\* Handlers after those that were there.
LEMMA Adding ==
  ASSUME NEW S, NEW s \in Seq(S), NEW t \in Seq(S)
  PROVE  /\ s \o t \in Seq(S)
         /\ Len(s) \in Nat /\ DOMAIN s = 1..Len(s)
         /\ Len(t) \in Nat /\ DOMAIN t = 1..Len(t)
         /\ DOMAIN (s \o t) = 1..(Len(s) + Len(t))
         /\ \A m \in DOMAIN s : m \in DOMAIN (s \o t) /\ (s \o t)[m] = s[m]
         /\ \A m \in DOMAIN (s \o t) \ DOMAIN s :
              m - Len(s) \in DOMAIN t /\ (s \o t)[m] = t[m - Len(s)]
<1>1. /\ Len(s) \in Nat /\ DOMAIN s = 1..Len(s)
      /\ Len(t) \in Nat /\ DOMAIN t = 1..Len(t)
  BY LenProperties
<1>2. /\ s \o t \in Seq(S) /\ Len(s \o t) = Len(s) + Len(t)
      /\ \A m \in 1..(Len(s) + Len(t)) :
           (s \o t)[m] = IF m <= Len(s) THEN s[m] ELSE t[m - Len(s)]
  BY ConcatProperties
<1>3. DOMAIN (s \o t) = 1..(Len(s) + Len(t))
  BY <1>2, LenProperties
<1> QED
  BY <1>1, <1>2, <1>3

LEMMA AddedAt ==
  ASSUME NEW S, NEW s \in Seq(S), NEW t \in Seq(S), NEW k \in DOMAIN t
  PROVE  \E m \in DOMAIN (s \o t) : (s \o t)[m] = t[k]
<1>1. /\ Len(s) \in Nat /\ DOMAIN s = 1..Len(s) /\ Len(t) \in Nat /\ DOMAIN t = 1..Len(t)
      /\ DOMAIN (s \o t) = 1..(Len(s) + Len(t))
      /\ \A m \in DOMAIN (s \o t) \ DOMAIN s :
           m - Len(s) \in DOMAIN t /\ (s \o t)[m] = t[m - Len(s)]
  BY Adding
<1>2. Len(s) + k \in DOMAIN (s \o t) \ DOMAIN s /\ (Len(s) + k) - Len(s) = k
  BY <1>1
<1> QED
  BY <1>1, <1>2

\* A handler that goes on.
LEMMA Changing ==
  ASSUME NEW S, NEW s \in Seq(S), NEW i \in DOMAIN s, NEW e \in S
  PROVE  /\ [s EXCEPT ![i] = e] \in Seq(S)
         /\ DOMAIN [s EXCEPT ![i] = e] = DOMAIN s
         /\ \A m \in DOMAIN s : [s EXCEPT ![i] = e][m] = IF m = i THEN e ELSE s[m]
<1>1. i \in 1..Len(s) /\ DOMAIN s = 1..Len(s)
  BY LenProperties
<1> QED
  BY <1>1, ExceptSeq, LenProperties

-----------------------------------------------------------------------------
(* Types of the kinds *)

\* What a page has does not change.
LEMMA SamePage ==
  ASSUME page' = page
  PROVE  /\ Routes' = Routes /\ Batches' = Batches /\ Loads' = Loads
         /\ CallRow' = CallRow /\ Unkeyed' = Unkeyed
BY DEF Routes, Batches, Loads, CallRow, Unkeyed

LEMMA TypeWants == TypeOK => Wants(wanted)
BY DEF TypeOK

\* A handler that calls the API.
LEMMA NewCall ==
  ASSUME Wants(wanted), NEW form \in Forms, NEW flag \in FlagValue, NEW e \in Filled
  PROVE  /\ Call(form, flag, e) \in CallRow
         /\ Call(form, flag, e).step = "sent" /\ Call(form, flag, e).form = form
         /\ Call(form, flag, e).flag = flag
         /\ Call(form, flag, e).target = e.target /\ Call(form, flag, e).origin = e.origin
BY DEF Call, CallRow, Wants, Filled

\* A handler that loads.
LEMMA PlainLoad ==
  ASSUME Wants(wanted), NEW b \in Loads, NEW w, Wants(w)
  PROVE  /\ Load(b, w) \in CallRow
         /\ Load(b, w).step = "loading" /\ Load(b, w).form = "load" /\ Load(b, w).flag = None
         /\ Load(b, w).batches = b /\ Load(b, w).keys = w
         /\ Load(b, w).got = [r \in Routes |-> None]
<1>1. "load" \in Forms /\ None \in FlagValue /\ NoEdit \in Filled
  <2>1. "load" \in Forms
    BY DEF Forms
  <2>2. None \in FlagValue
    BY DEF FlagValue
  <2>3. NoEdit \in Filled
    BY DEF NoEdit, Filled, Row
  <2> QED
    BY <2>1, <2>2, <2>3
<1>2. Call("load", None, NoEdit) \in CallRow
  BY <1>1, NewCall
<1>3. Load(b, w) \in CallRow
  BY <1>2 DEF Load, CallRow, Wants
<1>4. /\ Load(b, w).step = "loading" /\ Load(b, w).form = "load" /\ Load(b, w).flag = None
      /\ Load(b, w).batches = b /\ Load(b, w).keys = w
      /\ Load(b, w).got = [r \in Routes |-> None]
  BY DEF Load, Call, NoEdit
<1> QED
  BY <1>3, <1>4

LEMMA NewLoad ==
  ASSUME Wants(wanted), NEW b \in Loads, NEW w, Wants(w), NEW form \in Forms
  PROVE  /\ [Load(b, w) EXCEPT !.form = form] \in CallRow
         /\ [Load(b, w) EXCEPT !.form = form].step = "loading"
         /\ [Load(b, w) EXCEPT !.form = form].form = form
         /\ [Load(b, w) EXCEPT !.form = form].flag = None
         /\ [Load(b, w) EXCEPT !.form = form].batches = b
         /\ [Load(b, w) EXCEPT !.form = form].keys = w
         /\ [Load(b, w) EXCEPT !.form = form].got = [r \in Routes |-> None]
         /\ Load(b, w) = [Load(b, w) EXCEPT !.form = "load"]
<1> DEFINE c == Load(b, w)
<1>1. /\ c \in CallRow /\ c.step = "loading" /\ c.form = "load" /\ c.flag = None
      /\ c.batches = b /\ c.keys = w /\ c.got = [r \in Routes |-> None]
  BY PlainLoad
<1> HIDE DEF c
<1>2. [c EXCEPT !.form = form] \in CallRow /\ c = [c EXCEPT !.form = c.form]
  BY <1>1 DEF CallRow
<1>3. /\ [c EXCEPT !.form = form].form = form /\ [c EXCEPT !.form = form].step = c.step
      /\ [c EXCEPT !.form = form].flag = c.flag /\ [c EXCEPT !.form = form].batches = c.batches
      /\ [c EXCEPT !.form = form].keys = c.keys /\ [c EXCEPT !.form = form].got = c.got
  BY <1>1 DEF CallRow
<1> QED
  BY <1>1, <1>2, <1>3 DEF c

CallsFit(q) ==
  /\ q \in Seq(CallRow)
  /\ \A i \in DOMAIN q : q[i].step = "loading" => q[i].batches \in Loads

LEMMA FitAdded ==
  ASSUME NEW s, NEW t, CallsFit(s), CallsFit(t)
  PROVE  CallsFit(s \o t)
<1>1. /\ s \o t \in Seq(CallRow)
      /\ \A m \in DOMAIN s : (s \o t)[m] = s[m]
      /\ \A m \in DOMAIN (s \o t) \ DOMAIN s :
           m - Len(s) \in DOMAIN t /\ (s \o t)[m] = t[m - Len(s)]
  BY Adding DEF CallsFit
<1> QED
  BY <1>1 DEF CallsFit

LEMMA FitOne ==
  ASSUME NEW c \in CallRow, c.step = "loading" => c.batches \in Loads
  PROVE  CallsFit(<<c>>)
BY DEF CallsFit

LEMMA FitAppended ==
  ASSUME NEW s, CallsFit(s), NEW c \in CallRow, c.step = "loading" => c.batches \in Loads
  PROVE  Append(s, c) = s \o <<c>> /\ CallsFit(Append(s, c))
<1>1. Append(s, c) = s \o <<c>>
  BY AppendIsConcat DEF CallsFit
<1> QED
  BY <1>1, FitOne, FitAdded

LEMMA FitRemoved ==
  ASSUME NEW s, CallsFit(s), NEW i \in DOMAIN s
  PROVE  CallsFit(RemoveAt(s, i))
<1>1. /\ RemoveAt(s, i) \in Seq(CallRow)
      /\ \A m \in 1..(Len(s) - 1) :
           Old(i, m) \in DOMAIN s /\ RemoveAt(s, i)[m] = s[Old(i, m)]
      /\ DOMAIN RemoveAt(s, i) = 1..(Len(s) - 1)
  BY Removal, LenProperties DEF CallsFit
<1> QED
  BY <1>1 DEF CallsFit

LEMMA FitChanged ==
  ASSUME NEW s, CallsFit(s), NEW i \in DOMAIN s, NEW c \in CallRow,
         c.step = "loading" => c.batches \in Loads
  PROVE  CallsFit([s EXCEPT ![i] = c])
<1>1. /\ [s EXCEPT ![i] = c] \in Seq(CallRow)
      /\ DOMAIN [s EXCEPT ![i] = c] = DOMAIN s
      /\ \A m \in DOMAIN s : [s EXCEPT ![i] = c][m] = IF m = i THEN c ELSE s[m]
  BY Changing DEF CallsFit
<1> QED
  BY <1>1 DEF CallsFit

\* A handler in flight is a row with its fields.
LEMMA CallIn ==
  ASSUME TypeOK, NEW i \in DOMAIN calls
  PROVE  calls[i] \in CallRow
BY LenProperties DEF TypeOK

LEMMA TroubleTyped ==
  ASSUME TypeOK
  PROVE  /\ \A touched : NotLoaded(touched) \subseteq Routes
         /\ \A c : \A taken \in SUBSET Routes : Judged(c, taken) \subseteq Routes
BY DEF TypeOK, NotLoaded, Judged

LEMMA TypeKept ==
  ASSUME TypeOK, page' = page, stored' \in [Routes -> Nat], shown' \in [Routes -> ShownRow],
         Wants(wanted'), CallsFit(calls'), troubled' \subseteq Routes
  PROVE  TypeOK'
<1> USE SamePage
<1>1. calls' \in Seq(CallRow')
  BY DEF CallsFit
<1> QED
  BY <1>1 DEF TypeOK, CallsFit, Wants

LEMMA TypeFits == TypeOK => CallsFit(calls)
BY DEF TypeOK, CallsFit

\* What a handler keeps when its step, form or reading changes.
LEMMA CallChanged ==
  ASSUME TypeOK, NEW i \in DOMAIN calls, NEW c \in CallRow,
         c.step = "loading" => c.batches \in Loads, calls' = [calls EXCEPT ![i] = c]
  PROVE  CallsFit(calls')
BY TypeFits, FitChanged

LEMMA TypeActs == ASSUME TypeOK, Acts PROVE TypeOK'
BY TypeKept, TypeFits DEF Acts, TypeOK

LEMMA TypeSends == ASSUME TypeOK, Sends PROVE TypeOK'
<1> PICK form \in Forms, flag \in FlagValue \ {Flag("loading")}, e \in Filled :
         Send(form, flag, e) /\ UNCHANGED wanted
  BY DEF Sends
<1>1. CallsFit(calls')
  BY NewCall, TypeWants, TypeFits, FitAppended DEF Send
<1> QED
  BY <1>1, TypeKept DEF Send, TypeOK

LEMMA TypeStarts == ASSUME TypeOK, Starts PROVE TypeOK'
<1> PICK B \in Batches, form \in {"load", "vesting"} :
         /\ Wants(wanted')
         /\ calls' = Append(calls, [Load(<<B>>, wanted') EXCEPT !.form = form])
         /\ UNCHANGED <<page, stored, shown, troubled>>
  BY DEF Starts
<1>1. <<B>> \in Loads /\ form \in Forms
  BY DEF Loads, Forms
<1> DEFINE c == [Load(<<B>>, wanted') EXCEPT !.form = form]
<1>2. c \in CallRow /\ c.batches = <<B>>
  BY <1>1, NewLoad, TypeWants
<1> HIDE DEF c
<1>3. CallsFit(calls')
  BY <1>1, <1>2, TypeFits, FitAppended DEF c
<1> QED
  BY <1>3, TypeKept DEF TypeOK

LEMMA PortalShape ==
  ASSUME Wants(wanted), page = "portal"
  PROVE  /\ <<{"summary"}>> \in Loads /\ <<{"requests"}>> \in Loads
         /\ {"summary", "requests"} \in Batches /\ RoutesOf.portal = {"summary", "requests"}
         /\ RoutesOf[page] = {"summary", "requests"}
         /\ CallsFit(PortalLoads) /\ DOMAIN PortalLoads = {1, 2}
         /\ PortalLoads[1] = Load(<<{"summary"}>>, wanted)
         /\ PortalLoads[2] = Load(<<{"requests"}>>, wanted)
<1>1. /\ <<{"summary"}>> \in Loads /\ <<{"requests"}>> \in Loads
      /\ {"summary", "requests"} \in Batches /\ RoutesOf.portal = {"summary", "requests"}
      /\ RoutesOf[page] = {"summary", "requests"}
  BY DEF Loads, Batches, RoutesOf
<1>2. /\ Load(<<{"summary"}>>, wanted) \in CallRow
      /\ Load(<<{"summary"}>>, wanted).batches = <<{"summary"}>>
      /\ Load(<<{"requests"}>>, wanted) \in CallRow
      /\ Load(<<{"requests"}>>, wanted).batches = <<{"requests"}>>
  BY <1>1, PlainLoad
<1>3. CallsFit(PortalLoads)
  <2> DEFINE a == Load(<<{"summary"}>>, wanted)
             b == Load(<<{"requests"}>>, wanted)
  <2>1. PortalLoads = <<a, b>>
    BY DEF PortalLoads
  <2>2. /\ a \in CallRow /\ a.batches \in Loads
        /\ b \in CallRow /\ b.batches \in Loads
    BY <1>1, <1>2
  <2> HIDE DEF a, b
  <2> QED
    BY <2>1, <2>2 DEF CallsFit
<1> QED
  BY <1>1, <1>3 DEF PortalLoads

LEMMA TypeRefreshPortal == ASSUME TypeOK, page = "portal", RefreshPortal PROVE TypeOK'
<1>1. CallsFit(calls')
  BY PortalShape, TypeWants, TypeFits, FitAdded DEF RefreshPortal
<1> QED
  BY <1>1, TypeKept DEF RefreshPortal, TypeOK

\* Counting the writes of some routes.
LEMMA CountedUp ==
  ASSUME NEW f \in [Routes -> Nat], NEW T
  PROVE  [r \in Routes |-> IF r \in T THEN f[r] + 1 ELSE f[r]] \in [Routes -> Nat]
OBVIOUS

\* An answer: the write happened or not, and the handler has the answer or an error.
Answers(i, touched, T, step, got) ==
  /\ T \in {touched, {}} /\ step \in {"accepted", "refused"}
  /\ stored' = [r \in Routes |-> IF r \in T THEN stored[r] + 1 ELSE stored[r]]
  /\ got = [r \in Routes |-> IF step = "accepted" /\ r \in Answered(calls[i].form)
                             THEN stored'[r] ELSE None]
  /\ calls' = [calls EXCEPT ![i].step = step, ![i].got = got]
  /\ troubled' = IF step = "refused" THEN NotLoaded(T) ELSE troubled

LEMMA AnswerCases ==
  ASSUME NEW i, NEW touched, Answer(i, touched)
  PROVE  \E T, step, got : Answers(i, touched, T, step, got)
<1>1. PICK written \in BOOLEAN, ok \in BOOLEAN :
        /\ stored' = [r \in Routes |-> IF written /\ r \in touched
                                       THEN stored[r] + 1 ELSE stored[r]]
        /\ calls' = [calls EXCEPT ![i].step = IF ok THEN "accepted" ELSE "refused",
                                  ![i].got = [r \in Routes |->
                                                IF ok /\ r \in Answered(calls[i].form)
                                                THEN stored'[r] ELSE None]]
        /\ troubled' = IF written /\ ~ok THEN NotLoaded(touched) ELSE troubled
  BY Zenon DEF Answer
<1> DEFINE T == IF written THEN touched ELSE {}
           step == IF ok THEN "accepted" ELSE "refused"
           got == [r \in Routes |-> IF ok /\ r \in Answered(calls[i].form)
                                    THEN stored'[r] ELSE None]
<1>2. stored' = [r \in Routes |-> IF r \in T THEN stored[r] + 1 ELSE stored[r]]
  BY <1>1
<1>3. calls' = [calls EXCEPT ![i].step = step, ![i].got = got]
  BY <1>1
<1>4. got = [r \in Routes |-> IF step = "accepted" /\ r \in Answered(calls[i].form)
                              THEN stored'[r] ELSE None]
  OBVIOUS
<1>5. T \in {touched, {}} /\ step \in {"accepted", "refused"}
  OBVIOUS
<1>trouble. troubled' = IF step = "refused" THEN NotLoaded(T) ELSE troubled
  <2>1. NotLoaded({}) = troubled
    BY DEF NotLoaded
  <2> QED
    BY <1>1, <2>1
<1> HIDE DEF T, step, got
<1>6. Answers(i, touched, T, step, got)
  BY <1>2, <1>3, <1>4, <1>5, <1>trouble DEF Answers
<1> QED
  BY <1>6

\* What is not loaded after it is the same as before.
Replied(i, touched, step, got) ==
  /\ step \in {"accepted", "refused"} /\ got \in [Routes -> Nat \cup {None, Failed}]
  /\ calls' = [calls EXCEPT ![i] = [calls[i] EXCEPT !.step = step, !.got = got]]
  /\ \A r \in Routes \ troubled' :
       stored'[r] = stored[r] \/ (step = "accepted" /\ r \in touched)

LEMMA Answering ==
  ASSUME TypeOK, NEW i \in DOMAIN calls, NEW touched, Answer(i, touched)
  PROVE  /\ UNCHANGED <<page, shown, wanted, modal, edit, flags, uses>>
         /\ calls[i].step = "sent" /\ stored' \in [Routes -> Nat]
         /\ troubled \subseteq troubled' /\ troubled' \subseteq Routes
         /\ CallsFit(calls')
         /\ \E step, got : Replied(i, touched, step, got)
<1>1. PICK T, step, got : Answers(i, touched, T, step, got)
  BY AnswerCases
<1>2. stored' \in [Routes -> Nat]
  <2>1. stored \in [Routes -> Nat]
    BY DEF TypeOK
  <2> QED
    BY <1>1, <2>1, CountedUp DEF Answers
<1>3. \A r \in Routes \ troubled' : stored'[r] = stored[r] \/ (step = "accepted" /\ r \in touched)
  BY <1>1 DEF Answers, NotLoaded
<1>4. got \in [Routes -> Nat \cup {None, Failed}]
  BY <1>1, <1>2 DEF Answers
<1>5. calls' = [calls EXCEPT ![i] = [calls[i] EXCEPT !.step = step, !.got = got]]
  BY <1>1, CallIn DEF CallRow, Answers
<1>6. CallsFit(calls')
  <2> DEFINE c == [calls[i] EXCEPT !.step = step, !.got = got]
  <2>1. c \in CallRow /\ c.step # "loading"
    BY <1>1, <1>4, CallIn DEF CallRow, Answers
  <2> QED
    BY <1>5, <2>1, CallChanged
<1>7. UNCHANGED <<page, shown, wanted, modal, edit, flags, uses>> /\ calls[i].step = "sent"
  BY DEF Answer, At
<1>8. troubled \subseteq troubled' /\ troubled' \subseteq Routes
  BY <1>1, TroubleTyped DEF Answers, NotLoaded, TypeOK
<1>9. Replied(i, touched, step, got)
  BY <1>1, <1>3, <1>4, <1>5 DEF Replied, Answers
<1> QED
  BY <1>2, <1>6, <1>7, <1>8, <1>9

LEMMA TypeReplies == ASSUME TypeOK, Replies PROVE TypeOK'
<1> PICK i \in DOMAIN calls : Answer(i, TouchedBy(calls[i].form))
  BY DEF Replies
<1>1. /\ CallsFit(calls') /\ stored' \in [Routes -> Nat] /\ troubled' \subseteq Routes
      /\ UNCHANGED <<page, shown, wanted>>
  BY Answering
<1> QED
  BY <1>1, TypeKept DEF TypeOK

LEMMA TypeReads == ASSUME TypeOK, Reads PROVE TypeOK'
<1> PICK i \in DOMAIN calls : Fetch(i)
  BY DEF Reads
<1> PICK failed \in SUBSET Head(calls[i].batches) :
      calls' = [calls EXCEPT ![i].got =
                  [r \in Routes |-> IF r \notin Head(calls[i].batches) THEN None
                                    ELSE IF r \in failed THEN Failed ELSE stored[r]]]
  BY DEF Fetch
<1> DEFINE got == [r \in Routes |-> IF r \notin Head(calls[i].batches) THEN None
                                    ELSE IF r \in failed THEN Failed ELSE stored[r]]
           c == [calls[i] EXCEPT !.got = got]
<1>1. got \in [Routes -> Nat \cup {None, Failed}]
  BY DEF TypeOK
<1>2. calls' = [calls EXCEPT ![i] = c]
  BY CallIn DEF CallRow
<1> HIDE DEF got
<1>3. c \in CallRow /\ c.step = calls[i].step /\ c.batches = calls[i].batches
  BY <1>1, CallIn DEF CallRow
<1>4. CallsFit(calls')
  BY <1>2, <1>3, CallChanged DEF TypeOK
<1> QED
  BY <1>4, TypeKept DEF Fetch, TypeOK

LEMMA TypeBreaks == ASSUME TypeOK, Breaks PROVE TypeOK'
BY TypeKept, TypeFits, FitRemoved DEF Breaks, End, TypeOK

LEMMA TypeEnds == ASSUME TypeOK, Ends PROVE TypeOK'
BY TypeKept, TypeFits, FitRemoved DEF Ends, End, TypeOK

LEMMA TypeReloads == ASSUME TypeOK, Reloads PROVE TypeOK'
<1> PICK i \in DOMAIN calls, b \in Loads : Reload(i, b) /\ UNCHANGED wanted
  BY DEF Reloads
<1> DEFINE got == [r \in Routes |-> None]
           c == [calls[i] EXCEPT !.step = "loading", !.batches = b, !.got = got]
<1>1. got \in [Routes -> Nat \cup {None, Failed}]
  OBVIOUS
<1>2. calls' = [calls EXCEPT ![i] = c]
  BY CallIn DEF Reload, CallRow
<1> HIDE DEF got
<1>3. c \in CallRow /\ c.batches = b
  BY <1>1, CallIn DEF CallRow
<1>4. CallsFit(calls')
  BY <1>2, <1>3, CallChanged
<1> QED
  BY <1>4, TypeKept DEF Reload, TypeOK

LEMMA TypeSendsAgain == ASSUME TypeOK, SendsAgain PROVE TypeOK'
<1> PICK i \in DOMAIN calls, form \in {"secondLetters", "address"} :
         calls' = [calls EXCEPT ![i].step = "sent", ![i].form = form]
  BY DEF SendsAgain
<1> DEFINE c == [calls[i] EXCEPT !.step = "sent", !.form = form]
<1>1. calls' = [calls EXCEPT ![i] = c]
  BY CallIn DEF CallRow
<1>2. form \in Forms
  BY DEF Forms
<1>3. c \in CallRow /\ c.step # "loading"
  BY <1>2, CallIn DEF CallRow
<1>4. CallsFit(calls')
  BY <1>1, <1>3, CallChanged
<1> QED
  BY <1>4, TypeKept DEF SendsAgain, TypeOK

\* A delivery: of the batch, what is taken is set and what is cleared is not shown.
Delivered(i, effect, emptied, taken, cleared) ==
  /\ taken \subseteq {r \in Head(calls[i].batches) : calls[i].got[r] # Failed}
  /\ cleared \subseteq Head(calls[i].batches)
  /\ shown' = [r \in Routes |->
                 IF r \in taken THEN [version |-> calls[i].got[r], key |-> calls[i].keys[r]]
                 ELSE IF r \in cleared \cup emptied THEN NotShown ELSE shown[r]]
  /\ troubled' = (Judged(calls[i], taken) \ emptied) \cup (Head(calls[i].batches) \ taken)

LEMMA DeliveryCases ==
  ASSUME NEW i, NEW effect, NEW emptied, Deliver(i, effect, emptied),
         emptied \cap Head(calls[i].batches) = {}
  PROVE  \E taken, cleared : Delivered(i, effect, emptied, taken, cleared)
<1> DEFINE batch == Head(calls[i].batches)
           failed == {r \in batch : calls[i].got[r] = Failed}
<1>1. PICK how :
        /\ shown' = [r \in Routes |->
                       CASE r \in Taken(batch, failed, how) ->
                              [version |-> calls[i].got[r], key |-> calls[i].keys[r]]
                         [] r \in Cleared(failed, how) \cup emptied -> NotShown
                         [] OTHER -> shown[r]]
        /\ troubled' = (Judged(calls[i], Taken(batch, failed, how)) \ emptied) \cup
                       (batch \ Taken(batch, failed, how))
  BY Zenon DEF Deliver
<1> DEFINE taken == Taken(batch, failed, how)
           cleared == Cleared(failed, how) \ taken
<1>2. taken \subseteq {r \in batch : calls[i].got[r] # Failed}
  BY DEF Taken
<1>3. cleared \subseteq batch
  BY DEF Cleared
<1>apart. Taken(batch, failed, how) \cap (Cleared(failed, how) \cup emptied) = {}
  BY DEF Taken, Cleared
<1>4. shown' = [r \in Routes |->
                 IF r \in taken THEN [version |-> calls[i].got[r], key |-> calls[i].keys[r]]
                 ELSE IF r \in cleared \cup emptied THEN NotShown ELSE shown[r]]
  <2> HIDE DEF batch, failed
  <2>1. ASSUME NEW r \in Routes
        PROVE  (CASE r \in Taken(batch, failed, how) ->
                       [version |-> calls[i].got[r], key |-> calls[i].keys[r]]
                  [] r \in Cleared(failed, how) \cup emptied -> NotShown
                  [] OTHER -> shown[r])
               = (IF r \in taken THEN [version |-> calls[i].got[r], key |-> calls[i].keys[r]]
                  ELSE IF r \in cleared \cup emptied THEN NotShown ELSE shown[r])
    <3>1. CASE r \in Taken(batch, failed, how)
      <4>1. r \notin Cleared(failed, how) \cup emptied
        BY <1>apart, <3>1
      <4> QED
        BY <3>1, <4>1
    <3>2. CASE r \notin Taken(batch, failed, how)
      BY <3>2
    <3> QED
      BY <3>1, <3>2
  <2> QED
    BY <1>1, <2>1
<1> HIDE DEF cleared
<1>5. Delivered(i, effect, emptied, taken, cleared)
  BY <1>1, <1>2, <1>3, <1>4 DEF Delivered
<1> QED
  BY <1>5

LEMMA Delivering ==
  ASSUME TypeOK, NEW i \in DOMAIN calls, NEW effect, CallsFit(effect), NEW emptied,
         Deliver(i, effect, emptied), NEW B \in Batches, B \cap Head(calls[i].batches) = {},
         emptied \cup UNION {Head(e.batches) : e \in Range(effect)} \subseteq B
  PROVE  /\ calls[i].step = "loading" /\ calls[i].batches \in Loads
         /\ \A r \in Head(calls[i].batches) : calls[i].got[r] # None
         /\ \/ /\ Len(calls[i].batches) = 1
               /\ flags' = Lowered(calls[i].flag) \ WhileLoading(Head(calls[i].batches))
               /\ calls' = RemoveAt(calls, i) \o effect
            \/ /\ Len(calls[i].batches) = 2 /\ UNCHANGED flags
               /\ calls' = [calls EXCEPT ![i] = [calls[i] EXCEPT !.batches = Tail(@),
                                                    !.got = [r \in Routes |-> None]]]
         /\ shown' \in [Routes -> ShownRow] /\ CallsFit(calls') /\ troubled' \subseteq Routes
         /\ UNCHANGED <<page, stored, uses>>
<1>0. emptied \cap Head(calls[i].batches) = {}
  OBVIOUS
<1>1. /\ calls[i].step = "loading" /\ \A r \in Head(calls[i].batches) : calls[i].got[r] # None
      /\ UNCHANGED <<page, stored, uses>>
      /\ IF Len(calls[i].batches) = 1
         THEN /\ flags' = Lowered(calls[i].flag) \ WhileLoading(Head(calls[i].batches))
              /\ calls' = RemoveAt(calls, i) \o effect
         ELSE /\ calls' = [calls EXCEPT ![i].batches = Tail(calls[i].batches),
                                        ![i].got = [r \in Routes |-> None]]
              /\ UNCHANGED flags
  BY DEF Deliver, At
<1>2. calls[i] \in CallRow /\ calls[i].batches \in Loads
  BY <1>1, CallIn DEF TypeOK
<1>3. Head(calls[i].batches) \in Batches /\ (Len(calls[i].batches) # 1 =>
        /\ Len(calls[i].batches) = 2 /\ calls[i].batches[2] \in Batches
        /\ Tail(calls[i].batches) = <<calls[i].batches[2]>>)
  BY <1>2, LoadShape
<1>4. /\ shown' \in [Routes -> ShownRow]
      /\ troubled' \subseteq Routes
  <2>1. PICK taken, cleared : Delivered(i, effect, emptied, taken, cleared)
    BY <1>0, DeliveryCases
  <2>2. Head(calls[i].batches) \subseteq Routes
    BY <1>3 DEF Batches, Routes
  <2>3. shown' \in [Routes -> ShownRow]
    <3>1. NotShown \in ShownRow
      BY DEF NotShown, ShownRow, Row
    <3>2. \A r \in Routes : shown[r] \in ShownRow
      BY DEF TypeOK
    <3>3. \A r \in Routes : [version |-> calls[i].got[r], key |-> calls[i].keys[r]] \in ShownRow
      BY <1>2 DEF CallRow, ShownRow
    <3> QED
      BY <2>1, <3>1, <3>2, <3>3 DEF Delivered
  <2>4. Judged(calls[i], taken) \subseteq Routes
    BY <2>1, <2>2, TroubleTyped DEF Delivered
  <2> QED
    BY <2>1, <2>2, <2>3, <2>4 DEF Delivered
<1>5. CASE Len(calls[i].batches) = 1
  <2>1. CallsFit(calls')
    BY <1>1, <1>5, TypeFits, FitRemoved, FitAdded
  <2> QED
    BY <1>1, <1>2, <1>4, <1>5, <2>1
<1>6. CASE Len(calls[i].batches) # 1
  <2> DEFINE got == [r \in Routes |-> None]
             c == [calls[i] EXCEPT !.batches = Tail(@), !.got = got]
  <2>1. got \in [Routes -> Nat \cup {None, Failed}]
    OBVIOUS
  <2>2. calls' = [calls EXCEPT ![i] = c]
    BY <1>1, <1>2, <1>6 DEF CallRow
  <2> HIDE DEF got
  <2>3. Tail(calls[i].batches) \in Loads
    BY <1>3, <1>6 DEF Loads
  <2>4. c \in CallRow /\ c.batches \in Loads
    BY <1>2, <2>1, <2>3 DEF CallRow
  <2>5. CallsFit(calls')
    BY <2>2, <2>4, CallChanged
  <2> QED
    BY <1>1, <1>2, <1>3, <1>4, <1>6, <2>2, <2>5 DEF got
<1> QED
  BY <1>5, <1>6

\* What a delivery starts or empties is of one batch, next to the one delivered.
DeliversOne(i, B, effect, emptied) ==
  /\ At(i, "loading")
  /\ Deliver(i, effect, emptied)
  /\ B \cap Head(calls[i].batches) = {}
  /\ Wants(wanted') /\ \A r \in Routes \ B : wanted'[r] = wanted[r]
  /\ \/ effect = <<>> /\ emptied = {} /\ wanted' = wanted
     \/ effect = <<Load(<<B>>, wanted')>> /\ emptied = {} /\ Len(calls[i].batches) = 1
     \/ effect = <<>> /\ emptied = B /\ Len(calls[i].batches) = 1
  /\ EditsKept

LEMMA DeliversEffect ==
  ASSUME TypeOK, NEW i \in DOMAIN calls, NEW B \in Batches, NEW effect, NEW emptied,
         DeliversOne(i, B, effect, emptied)
  PROVE  /\ CallsFit(effect)
         /\ emptied \cup UNION {Head(e.batches) : e \in Range(effect)} \subseteq B
         /\ effect # <<>> =>
              emptied \cup UNION {Head(e.batches) : e \in Range(effect)} = B
         /\ \A k \in DOMAIN effect :
              /\ effect[k].step = "loading" /\ effect[k].flag = None /\ effect[k].form = "load"
              /\ effect[k].batches = <<B>> /\ effect[k].keys = wanted'
              /\ effect[k].got = [r \in Routes |-> None] /\ k = 1
<1>1. CASE effect = <<>>
  <2>1. CallsFit(<<>>) /\ DOMAIN <<>> = {} /\ Range(<<>>) = {}
    BY DEF CallsFit, Range
  <2> QED
    BY <1>1, <2>1 DEF DeliversOne
<1>2. CASE effect = <<Load(<<B>>, wanted')>> /\ emptied = {}
  <2>1. <<B>> \in Loads /\ Wants(wanted')
    BY DEF Loads, DeliversOne
  <2> DEFINE c == Load(<<B>>, wanted')
  <2>2. /\ c \in CallRow /\ c.step = "loading" /\ c.flag = None /\ c.form = "load"
        /\ c.batches = <<B>> /\ c.keys = wanted' /\ c.got = [r \in Routes |-> None]
    BY <2>1, PlainLoad, TypeWants
  <2> HIDE DEF c
  <2>3. CallsFit(<<c>>)
    BY <2>1, <2>2, FitOne
  <2>4. effect = <<c>>
    BY <1>2 DEF c
  <2>5. DOMAIN effect = {1} /\ effect[1] = c
    BY <2>4
  <2>6. Range(effect) = {c}
    BY <2>5 DEF Range
  <2>7. Head(c.batches) = B
    BY <2>2
  <2> QED
    BY <1>2, <2>2, <2>3, <2>4, <2>5, <2>6, <2>7
<1> QED
  BY <1>1, <1>2 DEF DeliversOne

LEMMA TypeDelivers == ASSUME TypeOK, Delivers PROVE TypeOK'
<1>1. PICK i \in DOMAIN calls, B \in Batches, effect \in Seq(CallRow), emptied \in SUBSET Routes :
        DeliversOne(i, B, effect, emptied)
  BY DEF Delivers, DeliversOne
<1>2. /\ CallsFit(effect)
      /\ emptied \cup UNION {Head(e.batches) : e \in Range(effect)} \subseteq B
  BY <1>1, DeliversEffect
<1>3. Deliver(i, effect, emptied) /\ B \cap Head(calls[i].batches) = {}
  BY <1>1 DEF DeliversOne
<1>4. /\ shown' \in [Routes -> ShownRow] /\ CallsFit(calls') /\ troubled' \subseteq Routes
      /\ UNCHANGED <<page, stored>>
  BY <1>2, <1>3, Delivering
<1> QED
  BY <1>1, <1>4, TypeKept DEF DeliversOne, TypeOK

\* Every kind of action keeps the types.
LEMMA TypeStep == ASSUME TypeOK, Kinds PROVE TypeOK' /\ page' = page
<1>1. TypeOK'
  BY TypeActs, TypeSends, TypeStarts, TypeRefreshPortal, TypeReplies, TypeReads, TypeBreaks,
     TypeEnds, TypeReloads, TypeSendsAgain, TypeDelivers DEF Kinds
<1>2. page' = page
  <2>1. Acts \/ Sends \/ Starts \/ RefreshPortal => page' = page
    BY DEF Acts, Sends, Send, Starts, RefreshPortal
  <2>2. Replies \/ Reads \/ Breaks \/ Ends => page' = page
    BY DEF Replies, Answer, Reads, Fetch, Breaks, Ends
  <2>3. Reloads \/ SendsAgain => page' = page
    BY DEF Reloads, Reload, SendsAgain
  <2>4. \A i, effect, emptied : Deliver(i, effect, emptied) => page' = page
    BY DEF Deliver
  <2>5. Delivers => page' = page
    BY <2>4 DEF Delivers
  <2> QED
    BY <2>1, <2>2, <2>3, <2>5 DEF Kinds
<1> QED
  BY <1>1, <1>2

-----------------------------------------------------------------------------
(* Buttons come back *)

ButtonInv ==
  /\ ButtonsComeBack
  /\ \A i \in DOMAIN calls : calls[i].flag # None =>
       /\ calls[i].flag # Flag("loading")
       /\ ~Busy(calls[i].flag) => calls[i].flag \in flags

\* The handlers that are left when the one at i has ended, and those it starts.
LEMMA Remaining ==
  ASSUME NEW s, CallsFit(s), NEW i \in DOMAIN s, NEW effect, CallsFit(effect)
  PROVE  /\ RemoveAt(s, i) \o <<>> = RemoveAt(s, i)
         /\ \A m \in DOMAIN (RemoveAt(s, i) \o effect) :
              \/ /\ m \in 1..(Len(s) - 1) /\ Old(i, m) \in DOMAIN s /\ Old(i, m) # i
                 /\ (RemoveAt(s, i) \o effect)[m] = s[Old(i, m)]
              \/ /\ m - (Len(s) - 1) \in DOMAIN effect
                 /\ (RemoveAt(s, i) \o effect)[m] = effect[m - (Len(s) - 1)]
         /\ \A k \in DOMAIN s \ {i} : \E m \in DOMAIN (RemoveAt(s, i) \o effect) :
              /\ m \in 1..(Len(s) - 1) /\ k = Old(i, m)
              /\ (RemoveAt(s, i) \o effect)[m] = s[k]
<1> DEFINE left == RemoveAt(s, i)
<1>1. /\ left \in Seq(CallRow) /\ Len(left) = Len(s) - 1
      /\ \A m \in 1..(Len(s) - 1) :
           Old(i, m) \in DOMAIN s /\ Old(i, m) # i /\ left[m] = s[Old(i, m)]
      /\ \A k \in DOMAIN s \ {i} : \E m \in 1..(Len(s) - 1) : k = Old(i, m)
  <2>1. s \in Seq(CallRow)
    BY DEF CallsFit
  <2> QED
    BY <2>1, Removal
<1> HIDE DEF left
<1>2. left \o <<>> = left
  BY <1>1, ConcatEmptySeq
<1>3. /\ DOMAIN left = 1..Len(left)
      /\ \A m \in DOMAIN left : m \in DOMAIN (left \o effect) /\ (left \o effect)[m] = left[m]
      /\ \A m \in DOMAIN (left \o effect) \ DOMAIN left :
           m - Len(left) \in DOMAIN effect /\ (left \o effect)[m] = effect[m - Len(left)]
  BY <1>1, Adding DEF CallsFit
<1>4. \A m \in DOMAIN (left \o effect) :
        \/ /\ m \in 1..(Len(s) - 1) /\ Old(i, m) \in DOMAIN s /\ Old(i, m) # i
           /\ (left \o effect)[m] = s[Old(i, m)]
        \/ /\ m - (Len(s) - 1) \in DOMAIN effect
           /\ (left \o effect)[m] = effect[m - (Len(s) - 1)]
  BY <1>1, <1>3
<1>5. \A k \in DOMAIN s \ {i} : \E m \in DOMAIN (left \o effect) :
        m \in 1..(Len(s) - 1) /\ k = Old(i, m) /\ (left \o effect)[m] = s[k]
  <2> TAKE k \in DOMAIN s \ {i}
  <2>1. PICK m \in 1..(Len(s) - 1) : k = Old(i, m)
    BY <1>1
  <2>2. m \in DOMAIN left
    BY <1>1, <1>3
  <2>3. m \in DOMAIN (left \o effect) /\ (left \o effect)[m] = left[m] /\ left[m] = s[Old(i, m)]
    BY <1>1, <1>3, <2>2
  <2> QED
    BY <2>1, <2>3
<1> QED
  BY <1>2, <1>4, <1>5 DEF left

\* The flags of handlers stay, and new handlers have none.
LEMMA ButtonsSame ==
  ASSUME ButtonInv, flags' \ {Flag("loading")} = flags \ {Flag("loading")},
         \A i \in DOMAIN calls : i \in DOMAIN calls' /\ calls'[i].flag = calls[i].flag,
         \A i \in DOMAIN calls' \ DOMAIN calls : calls'[i].flag = None
  PROVE  ButtonInv'
<1>1. ASSUME NEW f \in flags' \ {Flag("loading")}
      PROVE  \E i \in DOMAIN calls' : calls'[i].flag = f
  BY DEF ButtonInv, ButtonsComeBack
<1>2. ASSUME NEW i \in DOMAIN calls', NEW j \in DOMAIN calls',
             calls'[i].flag # None, ~Busy(calls'[i].flag), calls'[j].flag = calls'[i].flag
      PROVE  j = i
  <2>1. i \in DOMAIN calls /\ j \in DOMAIN calls
    BY <1>2
  <2> QED
    BY <1>2, <2>1 DEF ButtonInv, ButtonsComeBack
<1>3. ASSUME NEW i \in DOMAIN calls', calls'[i].flag # None
      PROVE  /\ calls'[i].flag # Flag("loading")
             /\ ~Busy(calls'[i].flag) => calls'[i].flag \in flags'
  <2>1. i \in DOMAIN calls
    BY <1>3
  <2> QED
    BY <1>3, <2>1 DEF ButtonInv
<1> QED
  BY <1>1, <1>2, <1>3 DEF ButtonInv, ButtonsComeBack, Busy, Flag

\* A handler resets its flag as it ends.
LEMMA ButtonsEnd ==
  ASSUME TypeOK, ButtonInv, NEW i \in DOMAIN calls, NEW effect, CallsFit(effect),
         \A k \in DOMAIN effect : effect[k].flag = None,
         calls' = RemoveAt(calls, i) \o effect,
         flags' \ {Flag("loading")} = Lowered(calls[i].flag) \ {Flag("loading")}
  PROVE  ButtonInv'
<1>1. \A m \in DOMAIN calls' :
        \/ /\ m \in 1..(Len(calls) - 1) /\ Old(i, m) \in DOMAIN calls /\ Old(i, m) # i
           /\ calls'[m] = calls[Old(i, m)]
        \/ calls'[m].flag = None
  BY TypeFits, Remaining
<1>2. \A k \in DOMAIN calls \ {i} : \E m \in DOMAIN calls' : calls'[m] = calls[k]
  BY TypeFits, Remaining
<1>3. i \in Nat /\ \A m \in 1..(Len(calls) - 1) : m \in Nat
  BY TypeFits, LenProperties DEF CallsFit
<1>4. ASSUME NEW f \in flags' \ {Flag("loading")}
      PROVE  \E m \in DOMAIN calls' : calls'[m].flag = f
  <2>1. f \in flags \ {Flag("loading")} /\ f \in Lowered(calls[i].flag)
    BY DEF Lowered
  <2>2. PICK k \in DOMAIN calls : calls[k].flag = f
    BY <2>1 DEF ButtonInv, ButtonsComeBack
  <2>3. k # i
    BY <2>1, <2>2 DEF Lowered, BusyFlags, Busy
  <2> QED
    BY <1>2, <2>2, <2>3
<1>5. ASSUME NEW m \in DOMAIN calls', NEW k \in DOMAIN calls',
             calls'[m].flag # None, ~Busy(calls'[m].flag), calls'[k].flag = calls'[m].flag
      PROVE  k = m
  <2>1. /\ m \in 1..(Len(calls) - 1) /\ Old(i, m) \in DOMAIN calls
        /\ calls'[m] = calls[Old(i, m)]
        /\ k \in 1..(Len(calls) - 1) /\ Old(i, k) \in DOMAIN calls
        /\ calls'[k] = calls[Old(i, k)]
    BY <1>1, <1>5
  <2>2. Old(i, m) = Old(i, k)
    BY <1>5, <2>1 DEF ButtonInv, ButtonsComeBack
  <2> QED
    BY <1>3, <2>1, <2>2, OldApart
<1>6. ASSUME NEW m \in DOMAIN calls', calls'[m].flag # None
      PROVE  /\ calls'[m].flag # Flag("loading")
             /\ ~Busy(calls'[m].flag) => calls'[m].flag \in flags'
  <2>1. Old(i, m) \in DOMAIN calls /\ Old(i, m) # i /\ calls'[m] = calls[Old(i, m)]
    BY <1>1, <1>6
  <2>2. calls'[m].flag # Flag("loading")
    BY <1>6, <2>1 DEF ButtonInv
  <2>3. ASSUME ~Busy(calls'[m].flag) PROVE calls'[m].flag \in flags'
    <3>1. calls'[m].flag \in flags
      BY <1>6, <2>1, <2>3 DEF ButtonInv
    <3>2. calls'[m].flag # calls[i].flag
      BY <1>6, <2>1, <2>3 DEF ButtonInv, ButtonsComeBack
    <3>3. calls'[m].flag \in Lowered(calls[i].flag)
      BY <1>6, <2>3, <3>1, <3>2 DEF Lowered, BusyFlags, Busy
    <3> QED
      BY <2>2, <3>3
  <2> QED
    BY <2>2, <2>3
<1> QED
  BY <1>4, <1>5, <1>6 DEF ButtonInv, ButtonsComeBack, Busy, Flag

\* A handler raises a flag that was not raised.
LEMMA ButtonsSend ==
  ASSUME TypeOK, ButtonInv, NEW form \in Forms, NEW flag \in FlagValue \ {Flag("loading")},
         NEW e \in Filled, Send(form, flag, e)
  PROVE  ButtonInv'
<1> DEFINE c == Call(form, flag, e)
<1>1. c \in CallRow /\ c.flag = flag /\ c.step = "sent"
  BY NewCall, TypeWants
<1>2. calls' = calls \o <<c>> /\ CallsFit(<<c>>) /\ flag \notin flags /\ flags' = Raised(flag)
  BY <1>1, TypeFits, FitAppended, FitOne DEF Send
<1> HIDE DEF c
<1>3. DOMAIN <<c>> = {1} /\ <<c>>[1] = c
  OBVIOUS
<1>4. /\ \A m \in DOMAIN calls : m \in DOMAIN calls' /\ calls'[m] = calls[m]
      /\ \A m \in DOMAIN calls' \ DOMAIN calls : m = Len(calls) + 1 /\ calls'[m] = c
      /\ Len(calls) + 1 \in DOMAIN calls' /\ Len(calls) + 1 \notin DOMAIN calls
  <2>1. /\ Len(calls) \in Nat /\ DOMAIN calls = 1..Len(calls)
        /\ Len(<<c>>) = 1
        /\ DOMAIN calls' = 1..(Len(calls) + Len(<<c>>))
        /\ \A m \in DOMAIN calls : m \in DOMAIN calls' /\ calls'[m] = calls[m]
        /\ \A m \in DOMAIN calls' \ DOMAIN calls :
             m - Len(calls) \in DOMAIN <<c>> /\ calls'[m] = <<c>>[m - Len(calls)]
    BY <1>2, TypeFits, Adding DEF CallsFit
  <2> QED
    BY <1>3, <2>1
<1>5. ASSUME NEW f \in flags' \ {Flag("loading")}
      PROVE  \E m \in DOMAIN calls' : calls'[m].flag = f
  <2>1. CASE f = flag
    BY <1>1, <1>4, <2>1
  <2>2. CASE f # flag
    <3>1. f \in flags
      BY <1>2, <2>2 DEF Raised
    <3>2. PICK k \in DOMAIN calls : calls[k].flag = f
      BY <3>1 DEF ButtonInv, ButtonsComeBack
    <3> QED
      BY <1>4, <3>2
  <2> QED
    BY <2>1, <2>2
<1>6. ASSUME NEW m \in DOMAIN calls, calls[m].flag # None, ~Busy(calls[m].flag)
      PROVE  calls[m].flag \in flags /\ calls[m].flag # flag
  BY <1>2, <1>6 DEF ButtonInv
<1>7. ASSUME NEW m \in DOMAIN calls', NEW k \in DOMAIN calls',
             calls'[m].flag # None, ~Busy(calls'[m].flag), calls'[k].flag = calls'[m].flag
      PROVE  k = m
  <2>1. CASE m \in DOMAIN calls /\ k \in DOMAIN calls
    BY <1>4, <1>7, <2>1 DEF ButtonInv, ButtonsComeBack
  <2>2. CASE m \in DOMAIN calls /\ k \notin DOMAIN calls
    BY <1>1, <1>4, <1>6, <1>7, <2>2
  <2>3. CASE m \notin DOMAIN calls /\ k \in DOMAIN calls
    BY <1>1, <1>4, <1>6, <1>7, <2>3
  <2>4. CASE m \notin DOMAIN calls /\ k \notin DOMAIN calls
    BY <1>4, <2>4
  <2> QED
    BY <2>1, <2>2, <2>3, <2>4
<1>8. ASSUME NEW m \in DOMAIN calls', calls'[m].flag # None
      PROVE  /\ calls'[m].flag # Flag("loading")
             /\ ~Busy(calls'[m].flag) => calls'[m].flag \in flags'
  <2>1. CASE m \in DOMAIN calls
    <3>1. calls'[m].flag = calls[m].flag /\ calls[m].flag # Flag("loading")
      BY <1>4, <1>8, <2>1 DEF ButtonInv
    <3>2. ~Busy(calls[m].flag) => calls[m].flag \in flags
      BY <1>8, <2>1, <3>1, <1>6
    <3> QED
      BY <1>2, <1>8, <3>1, <3>2 DEF Raised, BusyFlags, Busy
  <2>2. CASE m \notin DOMAIN calls
    BY <1>1, <1>2, <1>4, <1>8, <2>2 DEF Raised
  <2> QED
    BY <2>1, <2>2
<1> QED
  BY <1>5, <1>7, <1>8 DEF ButtonInv, ButtonsComeBack, Busy, Flag

\* A handler goes on from where it is, for the row it was called for.
GoesOn(i, c) ==
  /\ c \in CallRow
  /\ calls' = [calls EXCEPT ![i] = c]
  /\ c.flag = calls[i].flag /\ c.target = calls[i].target /\ c.origin = calls[i].origin
  /\ c.keys = calls[i].keys
  /\ c.form = calls[i].form \/ c.form \in {"secondLetters", "address"}

LEMMA GoneOn ==
  ASSUME TypeOK, NEW i \in DOMAIN calls, NEW c, GoesOn(i, c)
  PROVE  /\ DOMAIN calls' = DOMAIN calls
         /\ \A m \in DOMAIN calls : calls'[m] = IF m = i THEN c ELSE calls[m]
<1>1. calls \in Seq(CallRow)
  BY DEF TypeOK
<1> QED
  BY <1>1, Changing DEF GoesOn

LEMMA ReplyGoesOn ==
  ASSUME TypeOK, NEW i \in DOMAIN calls, NEW touched, NEW step, NEW got,
         Replied(i, touched, step, got)
  PROVE  GoesOn(i, [calls[i] EXCEPT !.step = step, !.got = got])
<1>1. calls[i] \in CallRow
  BY CallIn
<1> QED
  BY <1>1 DEF GoesOn, Replied, CallRow

\* What a batch that is read gives the handler.
ReadBy(i, got) ==
  /\ got \in [Routes -> Nat \cup {None, Failed}]
  /\ \A r \in Routes :
       IF r \in Head(calls[i].batches) THEN got[r] \in {Failed, stored[r]} ELSE got[r] = None
  /\ calls' = [calls EXCEPT ![i] = [calls[i] EXCEPT !.got = got]]

LEMMA ReadCases ==
  ASSUME TypeOK, NEW i \in DOMAIN calls, Fetch(i)
  PROVE  \E got : ReadBy(i, got)
<1> PICK failed \in SUBSET Head(calls[i].batches) :
      calls' = [calls EXCEPT ![i].got =
                  [r \in Routes |-> IF r \notin Head(calls[i].batches) THEN None
                                    ELSE IF r \in failed THEN Failed ELSE stored[r]]]
  BY DEF Fetch
<1> DEFINE got == [r \in Routes |-> IF r \notin Head(calls[i].batches) THEN None
                                    ELSE IF r \in failed THEN Failed ELSE stored[r]]
<1>1. got \in [Routes -> Nat \cup {None, Failed}]
  BY DEF TypeOK
<1>2. \A r \in Routes :
        IF r \in Head(calls[i].batches) THEN got[r] \in {Failed, stored[r]} ELSE got[r] = None
  OBVIOUS
<1>3. calls' = [calls EXCEPT ![i] = [calls[i] EXCEPT !.got = got]]
  BY CallIn DEF CallRow
<1> HIDE DEF got
<1>4. ReadBy(i, got)
  BY <1>1, <1>2, <1>3 DEF ReadBy
<1> QED
  BY <1>4

LEMMA ReadGoesOn ==
  ASSUME TypeOK, NEW i \in DOMAIN calls, NEW got, ReadBy(i, got)
  PROVE  GoesOn(i, [calls[i] EXCEPT !.got = got])
<1>1. calls[i] \in CallRow
  BY CallIn
<1> QED
  BY <1>1 DEF GoesOn, ReadBy, CallRow

LEMMA ReloadGoesOn ==
  ASSUME TypeOK, NEW i \in DOMAIN calls, NEW b \in Loads, Reload(i, b)
  PROVE  \E c : /\ GoesOn(i, c)
                /\ c.step = "loading" /\ c.batches = b /\ c.got = [r \in Routes |-> None]
                /\ c.form = calls[i].form
<1> DEFINE got == [r \in Routes |-> None]
           c == [calls[i] EXCEPT !.step = "loading", !.batches = b, !.got = got]
<1>1. got \in [Routes -> Nat \cup {None, Failed}]
  OBVIOUS
<1>2. calls[i] \in CallRow
  BY CallIn
<1>3. calls' = [calls EXCEPT ![i] = c]
  BY <1>2 DEF Reload, CallRow
<1> HIDE DEF got
<1>4. /\ c \in CallRow /\ c.step = "loading" /\ c.batches = b /\ c.got = got
      /\ c.flag = calls[i].flag /\ c.target = calls[i].target /\ c.origin = calls[i].origin
      /\ c.keys = calls[i].keys /\ c.form = calls[i].form
  BY <1>1, <1>2 DEF CallRow
<1> HIDE DEF c
<1>5. GoesOn(i, c)
  BY <1>3, <1>4 DEF GoesOn
<1> QED
  BY <1>4, <1>5 DEF got

LEMMA SendAgainGoesOn ==
  ASSUME TypeOK, NEW i \in DOMAIN calls, NEW form \in {"secondLetters", "address"},
         calls' = [calls EXCEPT ![i].step = "sent", ![i].form = form]
  PROVE  \E c : /\ GoesOn(i, c)
                /\ c.step = "sent" /\ c.form = form
<1> DEFINE c == [calls[i] EXCEPT !.step = "sent", !.form = form]
<1>1. calls[i] \in CallRow /\ form \in Forms
  BY CallIn DEF Forms
<1>2. calls' = [calls EXCEPT ![i] = c]
  BY <1>1 DEF CallRow
<1>3. /\ c \in CallRow /\ c.step = "sent" /\ c.form = form
      /\ c.flag = calls[i].flag /\ c.target = calls[i].target /\ c.origin = calls[i].origin
      /\ c.keys = calls[i].keys
  BY <1>1 DEF CallRow
<1> HIDE DEF c
<1>4. GoesOn(i, c)
  BY <1>2, <1>3 DEF GoesOn
<1> QED
  BY <1>3, <1>4

\* A delivery that is not the last of its handler.
DeliverGoesOn(i, c) ==
  /\ GoesOn(i, c)
  /\ c.step = calls[i].step /\ c.form = calls[i].form
  /\ c.batches = Tail(calls[i].batches) /\ c.got = [r \in Routes |-> None]

LEMMA DeliveredGoesOn ==
  ASSUME TypeOK, NEW i \in DOMAIN calls, calls[i].batches \in Loads,
         Len(calls[i].batches) = 2,
         calls' = [calls EXCEPT ![i] = [calls[i] EXCEPT !.batches = Tail(@),
                                                        !.got = [r \in Routes |-> None]]]
  PROVE  \E c : DeliverGoesOn(i, c)
<1> DEFINE got == [r \in Routes |-> None]
           c == [calls[i] EXCEPT !.batches = Tail(@), !.got = got]
<1>1. got \in [Routes -> Nat \cup {None, Failed}]
  OBVIOUS
<1>2. calls[i] \in CallRow /\ Tail(calls[i].batches) \in Loads
  BY CallIn, LoadShape DEF Loads
<1> HIDE DEF got
<1>3. /\ c \in CallRow /\ c.step = calls[i].step /\ c.form = calls[i].form
      /\ c.batches = Tail(calls[i].batches) /\ c.got = got
      /\ c.flag = calls[i].flag /\ c.target = calls[i].target /\ c.origin = calls[i].origin
      /\ c.keys = calls[i].keys
  BY <1>1, <1>2 DEF CallRow
<1>4. calls' = [calls EXCEPT ![i] = c]
  BY DEF got
<1> HIDE DEF c
<1>5. DeliverGoesOn(i, c)
  BY <1>3, <1>4 DEF GoesOn, DeliverGoesOn, got
<1> QED
  BY <1>5

LEMMA ButtonsMore ==
  ASSUME TypeOK, ButtonInv, flags' \ {Flag("loading")} = flags \ {Flag("loading")},
         NEW t, CallsFit(t), \A k \in DOMAIN t : t[k].flag = None, calls' = calls \o t
  PROVE  ButtonInv'
<1>1. /\ \A m \in DOMAIN calls : m \in DOMAIN calls' /\ calls'[m] = calls[m]
      /\ \A m \in DOMAIN calls' \ DOMAIN calls :
           m - Len(calls) \in DOMAIN t /\ calls'[m] = t[m - Len(calls)]
  BY TypeFits, Adding DEF CallsFit
<1> QED
  BY <1>1, ButtonsSame

LEMMA ButtonsGoOn ==
  ASSUME TypeOK, ButtonInv, flags' \ {Flag("loading")} = flags \ {Flag("loading")},
         NEW i \in DOMAIN calls, NEW c, GoesOn(i, c)
  PROVE  ButtonInv'
<1>1. /\ DOMAIN calls' = DOMAIN calls
      /\ \A m \in DOMAIN calls : calls'[m] = IF m = i THEN c ELSE calls[m]
  BY GoneOn
<1>2. c.flag = calls[i].flag
  BY DEF GoesOn
<1> QED
  BY <1>1, <1>2, ButtonsSame

LEMMA ButtonsEnded ==
  ASSUME TypeOK, ButtonInv, NEW i \in DOMAIN calls, End(i)
  PROVE  ButtonInv'
<1>1. CallsFit(<<>>) /\ DOMAIN <<>> = {}
  BY DEF CallsFit
<1>2. calls' = RemoveAt(calls, i) \o <<>>
  BY <1>1, TypeFits, Remaining DEF End
<1> QED
  BY <1>1, <1>2, ButtonsEnd DEF End

\* The page's own flag is the only one that a load raises.
LEMMA LoadingFlag ==
  ASSUME NEW B
  PROVE  /\ WhileLoading(B) \subseteq {Flag("loading")}
         /\ (flags \cup WhileLoading(B)) \ {Flag("loading")} = flags \ {Flag("loading")}
BY DEF WhileLoading

LEMMA ButtonStep == ASSUME TypeOK, ButtonInv, Kinds PROVE ButtonInv'
<1>1. CASE Acts
  BY <1>1, ButtonsSame DEF Acts
<1>2. CASE Sends
  BY <1>2, ButtonsSend DEF Sends
<1>3. CASE Starts
  <2> PICK B \in Batches, form \in {"load", "vesting"} :
        /\ Wants(wanted')
        /\ calls' = Append(calls, [Load(<<B>>, wanted') EXCEPT !.form = form])
        /\ flags' = flags \cup WhileLoading(B)
    BY <1>3 DEF Starts
  <2> DEFINE c == [Load(<<B>>, wanted') EXCEPT !.form = form]
  <2>1. <<B>> \in Loads /\ form \in Forms
    BY DEF Loads, Forms
  <2>2. c \in CallRow /\ c.batches = <<B>> /\ c.flag = None
    BY <2>1, NewLoad, TypeWants
  <2>3. calls' = Append(calls, c)
    OBVIOUS
  <2> HIDE DEF c
  <2>4. CallsFit(<<c>>)
    BY <2>1, <2>2, FitOne
  <2>5. calls' = calls \o <<c>>
    BY <2>1, <2>2, <2>3, TypeFits, FitAppended
  <2>6. DOMAIN <<c>> = {1} /\ <<c>>[1] = c
    OBVIOUS
  <2> QED
    BY <2>2, <2>4, <2>5, <2>6, LoadingFlag, ButtonsMore
<1>4. CASE page = "portal" /\ RefreshPortal
  <2>1. /\ CallsFit(PortalLoads) /\ DOMAIN PortalLoads = {1, 2}
        /\ PortalLoads[1] = Load(<<{"summary"}>>, wanted)
        /\ PortalLoads[2] = Load(<<{"requests"}>>, wanted)
    BY <1>4, PortalShape, TypeWants
  <2>2. PortalLoads[1].flag = None /\ PortalLoads[2].flag = None
    BY <2>1 DEF Load, Call
  <2> QED
    BY <1>4, <2>1, <2>2, ButtonsMore DEF RefreshPortal
<1>5. CASE Replies
  <2>1. PICK i \in DOMAIN calls : Answer(i, TouchedBy(calls[i].form))
    BY <1>5 DEF Replies
  <2>2. UNCHANGED flags /\ \E step, got : Replied(i, TouchedBy(calls[i].form), step, got)
    BY <2>1, Answering
  <2>3. PICK step, got : Replied(i, TouchedBy(calls[i].form), step, got)
    BY <2>2
  <2> QED
    BY <2>2, <2>3, ReplyGoesOn, ButtonsGoOn
<1>6. CASE Reads
  <2>1. PICK i \in DOMAIN calls : Fetch(i)
    BY <1>6 DEF Reads
  <2>2. PICK got : ReadBy(i, got)
    BY <2>1, ReadCases
  <2>3. UNCHANGED flags
    BY <2>1 DEF Fetch
  <2> QED
    BY <2>2, <2>3, ReadGoesOn, ButtonsGoOn
<1>7. CASE Breaks
  BY <1>7, ButtonsEnded DEF Breaks
<1>8. CASE Ends
  BY <1>8, ButtonsEnded DEF Ends
<1>9. CASE Reloads
  <2>1. PICK i \in DOMAIN calls, b \in Loads : Reload(i, b)
    BY <1>9 DEF Reloads
  <2>2. PICK c : GoesOn(i, c)
    BY <2>1, ReloadGoesOn
  <2>3. flags' = flags \cup WhileLoading(Head(b))
    BY <2>1 DEF Reload
  <2> QED
    BY <2>2, <2>3, LoadingFlag, ButtonsGoOn
<1>10. CASE SendsAgain
  <2>1. PICK i \in DOMAIN calls, form \in {"secondLetters", "address"} :
          calls' = [calls EXCEPT ![i].step = "sent", ![i].form = form] /\ UNCHANGED flags
    BY <1>10 DEF SendsAgain
  <2>2. PICK c : GoesOn(i, c)
    BY <2>1, SendAgainGoesOn
  <2> QED
    BY <2>1, <2>2, ButtonsGoOn
<1>11. CASE Delivers
  <2>1. PICK i \in DOMAIN calls, B \in Batches, effect \in Seq(CallRow), emptied \in SUBSET Routes :
          DeliversOne(i, B, effect, emptied)
    BY <1>11 DEF Delivers, DeliversOne
  <2>2. /\ CallsFit(effect) /\ \A k \in DOMAIN effect : effect[k].flag = None
        /\ emptied \cup UNION {Head(e.batches) : e \in Range(effect)} \subseteq B
    BY <2>1, DeliversEffect
  <2>3. Deliver(i, effect, emptied) /\ B \cap Head(calls[i].batches) = {}
    BY <2>1 DEF DeliversOne
  <2>4. /\ calls[i].batches \in Loads
        /\ \/ /\ Len(calls[i].batches) = 1
              /\ flags' = Lowered(calls[i].flag) \ WhileLoading(Head(calls[i].batches))
              /\ calls' = RemoveAt(calls, i) \o effect
           \/ /\ Len(calls[i].batches) = 2 /\ UNCHANGED flags
              /\ calls' = [calls EXCEPT ![i] = [calls[i] EXCEPT !.batches = Tail(@),
                                                    !.got = [r \in Routes |-> None]]]
    BY <2>2, <2>3, Delivering
  <2>5. CASE /\ flags' = Lowered(calls[i].flag) \ WhileLoading(Head(calls[i].batches))
             /\ calls' = RemoveAt(calls, i) \o effect
    <3>1. flags' \ {Flag("loading")} = Lowered(calls[i].flag) \ {Flag("loading")}
      BY <2>5, LoadingFlag
    <3> QED
      BY <2>2, <2>5, <3>1, ButtonsEnd
  <2>6. CASE /\ Len(calls[i].batches) = 2 /\ UNCHANGED flags
             /\ calls' = [calls EXCEPT ![i] = [calls[i] EXCEPT !.batches = Tail(@),
                                                   !.got = [r \in Routes |-> None]]]
    <3>1. PICK c : DeliverGoesOn(i, c)
      BY <2>4, <2>6, DeliveredGoesOn
    <3> QED
      BY <2>6, <3>1, ButtonsGoOn DEF DeliverGoesOn
  <2> QED
    BY <2>4, <2>5, <2>6
<1> QED
  BY <1>1, <1>2, <1>3, <1>4, <1>5, <1>6, <1>7, <1>8, <1>9, <1>10, <1>11 DEF Kinds

-----------------------------------------------------------------------------
(* Edits match their row *)

EditInv ==
  /\ EditsMatchTheirRow
  /\ edit \in [EditForms -> Filled]
  /\ \A f \in EditForms \ {"account"} : edit[f].target = edit[f].origin
  /\ modal = "account" => edit["account"].target = edit["account"].origin
  /\ \A i \in DOMAIN calls : calls[i].form = "openAccount" =>
       /\ calls[i].flag = AccountFlag
       /\ calls[i].target = edit["account"].target
       /\ modal # "account"

\* The forms that EditInv is about.
Editing == EditForms \cup {"saveAccount", "openAccount"}

LEMMA EditsSame ==
  ASSUME EditInv, EditsKept,
         \A m \in DOMAIN calls' :
           \/ \E k \in DOMAIN calls :
                /\ calls'[m].form = calls[k].form /\ calls'[m].flag = calls[k].flag
                /\ calls'[m].target = calls[k].target /\ calls'[m].origin = calls[k].origin
           \/ calls'[m].form \notin Editing
  PROVE  EditInv'
<1>1. EditsMatchTheirRow'
  BY DEF EditInv, EditsMatchTheirRow, Editing
<1>2. /\ edit' \in [EditForms -> Filled]
      /\ \A f \in EditForms \ {"account"} : edit'[f].target = edit'[f].origin
      /\ modal' = "account" => edit'["account"].target = edit'["account"].origin
  BY DEF EditInv, EditsKept
<1>3. ASSUME NEW m \in DOMAIN calls', calls'[m].form = "openAccount"
      PROVE  /\ calls'[m].flag = AccountFlag
             /\ calls'[m].target = edit'["account"].target
             /\ modal' # "account"
  <2>1. PICK k \in DOMAIN calls :
          /\ calls'[m].form = calls[k].form /\ calls'[m].flag = calls[k].flag
          /\ calls'[m].target = calls[k].target
    BY <1>3 DEF Editing
  <2> QED
    BY <1>3, <2>1 DEF EditInv, EditsKept
<1>4. AccountFlag' = AccountFlag
  BY DEF AccountFlag, Flag
<1> QED
  BY <1>1, <1>2, <1>3, <1>4 DEF EditInv

LEMMA EditsLeft ==
  ASSUME EditInv, UNCHANGED <<modal, edit>>
  PROVE  EditsKept
BY DEF EditInv, EditsKept

LEMMA EditsMore ==
  ASSUME TypeOK, EditInv, EditsKept, NEW t, CallsFit(t), calls' = calls \o t,
         \A k \in DOMAIN t : t[k].form \notin Editing
  PROVE  EditInv'
<1>1. /\ \A m \in DOMAIN calls : m \in DOMAIN calls' /\ calls'[m] = calls[m]
      /\ \A m \in DOMAIN calls' \ DOMAIN calls :
           m - Len(calls) \in DOMAIN t /\ calls'[m] = t[m - Len(calls)]
  BY TypeFits, Adding DEF CallsFit
<1> QED
  BY <1>1, EditsSame

LEMMA EditsGoOn ==
  ASSUME TypeOK, EditInv, EditsKept, NEW i \in DOMAIN calls, NEW c, GoesOn(i, c)
  PROVE  EditInv'
<1>1. /\ DOMAIN calls' = DOMAIN calls
      /\ \A m \in DOMAIN calls : calls'[m] = IF m = i THEN c ELSE calls[m]
  BY GoneOn
<1>2. /\ c.flag = calls[i].flag /\ c.target = calls[i].target /\ c.origin = calls[i].origin
      /\ c.form = calls[i].form \/ c.form \notin Editing
  BY DEF GoesOn, Editing, EditForms
<1>3. \A m \in DOMAIN calls' :
        \/ \E k \in DOMAIN calls :
             /\ calls'[m].form = calls[k].form /\ calls'[m].flag = calls[k].flag
             /\ calls'[m].target = calls[k].target /\ calls'[m].origin = calls[k].origin
        \/ calls'[m].form \notin Editing
  BY <1>1, <1>2
<1> QED
  BY <1>3, EditsSame

LEMMA EditsEnd ==
  ASSUME TypeOK, EditInv, EditsKept, NEW i \in DOMAIN calls, NEW effect, CallsFit(effect),
         \A k \in DOMAIN effect : effect[k].form \notin Editing,
         calls' = RemoveAt(calls, i) \o effect
  PROVE  EditInv'
<1>1. \A m \in DOMAIN calls' :
        \/ Old(i, m) \in DOMAIN calls /\ calls'[m] = calls[Old(i, m)]
        \/ calls'[m].form \notin Editing
  BY TypeFits, Remaining
<1> QED
  BY <1>1, EditsSame

LEMMA EditsEnded ==
  ASSUME TypeOK, NEW i \in DOMAIN calls, End(i)
  PROVE  /\ calls' = RemoveAt(calls, i) \o <<>> /\ CallsFit(<<>>) /\ DOMAIN <<>> = {}
         /\ \A m \in DOMAIN calls' : \E k \in DOMAIN calls \ {i} : calls'[m] = calls[k]
<1>1. CallsFit(<<>>) /\ DOMAIN <<>> = {}
  BY DEF CallsFit
<1>2. calls' = RemoveAt(calls, i) \o <<>>
  BY <1>1, TypeFits, Remaining DEF End
<1>3. \A m \in DOMAIN calls' :
        Old(i, m) \in DOMAIN calls /\ Old(i, m) # i /\ calls'[m] = calls[Old(i, m)]
  BY <1>1, <1>2, TypeFits, Remaining
<1> QED
  BY <1>1, <1>2, <1>3

\* The account that is opened: no other is, whose answer could come late.
LEMMA AccountAsked ==
  ASSUME TypeOK, ButtonInv, EditInv, NEW e \in Filled, Send("openAccount", AccountFlag, e),
         modal = None, modal' = modal, edit' = [edit EXCEPT !["account"].target = e.target]
  PROVE  EditInv'
<1> DEFINE c == Call("openAccount", AccountFlag, e)
<1>1. AccountFlag \in FlagValue \ {Flag("loading")} /\ "openAccount" \in Forms
      /\ AccountFlag # None /\ ~Busy(AccountFlag)
  BY PageAssumption DEF AccountFlag, Flag, FlagValue, FlagNames, Row, Forms, Busy
<1>2. c \in CallRow /\ c.form = "openAccount" /\ c.flag = AccountFlag /\ c.target = e.target
      /\ c.step = "sent"
  BY <1>1, NewCall, TypeWants
<1>3. calls' = Append(calls, c) /\ AccountFlag \notin flags
  BY DEF Send
<1> HIDE DEF c
<1>4. /\ \A m \in DOMAIN calls : m \in DOMAIN calls' /\ calls'[m] = calls[m]
      /\ \A m \in DOMAIN calls' \ DOMAIN calls : calls'[m] = c
  <2>1. CallsFit(<<c>>) /\ calls' = calls \o <<c>>
    BY <1>2, <1>3, TypeFits, FitOne, FitAppended
  <2>2. DOMAIN <<c>> = {1} /\ <<c>>[1] = c
    OBVIOUS
  <2>3. /\ \A m \in DOMAIN calls : m \in DOMAIN calls' /\ calls'[m] = calls[m]
        /\ \A m \in DOMAIN calls' \ DOMAIN calls :
             m - Len(calls) \in DOMAIN <<c>> /\ calls'[m] = <<c>>[m - Len(calls)]
    BY <2>1, TypeFits, Adding DEF CallsFit
  <2> QED
    BY <2>2, <2>3
<1>5. \A m \in DOMAIN calls : calls[m].form # "openAccount"
  <2> SUFFICES ASSUME NEW m \in DOMAIN calls, calls[m].form = "openAccount"
               PROVE  FALSE
    OBVIOUS
  <2>1. calls[m].flag = AccountFlag
    BY DEF EditInv
  <2> QED
    BY <1>1, <1>3, <2>1 DEF ButtonInv
<1>6. /\ edit' \in [EditForms -> Filled]
      /\ edit'["account"].target = e.target
      /\ \A f \in EditForms \ {"account"} : edit'[f] = edit[f]
  <2>1. "account" \in EditForms /\ edit \in [EditForms -> Filled]
    BY DEF EditInv, EditForms
  <2>2. e.target \in Row
    BY DEF Filled
  <2> QED
    BY <2>1, <2>2 DEF Filled
<1>7. modal' # "account"
  BY PageAssumption DEF EditForms
<1>8. EditsMatchTheirRow'
  <2>1. "openAccount" \notin EditForms \cup {"saveAccount"}
    BY DEF EditForms
  <2> QED
    BY <1>2, <1>4, <2>1 DEF EditInv, EditsMatchTheirRow
<1>9. \A m \in DOMAIN calls' : calls'[m].form = "openAccount" =>
        calls'[m].flag = AccountFlag /\ calls'[m].target = edit'["account"].target
  BY <1>2, <1>4, <1>5, <1>6
<1>10. AccountFlag' = AccountFlag
  BY DEF AccountFlag, Flag
<1> QED
  BY <1>6, <1>7, <1>8, <1>9, <1>10 DEF EditInv

LEMMA AccountAnswered ==
  ASSUME TypeOK, ButtonInv, EditInv, NEW i \in DOMAIN calls, End(i),
         calls[i].form = "openAccount", modal' = "account",
         edit' = [edit EXCEPT !["account"].origin = calls[i].target]
  PROVE  EditInv'
<1>1. AccountFlag # None /\ ~Busy(AccountFlag)
  BY PageAssumption DEF AccountFlag, Flag, FlagNames, Row, Busy
<1>2. \A m \in DOMAIN calls' : \E k \in DOMAIN calls \ {i} : calls'[m] = calls[k]
  BY EditsEnded
<1>3. \A k \in DOMAIN calls \ {i} : calls[k].form # "openAccount"
  BY <1>1 DEF EditInv, ButtonInv, ButtonsComeBack
<1>4. calls[i].target = edit["account"].target /\ calls[i].target \in Row
  BY CallIn DEF EditInv, CallRow
<1>5. /\ edit' \in [EditForms -> Filled]
      /\ edit'["account"].target = edit'["account"].origin
      /\ \A f \in EditForms \ {"account"} : edit'[f] = edit[f]
  <2>1. "account" \in EditForms /\ edit \in [EditForms -> Filled]
    BY DEF EditInv, EditForms
  <2> QED
    BY <1>4, <2>1 DEF Filled
<1>6. EditsMatchTheirRow'
  BY <1>2 DEF EditInv, EditsMatchTheirRow
<1> QED
  BY <1>2, <1>3, <1>5, <1>6 DEF EditInv

LEMMA EditsSent ==
  ASSUME TypeOK, EditInv, NEW form \in Forms \ {"openAccount"}, NEW flag \in FlagValue,
         NEW e \in Filled, Send(form, flag, e), UNCHANGED <<modal, edit>>,
         form \in EditForms \cup {"saveAccount"} => e.target = e.origin
  PROVE  EditInv'
<1> DEFINE c == Call(form, flag, e)
<1>1. /\ c \in CallRow /\ c.form = form /\ c.target = e.target /\ c.origin = e.origin
      /\ c.step = "sent"
  BY NewCall, TypeWants
<1>2. calls' = Append(calls, c)
  BY DEF Send
<1> HIDE DEF c
<1>3. /\ \A m \in DOMAIN calls : m \in DOMAIN calls' /\ calls'[m] = calls[m]
      /\ \A m \in DOMAIN calls' \ DOMAIN calls : calls'[m] = c
  <2>1. CallsFit(<<c>>) /\ calls' = calls \o <<c>>
    BY <1>1, <1>2, TypeFits, FitOne, FitAppended
  <2>2. DOMAIN <<c>> = {1} /\ <<c>>[1] = c
    OBVIOUS
  <2>3. /\ \A m \in DOMAIN calls : m \in DOMAIN calls' /\ calls'[m] = calls[m]
        /\ \A m \in DOMAIN calls' \ DOMAIN calls :
             m - Len(calls) \in DOMAIN <<c>> /\ calls'[m] = <<c>>[m - Len(calls)]
    BY <2>1, TypeFits, Adding DEF CallsFit
  <2> QED
    BY <2>2, <2>3
<1>4. EditsMatchTheirRow'
  BY <1>1, <1>3 DEF EditInv, EditsMatchTheirRow
<1>5. ASSUME NEW m \in DOMAIN calls', calls'[m].form = "openAccount"
      PROVE  /\ calls'[m].flag = AccountFlag
             /\ calls'[m].target = edit["account"].target
             /\ modal # "account"
  <2>1. m \in DOMAIN calls /\ calls'[m] = calls[m]
    BY <1>1, <1>3, <1>5
  <2> QED
    BY <1>5, <2>1 DEF EditInv
<1>6. AccountFlag' = AccountFlag
  BY DEF AccountFlag, Flag
<1> QED
  BY <1>4, <1>5, <1>6 DEF EditInv

LEMMA EditStep == ASSUME TypeOK, ButtonInv, EditInv, Kinds PROVE EditInv'
<1>1. CASE Acts
  BY <1>1, EditsSame DEF Acts
<1>2. CASE Sends
  <2>1. PICK form \in Forms, flag \in FlagValue \ {Flag("loading")}, e \in Filled :
          /\ Send(form, flag, e)
          /\ form \in EditForms \cup {"saveAccount"} => e.target = e.origin
          /\ UNCHANGED modal
          /\ IF form = "openAccount"
             THEN /\ flag = AccountFlag /\ modal = None
                  /\ edit' = [edit EXCEPT !["account"].target = e.target]
             ELSE edit' = edit
    BY <1>2 DEF Sends
  <2>2. CASE form = "openAccount"
    BY <2>1, <2>2, AccountAsked
  <2>3. CASE form # "openAccount"
    BY <2>1, <2>3, EditsSent
  <2> QED
    BY <2>2, <2>3
<1>3. CASE Starts
  <2> PICK B \in Batches, form \in {"load", "vesting"} :
        /\ Wants(wanted')
        /\ calls' = Append(calls, [Load(<<B>>, wanted') EXCEPT !.form = form])
        /\ UNCHANGED <<modal, edit>>
    BY <1>3 DEF Starts
  <2> DEFINE c == [Load(<<B>>, wanted') EXCEPT !.form = form]
  <2>1. <<B>> \in Loads /\ form \in Forms /\ form \notin Editing
    BY DEF Loads, Forms, Editing, EditForms
  <2>2. c \in CallRow /\ c.batches = <<B>> /\ c.form = form
    BY <2>1, NewLoad, TypeWants
  <2>3. calls' = Append(calls, c)
    OBVIOUS
  <2> HIDE DEF c
  <2>4. CallsFit(<<c>>)
    BY <2>1, <2>2, FitOne
  <2>5. calls' = calls \o <<c>>
    BY <2>1, <2>2, <2>3, TypeFits, FitAppended
  <2>6. DOMAIN <<c>> = {1} /\ <<c>>[1] = c
    OBVIOUS
  <2> QED
    BY <2>1, <2>2, <2>4, <2>5, <2>6, EditsLeft, EditsMore
<1>4. CASE page = "portal" /\ RefreshPortal
  <2>1. /\ CallsFit(PortalLoads) /\ DOMAIN PortalLoads = {1, 2}
        /\ PortalLoads[1] = Load(<<{"summary"}>>, wanted)
        /\ PortalLoads[2] = Load(<<{"requests"}>>, wanted)
    BY <1>4, PortalShape, TypeWants
  <2>2. PortalLoads[1].form = "load" /\ PortalLoads[2].form = "load"
    BY <2>1 DEF Load, Call
  <2>3. "load" \notin Editing
    BY DEF Editing, EditForms
  <2> QED
    BY <1>4, <2>1, <2>2, <2>3, EditsLeft, EditsMore DEF RefreshPortal
<1>5. CASE Replies
  <2>1. PICK i \in DOMAIN calls : Answer(i, TouchedBy(calls[i].form))
    BY <1>5 DEF Replies
  <2>2. UNCHANGED <<modal, edit>> /\ \E step, got : Replied(i, TouchedBy(calls[i].form), step, got)
    BY <2>1, Answering
  <2>3. PICK step, got : Replied(i, TouchedBy(calls[i].form), step, got)
    BY <2>2
  <2> QED
    BY <2>2, <2>3, ReplyGoesOn, EditsLeft, EditsGoOn
<1>6. CASE Reads
  <2>1. PICK i \in DOMAIN calls : Fetch(i)
    BY <1>6 DEF Reads
  <2>2. PICK got : ReadBy(i, got)
    BY <2>1, ReadCases
  <2>3. UNCHANGED <<modal, edit>>
    BY <2>1 DEF Fetch
  <2> QED
    BY <2>2, <2>3, ReadGoesOn, EditsLeft, EditsGoOn
<1>7. CASE Breaks
  <2>1. PICK i \in DOMAIN calls : End(i) /\ EditsKept
    BY <1>7 DEF Breaks
  <2> QED
    BY <2>1, EditsEnded, EditsEnd
<1>8. CASE Ends
  <2>1. PICK i \in DOMAIN calls :
          /\ End(i)
          /\ \/ EditsKept
             \/ /\ calls[i].form = "openAccount"
                /\ modal' = "account"
                /\ edit' = [edit EXCEPT !["account"].origin = calls[i].target]
    BY <1>8 DEF Ends
  <2>2. CASE EditsKept
    BY <2>1, <2>2, EditsEnded, EditsEnd
  <2>3. CASE /\ calls[i].form = "openAccount"
             /\ modal' = "account"
             /\ edit' = [edit EXCEPT !["account"].origin = calls[i].target]
    BY <2>1, <2>3, AccountAnswered
  <2> QED
    BY <2>1, <2>2, <2>3
<1>9. CASE Reloads
  <2>1. PICK i \in DOMAIN calls, b \in Loads : Reload(i, b) /\ EditsKept
    BY <1>9 DEF Reloads
  <2>2. PICK c : GoesOn(i, c)
    BY <2>1, ReloadGoesOn
  <2> QED
    BY <2>1, <2>2, EditsGoOn
<1>10. CASE SendsAgain
  <2>1. PICK i \in DOMAIN calls, form \in {"secondLetters", "address"} :
          calls' = [calls EXCEPT ![i].step = "sent", ![i].form = form] /\ UNCHANGED <<modal, edit>>
    BY <1>10 DEF SendsAgain
  <2>2. PICK c : GoesOn(i, c)
    BY <2>1, SendAgainGoesOn
  <2> QED
    BY <2>1, <2>2, EditsLeft, EditsGoOn
<1>11. CASE Delivers
  <2>1. PICK i \in DOMAIN calls, B \in Batches, effect \in Seq(CallRow), emptied \in SUBSET Routes :
          DeliversOne(i, B, effect, emptied)
    BY <1>11 DEF Delivers, DeliversOne
  <2>2. /\ CallsFit(effect) /\ \A k \in DOMAIN effect : effect[k].form = "load"
        /\ emptied \cup UNION {Head(e.batches) : e \in Range(effect)} \subseteq B
    BY <2>1, DeliversEffect
  <2>3. Deliver(i, effect, emptied) /\ B \cap Head(calls[i].batches) = {} /\ EditsKept
    BY <2>1 DEF DeliversOne
  <2>4. /\ calls[i].batches \in Loads
        /\ \/ calls' = RemoveAt(calls, i) \o effect
           \/ /\ Len(calls[i].batches) = 2
              /\ calls' = [calls EXCEPT ![i] = [calls[i] EXCEPT !.batches = Tail(@),
                                                    !.got = [r \in Routes |-> None]]]
    BY <2>2, <2>3, Delivering
  <2>5. CASE calls' = RemoveAt(calls, i) \o effect
    <3>1. "load" \notin Editing
      BY DEF Editing, EditForms
    <3> QED
      BY <2>2, <2>3, <2>5, <3>1, EditsEnd
  <2>6. CASE /\ Len(calls[i].batches) = 2
             /\ calls' = [calls EXCEPT ![i] = [calls[i] EXCEPT !.batches = Tail(@),
                                                   !.got = [r \in Routes |-> None]]]
    <3>1. PICK c : DeliverGoesOn(i, c)
      BY <2>4, <2>6, DeliveredGoesOn
    <3> QED
      BY <2>3, <3>1, EditsGoOn DEF DeliverGoesOn
  <2> QED
    BY <2>4, <2>5, <2>6
<1> QED
  BY <1>1, <1>2, <1>3, <1>4, <1>5, <1>6, <1>7, <1>8, <1>9, <1>10, <1>11 DEF Kinds

-----------------------------------------------------------------------------
(* Shows what is stored *)

\* What is shown of a route is what is stored and wanted, or nothing.
Shows(s, version, key) == s = NotShown \/ s = [version |-> version, key |-> key]

\* What is not shown as it is stored is loaded by a handler in flight.
FreshInv ==
  \A r \in RoutesOf[page] \ troubled :
    \/ Shows(shown[r], stored[r], wanted[r])
    \/ \E i \in DOMAIN calls : Owes(page, calls[i], r)

LEMMA FreshAtRest == FreshInv => ShowsWhatIsStored
<1> SUFFICES ASSUME FreshInv, calls = <<>>, NEW r \in RoutesOf[page] \ troubled
             PROVE  Shows(shown[r], stored[r], wanted[r])
  BY DEF ShowsWhatIsStored, Shows
<1>1. DOMAIN calls = {}
  OBVIOUS
<1> QED
  BY <1>1 DEF FreshInv

\* The next state of one route.
Fresh(r) ==
  \/ Shows(shown'[r], stored'[r], wanted'[r])
  \/ \E i \in DOMAIN calls' : Owes(page, calls'[i], r)

\* What the route shows, or the handler that owes it, is still there.
LEMMA FreshKept ==
  ASSUME FreshInv, NEW r \in RoutesOf[page] \ troubled,
         shown'[r] = shown[r], stored'[r] = stored[r], wanted'[r] = wanted[r],
         \A k \in DOMAIN calls : Owes(page, calls[k], r) =>
           \E m \in DOMAIN calls' : Owes(page, calls'[m], r)
  PROVE  Fresh(r)
BY DEF FreshInv, Fresh

\* Handlers that are added leave the others alone.
LEMMA FreshMore ==
  ASSUME TypeOK, FreshInv, NEW t, CallsFit(t), calls' = calls \o t,
         NEW r \in RoutesOf[page] \ troubled,
         shown'[r] = shown[r], stored'[r] = stored[r], wanted'[r] = wanted[r]
  PROVE  Fresh(r)
<1>1. \A m \in DOMAIN calls : m \in DOMAIN calls' /\ calls'[m] = calls[m]
  BY TypeFits, Adding DEF CallsFit
<1> QED
  BY <1>1, FreshKept

\* One handler goes on, and owes what it owed.
LEMMA FreshGoesOn ==
  ASSUME TypeOK, FreshInv, NEW i \in DOMAIN calls, NEW c, GoesOn(i, c),
         NEW r \in RoutesOf[page] \ troubled, Owes(page, calls[i], r) => Owes(page, c, r),
         shown'[r] = shown[r], stored'[r] = stored[r], wanted'[r] = wanted[r]
  PROVE  Fresh(r)
<1>1. /\ DOMAIN calls' = DOMAIN calls
      /\ \A m \in DOMAIN calls : calls'[m] = IF m = i THEN c ELSE calls[m]
  BY GoneOn
<1>2. ASSUME NEW k \in DOMAIN calls, Owes(page, calls[k], r)
      PROVE  k \in DOMAIN calls' /\ Owes(page, calls'[k], r)
  BY <1>1, <1>2
<1> QED
  BY <1>2, FreshKept

\* One ends, that owes nothing.
LEMMA FreshEnded ==
  ASSUME TypeOK, FreshInv, NEW i \in DOMAIN calls, NEW effect, CallsFit(effect),
         calls' = RemoveAt(calls, i) \o effect,
         NEW r \in RoutesOf[page] \ troubled, ~Owes(page, calls[i], r),
         shown'[r] = shown[r], stored'[r] = stored[r], wanted'[r] = wanted[r]
  PROVE  Fresh(r)
<1>1. \A k \in DOMAIN calls \ {i} : \E m \in DOMAIN calls' : calls'[m] = calls[k]
  BY TypeFits, Remaining
<1>2. ASSUME NEW k \in DOMAIN calls, Owes(page, calls[k], r)
      PROVE  \E m \in DOMAIN calls' : Owes(page, calls'[m], r)
  <2>1. k \in DOMAIN calls \ {i}
    BY <1>2
  <2>2. PICK m \in DOMAIN calls' : calls'[m] = calls[k]
    BY <1>1, <2>1
  <2> QED
    BY <1>2, <2>2
<1> QED
  BY <1>2, FreshKept

LEMMA OneBatch ==
  ASSUME NEW B
  PROVE  UNION Range(<<B>>) = B /\ Head(<<B>>) = B /\ Len(<<B>>) = 1
<1>1. DOMAIN <<B>> = {1} /\ <<B>>[1] = B /\ Head(<<B>>) = B /\ Len(<<B>>) = 1
  OBVIOUS
<1>2. Range(<<B>>) = {B}
  BY <1>1 DEF Range
<1> QED
  BY <1>1, <1>2

\* Only one page has settings.
LEMMA SettingsPage == ASSUME TypeOK, "settings" \in RoutesOf[page] PROVE page = "settings"
BY DEF TypeOK, Pages, RoutesOf

\* What a handler owes that has its answer is what its write changed.
LEMMA OwesTouched ==
  ASSUME TypeOK, NEW r \in RoutesOf[page], NEW c, Owes(page, c, r), c.step = "accepted"
  PROVE  r \in TouchedBy(c.form)
<1>1. CASE c.form = "secondLetters" /\ r = "settings"
  <2>1. page = "settings"
    BY <1>1, SettingsPage
  <2> QED
    BY <1>1, <2>1 DEF TouchedBy, TouchedOn
<1> QED
  BY <1>1 DEF Owes, TouchedBy

LEMMA FreshSends ==
  ASSUME TypeOK, FreshInv, Sends, NEW r \in RoutesOf[page] \ troubled'
  PROVE  Fresh(r)
<1>1. PICK form \in Forms, flag \in FlagValue, e \in Filled :
        Send(form, flag, e) /\ UNCHANGED wanted
  BY DEF Sends
<1> DEFINE c == Call(form, flag, e)
<1>2. c \in CallRow /\ c.step = "sent"
  BY NewCall, TypeWants
<1>3. calls' = Append(calls, c) /\ UNCHANGED <<shown, stored, wanted, troubled>>
  BY <1>1 DEF Send
<1> HIDE DEF c
<1>4. calls' = calls \o <<c>> /\ CallsFit(<<c>>)
  BY <1>2, <1>3, TypeFits, FitAppended, FitOne
<1> QED
  BY <1>3, <1>4, FreshMore

LEMMA FreshStarts ==
  ASSUME TypeOK, FreshInv, Starts, NEW r \in RoutesOf[page] \ troubled'
  PROVE  Fresh(r)
<1> PICK B \in Batches, form \in {"load", "vesting"} :
      /\ Wants(wanted') /\ \A x \in Routes \ B : wanted'[x] = wanted[x]
      /\ calls' = Append(calls, [Load(<<B>>, wanted') EXCEPT !.form = form])
      /\ UNCHANGED <<page, stored, shown, troubled>>
  BY DEF Starts
<1> DEFINE c == [Load(<<B>>, wanted') EXCEPT !.form = form]
<1>1. <<B>> \in Loads /\ form \in Forms
  BY DEF Loads, Forms
<1>2. c \in CallRow /\ c.batches = <<B>> /\ c.step = "loading"
  BY <1>1, NewLoad, TypeWants
<1>3. calls' = Append(calls, c)
  OBVIOUS
<1> HIDE DEF c
<1>4. CallsFit(<<c>>) /\ calls' = calls \o <<c>>
  BY <1>1, <1>2, <1>3, TypeFits, FitAppended, FitOne
<1>5. CASE r \in B
  <2>1. Owes(page, c, r)
    BY <1>2, <1>5, OneBatch DEF Owes
  <2>2. Len(calls) + 1 \in DOMAIN calls' /\ calls'[Len(calls) + 1] = c
    BY <1>2, <1>3, AppendProperties, LenProperties DEF TypeOK
  <2> QED
    BY <2>1, <2>2 DEF Fresh
<1>6. CASE r \notin B
  <2>1. wanted'[r] = wanted[r]
    BY <1>6 DEF Routes
  <2> QED
    BY <1>4, <2>1, FreshMore
<1> QED
  BY <1>5, <1>6

LEMMA FreshRefreshPortal ==
  ASSUME TypeOK, FreshInv, page = "portal", RefreshPortal, NEW r \in RoutesOf[page] \ troubled'
  PROVE  Fresh(r)
<1>1. CallsFit(PortalLoads) /\ calls' = calls \o PortalLoads
  BY PortalShape, TypeWants DEF RefreshPortal
<1>2. UNCHANGED <<shown, stored, wanted, troubled>>
  BY DEF RefreshPortal
<1> QED
  BY <1>1, <1>2, FreshMore

\* A write whose answer comes is loaded by the handler that has it.
LEMMA FreshReplies ==
  ASSUME TypeOK, FreshInv, Replies, NEW r \in RoutesOf[page] \ troubled'
  PROVE  Fresh(r)
<1>1. PICK i \in DOMAIN calls : Answer(i, TouchedBy(calls[i].form))
  BY DEF Replies
<1>2. /\ UNCHANGED <<page, shown, wanted>> /\ calls[i].step = "sent" /\ troubled \subseteq troubled'
      /\ \E step, got : Replied(i, TouchedBy(calls[i].form), step, got)
  BY <1>1, Answering
<1>3. PICK step, got : Replied(i, TouchedBy(calls[i].form), step, got)
  BY <1>2
<1> DEFINE c == [calls[i] EXCEPT !.step = step, !.got = got]
<1>4. GoesOn(i, c)
  BY <1>3, ReplyGoesOn
<1>5. c.step = step /\ c.form = calls[i].form /\ step \in {"accepted", "refused"}
  BY <1>3, CallIn DEF CallRow, Replied
<1>6. r \in Routes \ troubled' /\ r \in RoutesOf[page] \ troubled
  BY <1>2 DEF Routes
<1> HIDE DEF c
<1>7. CASE step = "accepted" /\ r \in TouchedBy(calls[i].form)
  <2>1. Owes(page, c, r)
    BY <1>5, <1>7 DEF Owes, TouchedBy
  <2>2. i \in DOMAIN calls' /\ calls'[i] = c
    BY <1>4, GoneOn
  <2> QED
    BY <2>1, <2>2 DEF Fresh
<1>8. CASE ~(step = "accepted" /\ r \in TouchedBy(calls[i].form))
  <2>1. stored'[r] = stored[r]
    BY <1>3, <1>6, <1>8 DEF Replied
  <2>2. Owes(page, calls[i], r) => Owes(page, c, r)
    BY <1>2, <1>5 DEF Owes
  <2> QED
    BY <1>2, <1>4, <1>6, <2>1, <2>2, FreshGoesOn
<1> QED
  BY <1>7, <1>8

LEMMA FreshReads ==
  ASSUME TypeOK, FreshInv, Reads, NEW r \in RoutesOf[page] \ troubled'
  PROVE  Fresh(r)
<1>1. PICK i \in DOMAIN calls : Fetch(i)
  BY DEF Reads
<1>2. PICK got : ReadBy(i, got)
  BY <1>1, ReadCases
<1>3. UNCHANGED <<shown, stored, wanted, troubled>>
  BY <1>1 DEF Fetch
<1> DEFINE c == [calls[i] EXCEPT !.got = got]
<1>4. GoesOn(i, c)
  BY <1>2, ReadGoesOn
<1>5. c.step = calls[i].step /\ c.form = calls[i].form /\ c.batches = calls[i].batches
  BY CallIn DEF CallRow
<1> HIDE DEF c
<1>6. Owes(page, calls[i], r) => Owes(page, c, r)
  BY <1>5 DEF Owes
<1> QED
  BY <1>3, <1>4, <1>6, FreshGoesOn

LEMMA FreshBreaks ==
  ASSUME TypeOK, FreshInv, Breaks, NEW r \in RoutesOf[page] \ troubled'
  PROVE  Fresh(r)
<1>1. PICK i \in DOMAIN calls :
        /\ troubled \subseteq troubled'
        /\ \A x \in RoutesOf[page] : Owes(page, calls[i], x) => x \in troubled'
        /\ End(i)
        /\ UNCHANGED <<page, stored, shown, wanted>>
  BY DEF Breaks
<1>2. calls' = RemoveAt(calls, i) \o <<>> /\ CallsFit(<<>>)
  BY <1>1, EditsEnded
<1> QED
  BY <1>1, <1>2, FreshEnded

LEMMA FreshEnds ==
  ASSUME TypeOK, FreshInv, Ends, NEW r \in RoutesOf[page] \ troubled'
  PROVE  Fresh(r)
<1>1. PICK i \in DOMAIN calls :
        /\ At(i, "accepted")
        /\ End(i)
        /\ \A x \in RoutesOf[page] :
             IF x \in TouchedBy(calls[i].form)
             THEN /\ x \in Unkeyed \cap Answered(calls[i].form)
                  /\ shown'[x] = [version |-> calls[i].got[x], key |-> None]
             ELSE shown'[x] = shown[x]
        /\ troubled' = Judged(calls[i], TouchedBy(calls[i].form))
        /\ UNCHANGED <<page, stored, wanted>>
  BY DEF Ends
<1>2. CASE r \in TouchedBy(calls[i].form)
  <2>1. wanted[r] = None
    BY <1>1, <1>2 DEF TypeOK, Wants
  <2>2. calls[i].got[r] = stored[r]
    BY <1>1, <1>2 DEF Judged
  <2> QED
    BY <1>1, <1>2, <2>1, <2>2 DEF Shows, Fresh
<1>3. CASE r \notin TouchedBy(calls[i].form)
  <2>1. r \in RoutesOf[page] \ troubled /\ shown'[r] = shown[r]
    BY <1>1, <1>3 DEF Judged
  <2>2. ~Owes(page, calls[i], r)
    BY <1>1, <1>3, OwesTouched DEF At
  <2>3. calls' = RemoveAt(calls, i) \o <<>> /\ CallsFit(<<>>)
    BY <1>1, EditsEnded
  <2> QED
    BY <1>1, <2>1, <2>2, <2>3, FreshEnded
<1> QED
  BY <1>2, <1>3

LEMMA FreshReloads ==
  ASSUME TypeOK, FreshInv, Reloads, NEW r \in RoutesOf[page] \ troubled'
  PROVE  Fresh(r)
<1>1. PICK i \in DOMAIN calls, b \in Loads :
        /\ At(i, "accepted")
        /\ TouchedBy(calls[i].form) \subseteq UNION Range(b)
        /\ Reload(i, b)
        /\ UNCHANGED wanted
  BY DEF Reloads
<1>2. UNCHANGED <<shown, stored, wanted, troubled>>
  BY <1>1 DEF Reload
<1>3. PICK c : GoesOn(i, c) /\ c.step = "loading" /\ c.batches = b
  BY <1>1, ReloadGoesOn
<1>4. Owes(page, calls[i], r) => Owes(page, c, r)
  <2> SUFFICES ASSUME Owes(page, calls[i], r) PROVE Owes(page, c, r)
    OBVIOUS
  <2>1. r \in TouchedBy(calls[i].form)
    BY <1>1, OwesTouched DEF At
  <2> QED
    BY <1>1, <1>3, <2>1 DEF Owes
<1> QED
  BY <1>2, <1>3, <1>4, FreshGoesOn

LEMMA FreshSendsAgain ==
  ASSUME TypeOK, FreshInv, SendsAgain, NEW r \in RoutesOf[page] \ troubled'
  PROVE  Fresh(r)
<1>1. PICK i \in DOMAIN calls, form \in {"secondLetters", "address"} :
        /\ At(i, "accepted")
        /\ TouchedBy(calls[i].form) \subseteq (IF form = "secondLetters" THEN {"settings"} ELSE {})
        /\ calls' = [calls EXCEPT ![i].step = "sent", ![i].form = form]
        /\ UNCHANGED <<page, stored, shown, wanted, troubled>>
  BY DEF SendsAgain
<1>2. PICK c : GoesOn(i, c) /\ c.step = "sent" /\ c.form = form
  BY <1>1, SendAgainGoesOn
<1>3. Owes(page, calls[i], r) => Owes(page, c, r)
  <2> SUFFICES ASSUME Owes(page, calls[i], r) PROVE Owes(page, c, r)
    OBVIOUS
  <2>1. r \in TouchedBy(calls[i].form)
    BY <1>1, OwesTouched DEF At
  <2> QED
    BY <1>1, <1>2, <2>1 DEF Owes
<1> QED
  BY <1>1, <1>2, <1>3, FreshGoesOn

\* A delivery, as one route sees it.
Delivery(i, B, effect, emptied, taken, cleared) ==
  /\ DeliversOne(i, B, effect, emptied)
  /\ Delivered(i, effect, emptied, taken, cleared)
  /\ calls[i].step = "loading" /\ calls[i].batches \in Loads
  /\ CallsFit(effect)
  /\ UNCHANGED <<page, stored>>

\* The routes of the batch: what was taken and not overtaken is up to date.
LEMMA FreshTaken ==
  ASSUME TypeOK, NEW i \in DOMAIN calls, NEW B \in Batches, NEW effect, NEW emptied,
         NEW taken, NEW cleared, Delivery(i, B, effect, emptied, taken, cleared),
         NEW r \in RoutesOf[page] \ troubled', r \in Head(calls[i].batches)
  PROVE  Fresh(r)
<1>1. r \in Routes /\ r \notin B /\ r \in taken /\ r \notin emptied
  BY DEF Routes, Delivery, Delivered, DeliversOne
<1>2. calls[i].keys[r] = wanted[r] /\ calls[i].got[r] = stored[r]
  BY <1>1 DEF Delivery, Delivered, Judged
<1>3. wanted'[r] = wanted[r] /\ stored'[r] = stored[r]
  BY <1>1 DEF Delivery, DeliversOne
<1>4. shown'[r] = [version |-> calls[i].got[r], key |-> calls[i].keys[r]]
  BY <1>1 DEF Delivery, Delivered
<1> QED
  BY <1>2, <1>3, <1>4 DEF Shows, Fresh

\* Those that a delivery leaves alone.
LEMMA FreshOutside ==
  ASSUME TypeOK, NEW i \in DOMAIN calls, NEW B \in Batches, NEW effect, NEW emptied,
         NEW taken, NEW cleared, Delivery(i, B, effect, emptied, taken, cleared),
         NEW r \in RoutesOf[page] \ troubled', r \notin Head(calls[i].batches),
         r \notin B \/ (wanted' = wanted /\ emptied = {})
  PROVE  /\ r \in RoutesOf[page] \ troubled
         /\ shown'[r] = shown[r] /\ stored'[r] = stored[r] /\ wanted'[r] = wanted[r]
<1>1. r \in Routes /\ r \notin taken /\ r \notin cleared /\ r \notin emptied
  BY DEF Routes, Delivery, Delivered, DeliversOne
<1>2. r \notin troubled
  BY <1>1 DEF Delivery, Delivered, Judged
<1>3. wanted'[r] = wanted[r]
  BY <1>1 DEF Delivery, DeliversOne
<1> QED
  BY <1>1, <1>2, <1>3 DEF Delivery, Delivered

\* The last batch of a handler.
LEMMA FreshDeliversLast ==
  ASSUME TypeOK, FreshInv, NEW i \in DOMAIN calls, NEW B \in Batches, NEW effect, NEW emptied,
         NEW taken, NEW cleared, Delivery(i, B, effect, emptied, taken, cleared),
         Len(calls[i].batches) = 1, calls' = RemoveAt(calls, i) \o effect,
         NEW r \in RoutesOf[page] \ troubled', r \notin Head(calls[i].batches)
  PROVE  Fresh(r)
<1>1. /\ CallsFit(effect)
      /\ \/ effect = <<>> /\ emptied = {} /\ wanted' = wanted
         \/ effect = <<Load(<<B>>, wanted')>> /\ emptied = {}
         \/ effect = <<>> /\ emptied = B
  BY DEF Delivery, DeliversOne
<1>2. CASE r \notin B \/ (wanted' = wanted /\ emptied = {})
  <2>1. /\ r \in RoutesOf[page] \ troubled
        /\ shown'[r] = shown[r] /\ stored'[r] = stored[r] /\ wanted'[r] = wanted[r]
    BY <1>2, FreshOutside
  <2>2. UNION Range(calls[i].batches) = Head(calls[i].batches)
    BY LoadShape DEF Delivery
  <2>3. ~Owes(page, calls[i], r)
    BY <2>2 DEF Owes, Delivery
  <2> QED
    BY <1>1, <2>1, <2>3, FreshEnded
<1>3. CASE r \in B /\ effect = <<Load(<<B>>, wanted')>>
  <2>1. DOMAIN effect = {1}
    BY <1>3
  <2>2. effect[1].step = "loading" /\ effect[1].batches = <<B>>
    BY <2>1, DeliversEffect DEF Delivery
  <2>3. Owes(page, effect[1], r)
    BY <1>3, <2>2, OneBatch DEF Owes
  <2>4. \E m \in DOMAIN calls' : calls'[m] = effect[1]
    <3>1. CallsFit(RemoveAt(calls, i))
      BY TypeFits, FitRemoved
    <3> QED
      BY <1>1, <2>1, <3>1, AddedAt DEF CallsFit
  <2> QED
    BY <2>3, <2>4 DEF Fresh
<1>4. CASE r \in B /\ effect = <<>> /\ emptied = B
  <2>1. r \notin taken /\ r \in Routes
    BY DEF Delivery, Delivered, Routes
  <2>2. shown'[r] = NotShown
    BY <1>4, <2>1 DEF Delivery, Delivered
  <2> QED
    BY <2>2 DEF Shows, Fresh
<1> QED
  BY <1>1, <1>2, <1>3, <1>4

\* The first batch of the portal: the handler still owes the second.
LEMMA FreshDeliversFirst ==
  ASSUME TypeOK, FreshInv, NEW i \in DOMAIN calls, NEW B \in Batches, NEW effect, NEW emptied,
         NEW taken, NEW cleared, Delivery(i, B, effect, emptied, taken, cleared),
         Len(calls[i].batches) = 2, NEW c, DeliverGoesOn(i, c),
         NEW r \in RoutesOf[page] \ troubled', r \notin Head(calls[i].batches)
  PROVE  Fresh(r)
<1>1. wanted' = wanted /\ emptied = {}
  BY DEF Delivery, DeliversOne
<1>2. /\ r \in RoutesOf[page] \ troubled
      /\ shown'[r] = shown[r] /\ stored'[r] = stored[r] /\ wanted'[r] = wanted[r]
  BY <1>1, FreshOutside
<1>3. /\ UNION Range(calls[i].batches) = Head(calls[i].batches) \cup calls[i].batches[2]
      /\ Tail(calls[i].batches) = <<calls[i].batches[2]>>
  BY LoadShape DEF Delivery
<1>4. Owes(page, calls[i], r) => Owes(page, c, r)
  <2> SUFFICES ASSUME Owes(page, calls[i], r) PROVE Owes(page, c, r)
    OBVIOUS
  <2>1. r \in calls[i].batches[2]
    BY <1>3 DEF Owes, Delivery
  <2>2. c.step = "loading" /\ c.batches = <<calls[i].batches[2]>>
    BY <1>3 DEF DeliverGoesOn, Delivery
  <2> QED
    BY <2>1, <2>2, OneBatch DEF Owes
<1>5. GoesOn(i, c)
  BY DEF DeliverGoesOn
<1> QED
  BY <1>2, <1>4, <1>5, FreshGoesOn

LEMMA FreshDelivers ==
  ASSUME TypeOK, FreshInv, Delivers, NEW r \in RoutesOf[page] \ troubled'
  PROVE  Fresh(r)
<1>1. PICK i \in DOMAIN calls, B \in Batches, effect \in Seq(CallRow), emptied \in SUBSET Routes :
        DeliversOne(i, B, effect, emptied)
  BY DEF Delivers, DeliversOne
<1>2. /\ CallsFit(effect)
      /\ emptied \cup UNION {Head(e.batches) : e \in Range(effect)} \subseteq B
  BY <1>1, DeliversEffect
<1>3. Deliver(i, effect, emptied) /\ B \cap Head(calls[i].batches) = {}
  BY <1>1 DEF DeliversOne
<1>4. /\ calls[i].step = "loading" /\ calls[i].batches \in Loads
      /\ \/ Len(calls[i].batches) = 1 /\ calls' = RemoveAt(calls, i) \o effect
         \/ /\ Len(calls[i].batches) = 2
            /\ calls' = [calls EXCEPT ![i] = [calls[i] EXCEPT !.batches = Tail(@),
                                                 !.got = [x \in Routes |-> None]]]
      /\ UNCHANGED <<page, stored>>
  BY <1>2, <1>3, Delivering
<1>5. emptied \cap Head(calls[i].batches) = {}
  BY <1>2, <1>3
<1>6. PICK taken, cleared : Delivered(i, effect, emptied, taken, cleared)
  BY <1>3, <1>5, DeliveryCases
<1>7. Delivery(i, B, effect, emptied, taken, cleared)
  BY <1>1, <1>2, <1>4, <1>6 DEF Delivery
<1>8. CASE r \in Head(calls[i].batches)
  BY <1>7, <1>8, FreshTaken
<1>9. CASE r \notin Head(calls[i].batches) /\ Len(calls[i].batches) = 1
  BY <1>4, <1>7, <1>9, FreshDeliversLast
<1>10. CASE r \notin Head(calls[i].batches) /\ Len(calls[i].batches) = 2
  <2>0. calls' = [calls EXCEPT ![i] = [calls[i] EXCEPT !.batches = Tail(@),
                                                       !.got = [x \in Routes |-> None]]]
    BY <1>4, <1>10
  <2>1. PICK c : DeliverGoesOn(i, c)
    BY <1>4, <1>10, <2>0, DeliveredGoesOn
  <2> QED
    BY <1>7, <1>10, <2>1, FreshDeliversFirst
<1> QED
  BY <1>4, <1>8, <1>9, <1>10

LEMMA FreshStep == ASSUME TypeOK, FreshInv, Kinds PROVE FreshInv'
<1>1. page' = page
  BY TypeStep
<1>2. ASSUME NEW r \in RoutesOf[page] \ troubled' PROVE Fresh(r)
  <2>1. CASE Acts
    BY <2>1 DEF Acts, FreshInv, Fresh
  <2> QED
    BY <2>1, FreshSends, FreshStarts, FreshRefreshPortal, FreshReplies, FreshReads,
       FreshBreaks, FreshEnds, FreshReloads, FreshSendsAgain, FreshDelivers DEF Kinds
<1> QED
  BY <1>1, <1>2 DEF FreshInv, Fresh

-----------------------------------------------------------------------------
(* Every action of every page is of a kind *)

Known == TypeOK /\ EditInv

\* Of a kind, or without an effect.
OfKind == Kinds \/ UNCHANGED pageVars

LEMMA SomeFlags ==
  /\ \A x \in FlagNames \ {"loading"} : Flag(x) \in FlagValue \ {Flag("loading")}
  /\ \A r \in Row : RowFlag(r) \in FlagValue \ {Flag("loading")}
  /\ None \in FlagValue \ {Flag("loading")}
<1>1. /\ None \in Row /\ "busy" \in FlagNames /\ "loading" \in FlagNames
      /\ None \notin FlagNames \X Row
  BY PageAssumption DEF Row, FlagNames
<1> QED
  BY <1>1 DEF Flag, RowFlag, FlagValue

LEMMA SomeEdits ==
  /\ NoEdit \in Filled
  /\ \A x \in Row : [target |-> x, origin |-> x] \in Filled
  /\ Known => \A f \in EditForms : edit[f] \in Filled
BY DEF NoEdit, Filled, Row, Known, EditInv

LEMMA ModalNone == None # "account"
BY PageAssumption DEF EditForms

\* What a page's form was filled from is the row that it is for.
LEMMA EditFilled ==
  ASSUME Known, NEW f \in EditForms \ {"account"}, NEW x \in Row,
         edit' = [edit EXCEPT ![f] = [target |-> x, origin |-> x]],
         modal' = modal \/ modal' # "account"
  PROVE  EditsKept
BY DEF Known, EditInv, EditsKept, Filled

LEMMA EditCleared ==
  ASSUME Known, NEW f \in EditForms \ {"account"}, edit' = [edit EXCEPT ![f] = NoEdit],
         modal' = modal \/ modal' # "account"
  PROVE  EditsKept
BY EditFilled DEF NoEdit, Row

LEMMA EditLeft ==
  ASSUME Known, edit' = edit, modal' = modal \/ modal' # "account"
  PROVE  EditsKept
BY DEF Known, EditInv, EditsKept

LEMMA OpenKind ==
  ASSUME NEW m, Open(m) \/ Close, EditsKept
  PROVE  OfKind
BY DEF Open, Close, Acts, OfKind, Kinds

LEMMA OpenPlain ==
  ASSUME Known, NEW m, (Open(m) /\ m # "account") \/ Close, edit' = edit
  PROVE  OfKind
<1>1. modal' # "account"
  BY ModalNone DEF Open, Close
<1> QED
  BY <1>1, EditLeft, OpenKind

LEMMA RejectKind == ASSUME NEW flag, Reject(flag) PROVE OfKind
BY DEF Reject, FlagReset, OfKind, pageVars

LEMMA SendKind ==
  ASSUME NEW form \in Forms \ {"openAccount"}, NEW flag \in FlagValue \ {Flag("loading")},
         NEW e \in Filled, Send(form, flag, e),
         form \in EditForms \cup {"saveAccount"} => e.target = e.origin,
         UNCHANGED <<wanted, modal, edit>>
  PROVE  OfKind
BY DEF Sends, OfKind, Kinds

\* A form without a row of its own, or a button.
LEMMA PlainSendKind ==
  ASSUME NEW form \in Forms \ {"openAccount"}, NEW flag \in FlagValue \ {Flag("loading")},
         Send(form, flag, NoEdit), UNCHANGED <<wanted, modal, edit>>
  PROVE  OfKind
BY SendKind, SomeEdits DEF NoEdit

LEMMA LoadKind ==
  ASSUME Known, NEW B \in Batches, Wants(wanted'), \A r \in Routes \ B : wanted'[r] = wanted[r],
         StartLoad(<<B>>, wanted'), UNCHANGED <<page, stored, shown, modal, edit>>
  PROVE  OfKind
<1>1. /\ calls' = Append(calls, Load(<<B>>, wanted'))
      /\ flags' = flags \cup WhileLoading(B) /\ troubled' = troubled
  BY OneBatch DEF StartLoad
<1>2. Load(<<B>>, wanted') = [Load(<<B>>, wanted') EXCEPT !.form = "load"]
  <2>1. <<B>> \in Loads /\ "load" \in Forms
    BY DEF Loads, Forms
  <2> QED
    BY <2>1, NewLoad, TypeWants DEF Known
<1>3. Starts
  BY <1>1, <1>2 DEF Starts
<1> QED
  BY <1>3 DEF OfKind, Kinds

LEMMA RefreshKind ==
  ASSUME Known, NEW B \in Batches, Refresh(<<B>>)
  PROVE  OfKind
<1>1. wanted' = wanted /\ Wants(wanted) /\ UNCHANGED <<page, stored, shown, modal, edit>>
  BY TypeWants DEF Known, Refresh
<1>2. StartLoad(<<B>>, wanted')
  BY <1>1 DEF Refresh
<1> QED
  BY <1>1, <1>2, LoadKind

\* A search, or another selection.
LEMMA KeyedWants ==
  ASSUME Known, NEW r \in Routes \ Unkeyed, NEW k \in Row, wanted' = [wanted EXCEPT ![r] = k]
  PROVE  /\ Wants(wanted') /\ \A B : r \in B => \A x \in Routes \ B : wanted'[x] = wanted[x]
         /\ wanted'[r] = k
<1>1. Wants(wanted)
  BY TypeWants DEF Known
<1> QED
  BY <1>1 DEF Wants

LEMMA WantKind ==
  ASSUME Known, NEW r \in Routes \ Unkeyed, NEW k \in Row, NEW B \in Batches, r \in B,
         wanted' = [wanted EXCEPT ![r] = k], StartLoad(<<B>>, wanted'),
         UNCHANGED <<page, stored, shown, modal, edit>>
  PROVE  OfKind
BY KeyedWants, LoadKind

LEMMA AnswerKind ==
  ASSUME NEW i \in DOMAIN calls, Answer(i, TouchedBy(calls[i].form))
  PROVE  OfKind
BY DEF Replies, OfKind, Kinds

LEMMA ThrowKind ==
  ASSUME Known, NEW i \in DOMAIN calls, At(i, "accepted"), ResetThrows(i, TouchedBy(calls[i].form)),
         UNCHANGED <<modal, edit>>
  PROVE  OfKind
<1>1. /\ troubled' = NotLoaded(TouchedBy(calls[i].form))
      /\ End(i) /\ UNCHANGED <<page, stored, shown, wanted>>
  BY DEF ResetThrows
<1>2. troubled \subseteq troubled' /\ troubled' \subseteq Routes
  BY <1>1, TroubleTyped DEF NotLoaded, Known
<1>3. \A r \in RoutesOf[page] : Owes(page, calls[i], r) => r \in troubled'
  BY <1>1, OwesTouched DEF NotLoaded, Routes, At, Known
<1>4. Breaks
  BY <1>1, <1>2, <1>3, EditLeft DEF Breaks
<1> QED
  BY <1>4 DEF OfKind, Kinds

LEMMA NetworkKind == ASSUME Known, Network PROVE OfKind
<1>1. PICK i \in DOMAIN calls : Refused(i) \/ Fetch(i)
  BY DEF Network
<1>2. CASE Refused(i)
  <2>1. /\ calls[i].step = "refused" /\ End(i) /\ UNCHANGED <<page, stored, shown, wanted, modal, edit>>
        /\ troubled' = IF calls[i].form = "secondLetters" THEN NotLoaded({"settings"}) ELSE troubled
    BY <1>2 DEF Refused, At
  <2>2. troubled \subseteq troubled' /\ troubled' \subseteq Routes
    BY <2>1, TroubleTyped DEF NotLoaded, Known, TypeOK
  <2>3. \A r \in RoutesOf[page] : Owes(page, calls[i], r) => r \in troubled'
    BY <2>1 DEF Owes, NotLoaded, Routes
  <2>4. Breaks
    BY <2>1, <2>2, <2>3, EditLeft DEF Breaks
  <2> QED
    BY <2>4 DEF OfKind, Kinds
<1>3. CASE Fetch(i)
  BY <1>3 DEF Reads, OfKind, Kinds
<1> QED
  BY <1>1, <1>2, <1>3

LEMMA ReloadKind ==
  ASSUME NEW i \in DOMAIN calls, NEW b \in Loads, At(i, "accepted"), Reload(i, b),
         TouchedBy(calls[i].form) \subseteq UNION Range(b), EditsKept, UNCHANGED wanted
  PROVE  OfKind
<1>1. Reloads
  BY DEF Reloads
<1> QED
  BY <1>1 DEF OfKind, Kinds

LEMMA DeliverKind ==
  ASSUME Known, NEW i \in DOMAIN calls, Deliver(i, <<>>, {}), EditsKept, UNCHANGED wanted
  PROVE  OfKind
<1>1. At(i, "loading")
  BY DEF Deliver
<1>2. {} \in Batches /\ <<>> \in Seq(CallRow) /\ {} \in SUBSET Routes
  BY DEF Batches
<1>3. Wants(wanted') /\ \A r \in Routes : wanted'[r] = wanted[r]
  BY TypeWants DEF Known
<1>4. Delivers
  BY <1>1, <1>2, <1>3 DEF Delivers
<1> QED
  BY <1>4 DEF OfKind, Kinds

LEMMA SettleKind ==
  ASSUME Known, NEW i \in DOMAIN calls, Deliver(i, <<>>, {}), UNCHANGED <<wanted, modal, edit>>
  PROVE  OfKind
BY EditLeft, DeliverKind

\* A handler that ends without having changed what the page loads.
LEMMA EndKind ==
  ASSUME Known, NEW i \in DOMAIN calls, At(i, "accepted"), End(i), TouchedBy(calls[i].form) = {},
         EditsKept, UNCHANGED <<page, stored, shown, wanted, troubled>>
  PROVE  OfKind
<1>1. /\ shown' \in [Routes -> ShownRow] /\ troubled' = Judged(calls[i], {})
      /\ troubled' \subseteq Routes
  BY DEF Known, TypeOK, Judged
<1>2. Ends
  BY <1>1 DEF Ends
<1> QED
  BY <1>2 DEF OfKind, Kinds

\* A handler that takes the answer for one route.
LEMMA TakeKind ==
  ASSUME Known, NEW i \in DOMAIN calls, At(i, "accepted"), End(i), NEW r \in Routes, NEW x \in Routes,
         shown' = [shown EXCEPT ![r] = [version |-> calls[i].got[x], key |-> None]],
         \/ TouchedBy(calls[i].form) = {r} /\ r \in Unkeyed \cap Answered(calls[i].form) /\ r = x
         \/ TouchedBy(calls[i].form) = {} /\ r \notin RoutesOf[page],
         troubled' = Judged(calls[i], TouchedBy(calls[i].form)),
         EditsKept, UNCHANGED <<page, stored, wanted>>
  PROVE  OfKind
<1>1. calls[i].got[x] \in Nat \cup {None, Failed} /\ shown \in [Routes -> ShownRow] /\ None \in Row
  BY CallIn DEF Known, TypeOK, CallRow, Row
<1>2. /\ shown' \in [Routes -> ShownRow]
      /\ shown'[r] = [version |-> calls[i].got[x], key |-> None]
      /\ \A y \in Routes : y # r => shown'[y] = shown[y]
  <2>1. [version |-> calls[i].got[x], key |-> None] \in ShownRow
    BY <1>1 DEF ShownRow
  <2> QED
    BY <1>1, <2>1
<1>3. \A y \in RoutesOf[page] : y \in Routes
  BY DEF Routes
<1>4. \A y \in RoutesOf[page] :
        IF y \in TouchedBy(calls[i].form)
        THEN /\ y \in Unkeyed \cap Answered(calls[i].form)
             /\ shown'[y] = [version |-> calls[i].got[y], key |-> None]
        ELSE shown'[y] = shown[y]
  BY <1>2, <1>3
<1>5. troubled' \subseteq Routes
  <2>1. TouchedBy(calls[i].form) \in SUBSET Routes
    OBVIOUS
  <2> QED
    BY <2>1, TroubleTyped DEF Known
<1>6. Ends
  BY <1>2, <1>4, <1>5 DEF Ends
<1> QED
  BY <1>6 DEF OfKind, Kinds

LEMMA AgainKind ==
  ASSUME NEW i \in DOMAIN calls, NEW form \in {"secondLetters", "address"}, At(i, "accepted"),
         TouchedBy(calls[i].form) \subseteq (IF form = "secondLetters" THEN {"settings"} ELSE {}),
         calls' = [calls EXCEPT ![i].step = "sent", ![i].form = form],
         UNCHANGED <<page, stored, shown, wanted, modal, edit, flags, troubled>>
  PROVE  OfKind
<1>1. SendsAgain
  BY DEF SendsAgain
<1> QED
  BY <1>1 DEF OfKind, Kinds

LEMMA Touches ==
  /\ page = "equity" => \A form : TouchedBy(form) = EquityTouched(form)
  /\ page = "people" => \A form : TouchedBy(form) = PeopleTouched(form)
  /\ page = "grant" => \A form : TouchedBy(form) = GrantTouched(form)
  /\ page = "person" => \A form : TouchedBy(form) = {"details"}
  /\ page = "portal" => \A form : TouchedBy(form) = IF form = "packet" THEN RoutesOf.portal ELSE {}
  /\ page = "sign" => \A form : TouchedBy(form) = {"packet"}
  /\ page = "documents" => \A form : TouchedBy(form) = DocumentsTouched(form)
  /\ page = "fundraising" => \A form : TouchedBy(form) = FundraisingTouched(form)
  /\ page = "settings" =>
       \A form : TouchedBy(form) = IF form = "rbac" THEN {"rbac"} ELSE {"settings"}
  /\ page \in {"tasks", "approvals", "m365", "valuations"} =>
       \A form : TouchedBy(form) = {"items"}
  /\ page \in {"search", "home", "security"} => \A form : TouchedBy(form) = {}
BY DEF TouchedBy, TouchedOn

LEMMA EquityKinds == ASSUME Known, EquityNext PROVE OfKind
<1>1. /\ page = "equity" /\ RoutesOf[page] = {"lists", "capTable"}
      /\ {"lists", "capTable"} \in Batches
      /\ EquityLoad = <<{"lists", "capTable"}>> /\ EquityLoad \in Loads
      /\ UNION Range(EquityLoad) = {"lists", "capTable"}
  BY OneBatch DEF EquityNext, RoutesOf, Batches, Loads, EquityLoad
<1>2. \A form : TouchedBy(form) = EquityTouched(form)
  BY <1>1, Touches
<1>3. /\ "grant" \in EditForms \ {"account"} /\ "plan" \in EditForms \ {"account"}
      /\ {"grant", "deleteGrant", "base", "pools", "opening", "txn", "plan"}
           \subseteq Forms \ {"openAccount"}
      /\ {"grant", "base", "pools", "opening", "txn", "plan"} \subseteq FlagNames \ {"loading"}
  BY DEF EditForms, Forms, FlagNames
<1>4. /\ \A f \in EditForms \ {"account"} : edit[f] \in Filled /\ edit[f].target = edit[f].origin
      /\ Rows \subseteq Row
  BY DEF Known, EditInv, Row
<1>5. ASSUME OpenCreateGrant \/ CancelGrantEdit \/ \E r \in Rows : StartGrantEdit(r)
      PROVE  OfKind
  <2>1. CASE OpenCreateGrant
    BY <1>3, <2>1, EditCleared, OpenKind DEF OpenCreateGrant, Open
  <2>2. CASE CancelGrantEdit
    BY <1>3, <2>2, ModalNone, EditCleared, OpenKind DEF CancelGrantEdit, Close
  <2>3. ASSUME NEW r \in Rows, StartGrantEdit(r) PROVE OfKind
    BY <1>3, <1>4, <2>3, EditFilled, OpenKind DEF StartGrantEdit, Open
  <2> QED
    BY <1>5, <2>1, <2>2, <2>3
<1>6. ASSUME SubmitGrant PROVE OfKind
  BY <1>3, <1>4, <1>6, SendKind, SomeFlags DEF SubmitGrant
<1>7. ASSUME NEW r \in Rows, DeleteGrant(r) PROVE OfKind
  <2>1. [target |-> r, origin |-> edit["grant"].target] \in Filled
    BY <1>3, <1>4 DEF Filled
  <2>2. "deleteGrant" \notin EditForms \cup {"saveAccount"}
    BY DEF EditForms
  <2> QED
    BY <1>3, <1>7, <2>1, <2>2, SendKind, SomeFlags DEF DeleteGrant
<1>8. ASSUME \/ RejectGrant \/ RejectOpening \/ RejectTxn \/ RejectPlan
             \/ \E m \in {"base", "pools", "opening", "txn"} : RejectCapTable(m)
      PROVE  OfKind
  BY <1>8, RejectKind DEF RejectGrant, RejectOpening, RejectTxn, RejectPlan, RejectCapTable
<1>9. ASSUME \/ \E m \in {"base", "pools", "opening", "txn"} : OpenEquityModal(m)
             \/ CloseEquityModal
      PROVE  OfKind
  BY <1>9, OpenPlain DEF OpenEquityModal, CloseEquityModal
<1>10. ASSUME NEW m, SubmitCapTable(m) PROVE OfKind
  BY <1>3, <1>10, PlainSendKind, SomeFlags DEF SubmitCapTable, CapTableForm
<1>11. ASSUME SubmitOpening \/ SubmitTxn PROVE OfKind
  <2>1. CASE SubmitOpening
    BY <1>3, <2>1, PlainSendKind, SomeFlags DEF SubmitOpening
  <2>2. CASE SubmitTxn
    BY <1>3, <2>2, PlainSendKind, SomeFlags DEF SubmitTxn
  <2> QED
    BY <1>11, <2>1, <2>2
<1>12. ASSUME OpenCreatePlan \/ ResetPlanEditor \/ \E r \in Rows : StartPlanEdit(r)
       PROVE  OfKind
  <2>1. CASE OpenCreatePlan
    BY <1>3, <2>1, EditCleared, OpenKind DEF OpenCreatePlan, Open
  <2>2. CASE ResetPlanEditor
    BY <1>3, <2>2, ModalNone, EditCleared, OpenKind DEF ResetPlanEditor, Close
  <2>3. ASSUME NEW r \in Rows, StartPlanEdit(r) PROVE OfKind
    BY <1>3, <1>4, <2>3, EditFilled, OpenKind DEF StartPlanEdit, Open
  <2> QED
    BY <1>12, <2>1, <2>2, <2>3
<1>13. ASSUME SubmitPlan PROVE OfKind
  BY <1>3, <1>4, <1>13, SendKind, SomeFlags DEF SubmitPlan
<1>14. ASSUME Refresh(EquityLoad) PROVE OfKind
  BY <1>1, <1>14, RefreshKind
<1>15. ASSUME NEW i \in DOMAIN calls, GrantSaved(i) \/ PlanSaved(i) PROVE OfKind
  <2>1. TouchedBy(calls[i].form) \subseteq UNION Range(EquityLoad)
    BY <1>1, <1>2 DEF EquityTouched
  <2>2. CASE GrantSaved(i)
    <3>1. EditsKept
      BY <1>3, <2>2, ModalNone, EditCleared DEF GrantSaved
    <3> QED
      BY <1>1, <2>1, <2>2, <3>1, ReloadKind DEF GrantSaved, Reloading
  <2>3. CASE PlanSaved(i)
    <3>1. EditsKept
      BY <1>3, <2>3, ModalNone, EditCleared DEF PlanSaved
    <3> QED
      BY <1>1, <2>1, <2>3, <3>1, ReloadKind DEF PlanSaved, Reloading
  <2> QED
    BY <1>15, <2>2, <2>3
<1>16. ASSUME NEW i \in DOMAIN calls, GrantDeleted(i) PROVE OfKind
  <2>1. TouchedBy(calls[i].form) \subseteq UNION Range(EquityLoad)
    BY <1>1, <1>2 DEF EquityTouched
  <2>2. EditsKept
    <3>1. CASE calls[i].origin = calls[i].target
      BY <1>3, <1>16, <3>1, ModalNone, EditCleared DEF GrantDeleted
    <3>2. CASE calls[i].origin # calls[i].target
      BY <1>16, <3>2, EditLeft DEF GrantDeleted
    <3> QED
      BY <3>1, <3>2
  <2> QED
    BY <1>1, <1>16, <2>1, <2>2, ReloadKind DEF GrantDeleted, Reloading
<1>17. ASSUME NEW i \in DOMAIN calls, CapTableSaved(i) PROVE OfKind
  <2>1. "capTable" \in Routes /\ "capTable" \in Unkeyed \cap Answered(calls[i].form)
    BY <1>1, <1>17 DEF Routes, Unkeyed, Answered, CapTableSaved
  <2>2. TouchedBy(calls[i].form) = {"capTable"}
    BY <1>2, <1>17 DEF CapTableSaved, EquityTouched
  <2>3. EditsKept
    BY <1>17, ModalNone, EditLeft DEF CapTableSaved
  <2> QED
    BY <1>17, <2>1, <2>2, <2>3, TakeKind DEF CapTableSaved
<1>18. ASSUME NEW i \in DOMAIN calls, EntryRecorded(i) PROVE OfKind
  BY <1>2, <1>18, ThrowKind DEF EntryRecorded
<1>19. ASSUME NEW i \in DOMAIN calls, Deliver(i, <<>>, {}), UNCHANGED <<wanted, modal, edit>>
       PROVE  OfKind
  BY <1>19, SettleKind
<1>20. ASSUME NEW i \in DOMAIN calls, Answer(i, EquityTouched(calls[i].form)) PROVE OfKind
  BY <1>2, <1>20, AnswerKind
<1>21. CASE EquityUse
  BY <1>5, <1>6, <1>7, <1>8, <1>9, <1>10, <1>11, <1>12, <1>13, <1>14, <1>21 DEF EquityUse
<1>22. ASSUME NEW i \in DOMAIN calls, EquityGoesOn(i) PROVE OfKind
  BY <1>15, <1>16, <1>17, <1>18, <1>19, <1>22 DEF EquityGoesOn
<1> QED
  BY <1>20, <1>21, <1>22 DEF EquityNext

LEMMA PeopleKinds == ASSUME Known, PeopleNext PROVE OfKind
<1>1. /\ page = "people" /\ RoutesOf[page] = {"people"} /\ {"people"} \in Batches
      /\ PeopleLoad = <<{"people"}>> /\ PeopleLoad \in Loads
      /\ UNION Range(PeopleLoad) = {"people"}
      /\ "people" \in Routes \ Unkeyed
  BY OneBatch DEF PeopleNext, RoutesOf, Batches, Loads, PeopleLoad, Routes, Unkeyed
<1>2. \A form : TouchedBy(form) = PeopleTouched(form)
  BY <1>1, Touches
<1>3. /\ "profile" \in EditForms \ {"account"} /\ "account" \in EditForms
      /\ {"createPerson", "profile", "saveAccount", "resetAccount", "deletePerson",
          "createEngagement"} \subseteq Forms \ {"openAccount"}
      /\ "openAccount" \in Forms /\ "openAccount" \notin EditForms \cup {"saveAccount"}
      /\ "resetAccount" \notin EditForms \cup {"saveAccount"}
      /\ {"person", "profile", "engagement", "accountSaving", "accountResetting",
          "accountLoading"} \subseteq FlagNames \ {"loading"}
  BY DEF EditForms, Forms, FlagNames
<1>4. /\ \A f \in EditForms : edit[f] \in Filled
      /\ edit["profile"].target = edit["profile"].origin
      /\ modal = "account" => edit["account"].target = edit["account"].origin
      /\ Rows \subseteq Row
  BY <1>3 DEF Known, EditInv, Row
<1>5. ASSUME NEW p \in Row, Select(p), modal' = modal \/ modal' # "account" PROVE EditsKept
  BY <1>3, <1>5, EditFilled DEF Select
<1>6. ASSUME NEW p \in Rows, EditProfile(p) PROVE OfKind
  BY <1>4, <1>5, <1>6, OpenKind DEF EditProfile, Open
<1>7. ASSUME NEW p \in Rows, DeletePerson(p) PROVE OfKind
  BY <1>3, <1>4, <1>7, PlainSendKind, SomeFlags DEF DeletePerson
<1>8. ASSUME NEW p \in Rows, OpenAccount(p) PROVE OfKind
  <2>1. /\ AccountFlag \in FlagValue \ {Flag("loading")}
        /\ [target |-> p, origin |-> p] \in Filled
    BY <1>3, <1>4, SomeFlags, SomeEdits DEF AccountFlag
  <2>2. modal = None /\ UNCHANGED <<wanted, modal>>
        /\ edit' = [edit EXCEPT !["account"].target = [target |-> p, origin |-> p].target]
        /\ Send("openAccount", AccountFlag, [target |-> p, origin |-> p])
    BY <1>8 DEF OpenAccount, PeopleList
  <2>3. Sends
    BY <1>3, <2>1, <2>2 DEF Sends
  <2> QED
    BY <2>3 DEF OfKind, Kinds
<1>9. ASSUME NEW q \in Row, ChangeSearch(q) PROVE OfKind
  <2>1. /\ wanted' = [wanted EXCEPT !["people"] = q] /\ StartLoad(<<{"people"}>>, wanted')
        /\ UNCHANGED <<page, stored, shown, modal, edit>>
    BY <1>1, <1>9 DEF ChangeSearch
  <2> QED
    BY <1>1, <2>1, WantKind
<1>10. ASSUME \/ \E m \in {"createPerson", "createEngagement"} : OpenPeopleModal(m)
              \/ ClosePeopleModal
       PROVE  OfKind
  BY <1>10, OpenPlain DEF OpenPeopleModal, ClosePeopleModal
<1>11. ASSUME CreatePerson PROVE OfKind
  BY <1>3, <1>11, PlainSendKind, SomeFlags DEF CreatePerson
<1>12. ASSUME UpdateSelectedPerson PROVE OfKind
  BY <1>3, <1>4, <1>12, SendKind, SomeFlags DEF UpdateSelectedPerson
<1>13. ASSUME CreateEngagement PROVE OfKind
  BY <1>3, <1>13, PlainSendKind, SomeFlags DEF CreateEngagement
<1>14. ASSUME RejectEngagement PROVE OfKind
  BY <1>14, RejectKind DEF RejectEngagement
<1>15. ASSUME SaveAccount PROVE OfKind
  BY <1>3, <1>4, <1>15, SendKind, SomeFlags DEF SaveAccount, AccountForm
<1>16. ASSUME ResetAccountPassword PROVE OfKind
  BY <1>3, <1>4, <1>16, SendKind, SomeFlags DEF ResetAccountPassword
<1>17. ASSUME Refresh(PeopleLoad) PROVE OfKind
  BY <1>1, <1>17, RefreshKind
<1>18. ASSUME NEW i \in DOMAIN calls, PeopleLoaded(i) PROVE OfKind
  <2>1. EditsKept
    BY <1>5, <1>18, EditLeft DEF PeopleLoaded
  <2> QED
    BY <1>18, <2>1, DeliverKind DEF PeopleLoaded
<1>19. ASSUME NEW i \in DOMAIN calls, PersonSaved(i) \/ PersonDeleted(i) PROVE OfKind
  <2>1. TouchedBy(calls[i].form) \subseteq UNION Range(PeopleLoad)
    BY <1>1, <1>2 DEF PeopleTouched
  <2>2. EditsKept
    BY <1>19, ModalNone, EditLeft DEF PersonSaved, PersonDeleted
  <2> QED
    BY <1>1, <1>19, <2>1, <2>2, ReloadKind DEF PersonSaved, PersonDeleted
<1>20. ASSUME NEW i \in DOMAIN calls, EngagementCreated(i) PROVE OfKind
  <2>1. TouchedBy(calls[i].form) = {}
    BY <1>2, <1>20 DEF PeopleTouched, EngagementCreated
  <2> QED
    BY <1>20, <2>1, ThrowKind DEF EngagementCreated
<1>21. ASSUME NEW i \in DOMAIN calls, AccountOpened(i) PROVE OfKind
  <2>1. /\ At(i, "accepted") /\ calls[i].form = "openAccount" /\ End(i) /\ modal' = "account"
        /\ edit' = [edit EXCEPT !["account"].origin = calls[i].target]
        /\ UNCHANGED <<page, stored, shown, wanted, troubled>>
    BY <1>21 DEF AccountOpened
  <2>2. /\ TouchedBy(calls[i].form) = {} /\ shown' \in [Routes -> ShownRow]
        /\ troubled' = Judged(calls[i], {}) /\ troubled' \subseteq Routes
    BY <1>2, <2>1 DEF PeopleTouched, Known, TypeOK, Judged
  <2>3. Ends
    BY <2>1, <2>2 DEF Ends
  <2> QED
    BY <2>3 DEF OfKind, Kinds
<1>22. ASSUME NEW i \in DOMAIN calls, PasswordReset(i) PROVE OfKind
  <2>1. TouchedBy(calls[i].form) = {} /\ EditsKept
    BY <1>2, <1>22, EditLeft DEF PeopleTouched, PasswordReset
  <2> QED
    BY <1>22, <2>1, EndKind DEF PasswordReset
<1>23. ASSUME NEW i \in DOMAIN calls, Answer(i, PeopleTouched(calls[i].form)) PROVE OfKind
  BY <1>2, <1>23, AnswerKind
<1>24. CASE PeopleUse
  BY <1>6, <1>7, <1>8, <1>9, <1>10, <1>11, <1>12, <1>13, <1>14, <1>15, <1>16, <1>17, <1>24
     DEF PeopleUse
<1>25. ASSUME NEW i \in DOMAIN calls, PeopleGoesOn(i) PROVE OfKind
  BY <1>18, <1>19, <1>20, <1>21, <1>22, <1>25 DEF PeopleGoesOn
<1> QED
  BY <1>23, <1>24, <1>25 DEF PeopleNext

LEMMA PersonKinds == ASSUME Known, PersonNext PROVE OfKind
<1>1. /\ page = "person" /\ RoutesOf[page] = {"details"} /\ {"details"} \in Batches
      /\ DetailsLoad = <<{"details"}>> /\ DetailsLoad \in Loads
      /\ UNION Range(DetailsLoad) = {"details"}
  BY OneBatch DEF PersonNext, RoutesOf, Batches, Loads, DetailsLoad
<1>2. \A form : TouchedBy(form) = {"details"}
  BY <1>1, Touches
<1>3. /\ "engagement" \in EditForms \ {"account"}
      /\ {"engagement", "archive"} \subseteq Forms \ {"openAccount"}
      /\ "engagement" \in FlagNames \ {"loading"}
  BY DEF EditForms, Forms, FlagNames
<1>4. /\ edit["engagement"] \in Filled /\ edit["engagement"].target = edit["engagement"].origin
      /\ Rows \subseteq Row
  BY <1>3 DEF Known, EditInv, Row
<1>5. ASSUME NEW r \in Rows, EditEngagement(r) PROVE OfKind
  BY <1>3, <1>4, <1>5, EditFilled, OpenKind DEF EditEngagement, Open
<1>6. ASSUME NEW r \in Rows, ArchiveRelated(r) PROVE OfKind
  BY <1>3, <1>4, <1>6, PlainSendKind, SomeFlags DEF ArchiveRelated
<1>7. ASSUME CloseEngagement PROVE OfKind
  BY <1>3, <1>7, ModalNone, EditCleared, OpenKind DEF CloseEngagement, Close
<1>8. ASSUME SaveEngagement PROVE OfKind
  BY <1>3, <1>4, <1>8, SendKind, SomeFlags DEF SaveEngagement
<1>9. ASSUME Refresh(DetailsLoad) PROVE OfKind
  BY <1>1, <1>9, RefreshKind
<1>10. ASSUME NEW i \in DOMAIN calls, EngagementSaved(i) PROVE OfKind
  <2>1. EditsKept
    BY <1>3, <1>10, ModalNone, EditCleared DEF EngagementSaved
  <2> QED
    BY <1>1, <1>2, <1>10, <2>1, ReloadKind DEF EngagementSaved
<1>11. ASSUME NEW i \in DOMAIN calls, RelatedArchived(i) PROVE OfKind
  <2>1. EditsKept
    BY <1>11, EditLeft DEF RelatedArchived
  <2> QED
    BY <1>1, <1>2, <1>11, <2>1, ReloadKind DEF RelatedArchived
<1>12. ASSUME NEW i \in DOMAIN calls, Deliver(i, <<>>, {}), UNCHANGED <<wanted, modal, edit>>
       PROVE  OfKind
  BY <1>12, SettleKind
<1>13. ASSUME NEW i \in DOMAIN calls, Answer(i, {"details"}) PROVE OfKind
  BY <1>2, <1>13, AnswerKind
<1>14. CASE PersonUse
  BY <1>5, <1>6, <1>7, <1>8, <1>9, <1>14 DEF PersonUse
<1>15. ASSUME NEW i \in DOMAIN calls, PersonGoesOn(i) PROVE OfKind
  BY <1>10, <1>11, <1>12, <1>15 DEF PersonGoesOn
<1> QED
  BY <1>13, <1>14, <1>15 DEF PersonNext

LEMMA GrantKinds == ASSUME Known, GrantNext PROVE OfKind
<1>1. /\ page = "grant" /\ RoutesOf[page] = {"detail"} /\ {"detail"} \in Batches
      /\ GrantLoad = <<{"detail"}>> /\ GrantLoad \in Loads
      /\ UNION Range(GrantLoad) = {"detail"}
      /\ "detail" \in Routes /\ "letter" \in Routes /\ "letter" \notin RoutesOf[page]
  BY OneBatch DEF GrantNext, RoutesOf, Batches, Loads, GrantLoad, Routes
<1>2. \A form : TouchedBy(form) = GrantTouched(form)
  BY <1>1, Touches
<1>3. /\ {"exercise", "exerciseAction", "termination", "letter", "esign"}
           \subseteq Forms \ {"openAccount"}
      /\ {"exercise", "termination", "letter", "esign"} \subseteq FlagNames \ {"loading"}
  BY DEF Forms, FlagNames
<1>4. ASSUME \/ \E m \in {"vesting", "exercise", "termination"} : OpenGrantModal(m)
             \/ CloseGrantModal
      PROVE  OfKind
  BY <1>4, OpenPlain DEF OpenGrantModal, CloseGrantModal
<1>5. ASSUME RefreshVesting PROVE OfKind
  <2>1. Wants(wanted')
    BY <1>5, TypeWants DEF Known, RefreshVesting
  <2>2. Starts
    BY <1>1, <1>5, <2>1 DEF RefreshVesting, Starts
  <2> QED
    BY <2>2 DEF OfKind, Kinds
<1>6. ASSUME CreateExerciseRequest \/ RunExerciseAction PROVE OfKind
  <2>1. CASE CreateExerciseRequest
    BY <1>3, <2>1, PlainSendKind, SomeFlags DEF CreateExerciseRequest
  <2>2. CASE RunExerciseAction
    BY <1>3, <2>2, PlainSendKind, SomeFlags DEF RunExerciseAction
  <2> QED
    BY <1>6, <2>1, <2>2
<1>7. ASSUME RecordTermination \/ GenerateLetter \/ CreateESignPackage PROVE OfKind
  <2>1. CASE RecordTermination
    BY <1>3, <2>1, PlainSendKind, SomeFlags DEF RecordTermination
  <2>2. CASE GenerateLetter
    BY <1>3, <2>2, PlainSendKind, SomeFlags DEF GenerateLetter
  <2>3. CASE CreateESignPackage
    BY <1>3, <2>3, PlainSendKind, SomeFlags DEF CreateESignPackage
  <2> QED
    BY <1>7, <2>1, <2>2, <2>3
<1>8. ASSUME RejectTermination PROVE OfKind
  BY <1>8, RejectKind DEF RejectTermination
<1>9. ASSUME NEW i \in DOMAIN calls, GrantLoaded(i) PROVE OfKind
  <2>1. EditsKept
    BY <1>9, ModalNone, EditLeft DEF GrantLoaded, CloseOwn
  <2> QED
    BY <1>9, <2>1, DeliverKind DEF GrantLoaded
<1>10. ASSUME NEW i \in DOMAIN calls, ExerciseRequested(i) PROVE OfKind
  <2>1. TouchedBy(calls[i].form) = {"detail"}
    BY <1>2, <1>10 DEF GrantTouched, ExerciseRequested
  <2> QED
    BY <1>10, <2>1, ThrowKind DEF ExerciseRequested
<1>11. ASSUME NEW i \in DOMAIN calls, ExerciseActionDone(i) \/ TerminationRecorded(i)
       PROVE  OfKind
  <2>1. TouchedBy(calls[i].form) \subseteq UNION Range(GrantLoad)
    BY <1>1, <1>2 DEF GrantTouched
  <2>2. EditsKept
    BY <1>11, ModalNone, EditLeft DEF ExerciseActionDone, TerminationRecorded, CloseOwn
  <2> QED
    BY <1>1, <1>11, <2>1, <2>2, ReloadKind DEF ExerciseActionDone, TerminationRecorded
<1>12. ASSUME NEW i \in DOMAIN calls, LetterGenerated(i) PROVE OfKind
  <2>1. /\ TouchedBy(calls[i].form) = {} /\ EditsKept
        /\ troubled' = Judged(calls[i], {})
    BY <1>2, <1>12, EditLeft DEF GrantTouched, LetterGenerated, Judged
  <2> QED
    BY <1>1, <1>12, <2>1, TakeKind DEF LetterGenerated
<1>13. ASSUME NEW i \in DOMAIN calls, PackageCreated(i) PROVE OfKind
  <2>1. TouchedBy(calls[i].form) = {} /\ EditsKept
    BY <1>2, <1>13, EditLeft DEF GrantTouched, PackageCreated
  <2> QED
    BY <1>13, <2>1, EndKind DEF PackageCreated
<1>14. ASSUME NEW i \in DOMAIN calls, Answer(i, GrantTouched(calls[i].form)) PROVE OfKind
  BY <1>2, <1>14, AnswerKind
<1>15. CASE GrantUse
  BY <1>4, <1>5, <1>6, <1>7, <1>8, <1>15 DEF GrantUse
<1>16. ASSUME NEW i \in DOMAIN calls, GrantGoesOn(i) PROVE OfKind
  BY <1>9, <1>10, <1>11, <1>12, <1>13, <1>16 DEF GrantGoesOn
<1> QED
  BY <1>14, <1>15, <1>16 DEF GrantNext

LEMMA PortalKinds == ASSUME Known, PortalNext PROVE OfKind
<1>1. /\ page = "portal" /\ RoutesOf[page] = {"summary", "requests"} /\ PortalLoad \in Loads
      /\ RoutesOf.portal = {"summary", "requests"}
  BY DEF PortalNext, RoutesOf, Loads
<1>2. /\ UNION Range(PortalLoad) = {"summary", "requests"}
      /\ \A form : TouchedBy(form) = IF form = "packet" THEN RoutesOf.portal ELSE {}
  <2>1. PortalLoad = <<{"summary"}, {"requests"}>> /\ Len(PortalLoad) = 2
    BY DEF PortalLoad
  <2>2. UNION Range(PortalLoad) = Head(PortalLoad) \cup PortalLoad[2]
    BY <1>1, <2>1, LoadShape
  <2>3. Head(PortalLoad) = {"summary"} /\ PortalLoad[2] = {"requests"}
    BY <2>1
  <2> QED
    BY <1>1, <2>2, <2>3, Touches
<1>3. /\ "packet" \in EditForms \ {"account"} /\ "openPacket" \notin EditForms \cup {"saveAccount"}
      /\ {"openPacket", "packet"} \subseteq Forms \ {"openAccount"}
      /\ {"packetLoading", "signing", "declining"} \subseteq FlagNames \ {"loading"}
  BY DEF EditForms, Forms, FlagNames
<1>4. /\ edit["packet"] \in Filled /\ edit["packet"].target = edit["packet"].origin
      /\ Rows \subseteq Row
  BY <1>3 DEF Known, EditInv, Row
<1>5. ASSUME NEW p \in Rows, OpenPacket(p) PROVE OfKind
  <2>1. [target |-> p, origin |-> p] \in Filled
    BY <1>4, SomeEdits
  <2> QED
    BY <1>3, <1>5, <2>1, SendKind, SomeFlags DEF OpenPacket, OpenSigningPacket
<1>6. ASSUME CloseSigningModal PROVE OfKind
  BY <1>3, <1>6, ModalNone, EditCleared, OpenKind DEF CloseSigningModal, Close
<1>7. ASSUME SubmitSignature \/ DeclineSignature PROVE OfKind
  <2>1. CASE SubmitSignature
    BY <1>3, <1>4, <2>1, SendKind, SomeFlags DEF SubmitSignature
  <2>2. CASE DeclineSignature
    BY <1>3, <1>4, <2>2, SendKind, SomeFlags DEF DeclineSignature
  <2> QED
    BY <1>7, <2>1, <2>2
<1>8. ASSUME RefreshPortal PROVE OfKind
  BY <1>1, <1>8 DEF OfKind, Kinds
<1>9. ASSUME NEW i \in DOMAIN calls, PacketOpened(i) PROVE OfKind
  <2>1. TouchedBy(calls[i].form) = {}
    BY <1>2, <1>9 DEF PacketOpened
  <2>2. calls[i].target \in Row
    BY CallIn DEF Known, CallRow
  <2>3. EditsKept
    BY <1>3, <1>9, <2>2, EditFilled DEF PacketOpened
  <2> QED
    BY <1>9, <2>1, <2>3, EndKind DEF PacketOpened
<1>10. ASSUME NEW i \in DOMAIN calls, PacketDecided(i) PROVE OfKind
  <2>1. TouchedBy(calls[i].form) \subseteq UNION Range(PortalLoad)
    BY <1>1, <1>2
  <2>2. EditsKept
    BY <1>3, <1>10, ModalNone, EditCleared DEF PacketDecided
  <2> QED
    BY <1>1, <1>10, <2>1, <2>2, ReloadKind DEF PacketDecided
<1>11. ASSUME NEW i \in DOMAIN calls, Deliver(i, <<>>, {}), UNCHANGED <<wanted, modal, edit>>
       PROVE  OfKind
  BY <1>11, SettleKind
<1>12. ASSUME NEW i \in DOMAIN calls,
              Answer(i, IF calls[i].form = "packet" THEN RoutesOf.portal ELSE {})
       PROVE  OfKind
  BY <1>2, <1>12, AnswerKind
<1> QED
  BY <1>5, <1>6, <1>7, <1>8, <1>9, <1>10, <1>11, <1>12 DEF PortalNext

LEMMA SignKinds == ASSUME Known, SignNext PROVE OfKind
<1>1. /\ page = "sign" /\ RoutesOf[page] = {"packet"} /\ {"packet"} \in Batches
      /\ PacketLoad = <<{"packet"}>> /\ PacketLoad \in Loads
      /\ UNION Range(PacketLoad) = {"packet"}
  BY OneBatch DEF SignNext, RoutesOf, Batches, Loads, PacketLoad
<1>2. \A form : TouchedBy(form) = {"packet"}
  BY <1>1, Touches
<1>3. /\ {"sign", "decline"} \subseteq Forms \ {"openAccount"}
      /\ {"signing", "declining"} \subseteq FlagNames \ {"loading"}
  BY DEF Forms, FlagNames
<1>4. ASSUME PublicSubmitSignature \/ PublicDeclineSignature PROVE OfKind
  <2>1. CASE PublicSubmitSignature
    BY <1>3, <2>1, PlainSendKind, SomeFlags DEF PublicSubmitSignature
  <2>2. CASE PublicDeclineSignature
    BY <1>3, <2>2, PlainSendKind, SomeFlags DEF PublicDeclineSignature
  <2> QED
    BY <1>4, <2>1, <2>2
<1>5. ASSUME Refresh(PacketLoad) PROVE OfKind
  BY <1>1, <1>5, RefreshKind
<1>6. ASSUME NEW i \in DOMAIN calls, PublicDecided(i) PROVE OfKind
  <2>1. EditsKept
    BY <1>6, EditLeft DEF PublicDecided
  <2> QED
    BY <1>1, <1>2, <1>6, <2>1, ReloadKind DEF PublicDecided
<1>7. ASSUME NEW i \in DOMAIN calls, Deliver(i, <<>>, {}), UNCHANGED <<wanted, modal, edit>>
      PROVE  OfKind
  BY <1>7, SettleKind
<1>8. ASSUME NEW i \in DOMAIN calls, Answer(i, {"packet"}) PROVE OfKind
  BY <1>2, <1>8, AnswerKind
<1> QED
  BY <1>4, <1>5, <1>6, <1>7, <1>8 DEF SignNext

\* The modals and forms of the pages with a list.
LEMMA ListModalKind ==
  ASSUME Known, NEW m, m # "account", OpenListModal(m) \/ CloseListModal
  PROVE  OfKind
BY OpenPlain DEF OpenListModal, CloseListModal

LEMMA PostKind ==
  ASSUME NEW m \in Forms \ {"openAccount"}, NEW flag \in FlagValue \ {Flag("loading")}, Post(m, flag)
  PROVE  OfKind
BY PlainSendKind DEF Post

LEMMA PostThrowsKind ==
  ASSUME Known, NEW i \in DOMAIN calls, NEW form, PostThrows(i, form, TouchedBy(form))
  PROVE  OfKind
BY ThrowKind DEF PostThrows

LEMMA WantedKind ==
  ASSUME Known, NEW r \in Routes \ Unkeyed, NEW k \in Row, {r} \in Batches, Want(r, k, <<{r}>>)
  PROVE  OfKind
<1>1. /\ wanted' = [wanted EXCEPT ![r] = k] /\ StartLoad(<<{r}>>, wanted')
      /\ UNCHANGED <<page, stored, shown, modal, edit>>
  BY DEF Want
<1> QED
  BY <1>1, WantKind

\* A list is loaded that may change the selection.
LEMMA SelectingKind ==
  ASSUME Known, NEW i \in DOMAIN calls, NEW list \in Routes, NEW r \in Routes \ Unkeyed, {r} \in Batches,
         page # "portal", \A B \in Batches : list \in B => r \notin B,
         list \in Head(calls[i].batches), NEW x \in Row, wanted' = [wanted EXCEPT ![r] = x],
         NEW effect, NEW emptied, Deliver(i, effect, emptied), UNCHANGED <<modal, edit>>,
         \/ effect = <<>> /\ emptied = {} /\ x = wanted[r]
         \/ effect = <<Load(<<{r}>>, wanted')>> /\ emptied = {}
         \/ effect = <<>> /\ emptied = {r}
  PROVE  OfKind
<1>1. At(i, "loading")
  BY DEF Deliver
<1>2. Len(calls[i].batches) = 1 /\ {r} \cap Head(calls[i].batches) = {}
  <2>1. calls[i].batches \in Loads
    BY <1>1 DEF At, Known, TypeOK
  <2> QED
    BY <2>1, LoadShape
<1>3. /\ Wants(wanted') /\ \A y \in Routes \ {r} : wanted'[y] = wanted[y]
      /\ x = wanted[r] => wanted' = wanted
  <2>1. Wants(wanted)
    BY TypeWants DEF Known
  <2>2. x = wanted[r] => wanted' = wanted
    BY <2>1 DEF Wants
  <2> QED
    BY <2>2, KeyedWants
<1>4. EditsKept
  BY EditLeft
<1>5. effect \in Seq(CallRow) /\ emptied \in SUBSET Routes
  <2>1. Load(<<{r}>>, wanted') \in CallRow
    <3>1. <<{r}>> \in Loads
      BY DEF Loads
    <3> QED
      BY <1>3, <3>1, PlainLoad, TypeWants DEF Known
  <2>2. \A c \in CallRow : <<c>> \in Seq(CallRow)
    OBVIOUS
  <2>3. <<>> \in Seq(CallRow)
    OBVIOUS
  <2>4. effect \in Seq(CallRow)
    BY <2>1, <2>2, <2>3
  <2>5. emptied \in SUBSET Routes
    OBVIOUS
  <2> QED
    BY <2>4, <2>5
<1>6. \/ effect = <<>> /\ emptied = {} /\ wanted' = wanted
      \/ effect = <<Load(<<{r}>>, wanted')>> /\ emptied = {} /\ Len(calls[i].batches) = 1
      \/ effect = <<>> /\ emptied = {r} /\ Len(calls[i].batches) = 1
  BY <1>2, <1>3
<1>7. Delivers
  BY <1>1, <1>2, <1>3, <1>4, <1>5, <1>6 DEF Delivers
<1> QED
  BY <1>7 DEF OfKind, Kinds

LEMMA DocumentsKinds == ASSUME Known, DocumentsNext PROVE OfKind
<1>1. /\ page = "documents" /\ RoutesOf[page] = {"documents", "versions"}
      /\ {"documents"} \in Batches /\ {"versions"} \in Batches
      /\ \A B \in Batches : "documents" \in B => "versions" \notin B
      /\ "documents" \in Routes \ Unkeyed /\ "versions" \in Routes \ Unkeyed
  BY DEF DocumentsNext, RoutesOf, Batches, Routes, Unkeyed
<1>2. \A form : TouchedBy(form) = DocumentsTouched(form)
  BY <1>1, Touches
<1>3. /\ {"createDocument", "upload"} \subseteq Forms \ {"openAccount"}
      /\ "uploading" \in FlagNames \ {"loading"} /\ Rows \subseteq Row
  BY DEF Forms, FlagNames, Row
<1>4. ASSUME NEW q \in Row, SearchDocuments(q) PROVE OfKind
  BY <1>1, <1>4, WantedKind DEF SearchDocuments
<1>5. ASSUME NEW d \in Rows, SelectDocument(d) PROVE OfKind
  BY <1>1, <1>3, <1>5, WantedKind DEF SelectDocument, VersionsLoad
<1>6. ASSUME OpenListModal("createDocument") \/ OpenListModal("upload") \/ CloseListModal
      PROVE  OfKind
  BY <1>6, ListModalKind
<1>7. ASSUME CreateDocument PROVE OfKind
  BY <1>3, <1>7, PostKind, SomeFlags DEF CreateDocument
<1>8. ASSUME UploadVersion PROVE OfKind
  BY <1>3, <1>8, PostKind, SomeFlags DEF UploadVersion
<1>9. ASSUME Refresh(<<{"documents"}>>) PROVE OfKind
  BY <1>1, <1>9, RefreshKind
<1>10. ASSUME NEW i \in DOMAIN calls, DocumentsLoaded(i) PROVE OfKind
  <2>1. \/ \E d \in Row :
             /\ wanted' = [wanted EXCEPT !["versions"] = d]
             /\ Deliver(i, VersionsEffect(d), IF d = None THEN {"versions"} ELSE {})
        \/ wanted' = wanted /\ Deliver(i, <<>>, {})
    BY <1>10 DEF DocumentsLoaded
  <2>2. ASSUME NEW d \in Row, wanted' = [wanted EXCEPT !["versions"] = d],
               Deliver(i, VersionsEffect(d), IF d = None THEN {"versions"} ELSE {})
        PROVE  OfKind
    <3> DEFINE effect == VersionsEffect(d)
               emptied == IF d = None THEN {"versions"} ELSE {}
    <3>1. \/ effect = <<>> /\ emptied = {} /\ d = wanted["versions"]
          \/ effect = <<Load(<<{"versions"}>>, wanted')>> /\ emptied = {}
          \/ effect = <<>> /\ emptied = {"versions"}
      BY <2>2 DEF VersionsEffect, VersionsLoad
    <3>2. Deliver(i, effect, emptied) /\ UNCHANGED <<modal, edit>>
          /\ "documents" \in Head(calls[i].batches) /\ page # "portal"
      BY <1>1, <1>10, <2>2 DEF DocumentsLoaded
    <3> HIDE DEF effect, emptied
    <3> QED
      BY <1>1, <2>2, <3>1, <3>2, SelectingKind
  <2>3. UNCHANGED <<modal, edit>>
    BY <1>10 DEF DocumentsLoaded
  <2> QED
    BY <2>1, <2>2, <2>3, SettleKind
<1>11. ASSUME NEW i \in DOMAIN calls, Settle(i) PROVE OfKind
  BY <1>11, SettleKind DEF Settle
<1>12. ASSUME NEW i \in DOMAIN calls, Answer(i, DocumentsTouched(calls[i].form)) PROVE OfKind
  BY <1>2, <1>12, AnswerKind
<1>13. ASSUME NEW i \in DOMAIN calls,
              NEW form, PostThrows(i, form, DocumentsTouched(form))
       PROVE  OfKind
  BY <1>2, <1>13, PostThrowsKind
<1> QED
  BY <1>4, <1>5, <1>6, <1>7, <1>8, <1>9, <1>10, <1>11, <1>12, <1>13 DEF DocumentsNext

LEMMA FundraisingKinds == ASSUME Known, FundraisingNext PROVE OfKind
<1>1. /\ page = "fundraising" /\ RoutesOf[page] = {"rounds", "scenarios"}
      /\ {"rounds"} \in Batches /\ {"scenarios"} \in Batches
      /\ \A B \in Batches : "rounds" \in B => "scenarios" \notin B
      /\ "rounds" \in Routes /\ "scenarios" \in Routes \ Unkeyed
  BY DEF FundraisingNext, RoutesOf, Batches, Routes, Unkeyed
<1>2. \A form : TouchedBy(form) = FundraisingTouched(form)
  BY <1>1, Touches
<1>3. /\ {"createRound", "createScenario", "simulate"} \subseteq Forms \ {"openAccount"}
      /\ Rows \subseteq Row
  BY DEF Forms, Row
<1>4. ScenariosLoad \in Loads /\ UNION Range(ScenariosLoad) = {"scenarios"}
  BY <1>1, OneBatch DEF ScenariosLoad, Loads
<1>5. ASSUME NEW x \in Rows, SelectRound(x) PROVE OfKind
  BY <1>1, <1>3, <1>5, WantedKind DEF SelectRound, ScenariosLoad
<1>6. ASSUME OpenListModal("createRound") \/ OpenListModal("createScenario") \/ CloseListModal
      PROVE  OfKind
  BY <1>6, ListModalKind
<1>7. ASSUME CreateRound \/ CreateScenario PROVE OfKind
  BY <1>3, <1>7, PostKind, SomeFlags DEF CreateRound, CreateScenario
<1>8. ASSUME Simulate PROVE OfKind
  BY <1>3, <1>8, PlainSendKind, SomeFlags DEF Simulate
<1>9. ASSUME Refresh(<<{"rounds"}>>) PROVE OfKind
  BY <1>1, <1>9, RefreshKind
<1>10. ASSUME NEW i \in DOMAIN calls, Simulated(i) PROVE OfKind
  <2>1. TouchedBy(calls[i].form) \subseteq UNION Range(ScenariosLoad)
    BY <1>2, <1>4, <1>10 DEF Simulated, FundraisingTouched
  <2>2. EditsKept
    BY <1>10, EditLeft DEF Simulated
  <2> QED
    BY <1>4, <1>10, <2>1, <2>2, ReloadKind DEF Simulated
<1>11. ASSUME NEW i \in DOMAIN calls, RoundsLoaded(i) PROVE OfKind
  <2>1. \/ \E x \in Rows :
             /\ wanted' = [wanted EXCEPT !["scenarios"] = x]
             /\ Deliver(i, ScenariosEffect(x), {})
        \/ wanted' = wanted /\ Deliver(i, <<>>, {})
    BY <1>11 DEF RoundsLoaded
  <2>2. ASSUME NEW x \in Rows, wanted' = [wanted EXCEPT !["scenarios"] = x],
               Deliver(i, ScenariosEffect(x), {})
        PROVE  OfKind
    <3> DEFINE effect == ScenariosEffect(x)
    <3>1. \/ effect = <<>> /\ x = wanted["scenarios"]
          \/ effect = <<Load(<<{"scenarios"}>>, wanted')>>
      BY <2>2 DEF ScenariosEffect, ScenariosLoad
    <3>2. /\ Deliver(i, effect, {}) /\ UNCHANGED <<modal, edit>>
          /\ "rounds" \in Head(calls[i].batches) /\ page # "portal" /\ x \in Row
      BY <1>1, <1>3, <1>11, <2>2 DEF RoundsLoaded
    <3> HIDE DEF effect
    <3> QED
      BY <1>1, <2>2, <3>1, <3>2, SelectingKind
  <2>3. UNCHANGED <<modal, edit>>
    BY <1>11 DEF RoundsLoaded
  <2> QED
    BY <2>1, <2>2, <2>3, SettleKind
<1>12. ASSUME NEW i \in DOMAIN calls, Settle(i) PROVE OfKind
  BY <1>12, SettleKind DEF Settle
<1>13. ASSUME NEW i \in DOMAIN calls, Answer(i, FundraisingTouched(calls[i].form)) PROVE OfKind
  BY <1>2, <1>13, AnswerKind
<1>14. ASSUME NEW i \in DOMAIN calls,
              NEW form, PostThrows(i, form, FundraisingTouched(form))
       PROVE  OfKind
  BY <1>2, <1>14, PostThrowsKind
<1> QED
  BY <1>5, <1>6, <1>7, <1>8, <1>9, <1>10, <1>11, <1>12, <1>13, <1>14 DEF FundraisingNext

LEMMA SettingsKinds == ASSUME Known, SettingsNext PROVE OfKind
<1>1. /\ page = "settings" /\ RoutesOf[page] = {"settings", "rbac"}
      /\ {"settings", "rbac"} \in Batches
      /\ SettingsLoad = <<{"settings", "rbac"}>> /\ SettingsLoad \in Loads
      /\ UNION Range(SettingsLoad) = {"settings", "rbac"}
      /\ "rbac" \in Routes /\ "rbac" \in Unkeyed
  BY OneBatch DEF SettingsNext, RoutesOf, Batches, Loads, SettingsLoad, Routes, Unkeyed
<1>2. \A form : TouchedBy(form) = IF form = "rbac" THEN {"rbac"} ELSE {"settings"}
  BY <1>1, Touches
<1>3. /\ SettingForms \cup {"letters", "rbac"} \subseteq Forms \ {"openAccount"}
      /\ "account" \notin SettingForms \cup {"letters", "rbac"}
      /\ "rbac" \notin SettingForms \cup {"secondLetters", "letters"}
  BY DEF Forms, SettingForms
<1>4. ASSUME NEW m \in SettingForms \cup {"letters", "rbac"}, OpenListModal(m) PROVE OfKind
  BY <1>3, <1>4, ListModalKind
<1>5. ASSUME NEW m, SaveSetting(m) PROVE OfKind
  BY <1>3, <1>5, PostKind, SomeFlags DEF SaveSetting
<1>6. ASSUME SaveGrantLetters \/ SaveRbac PROVE OfKind
  BY <1>3, <1>6, PostKind, SomeFlags DEF SaveGrantLetters, SaveRbac
<1>7. ASSUME Refresh(SettingsLoad) PROVE OfKind
  BY <1>1, <1>7, RefreshKind
<1>8. ASSUME CloseListModal PROVE OfKind
  BY <1>8, ListModalKind
<1>9. ASSUME NEW i \in DOMAIN calls, FirstLetterSettingSaved(i) PROVE OfKind
  <2>1. TouchedBy(calls[i].form) = {"settings"}
    BY <1>2, <1>3, <1>9 DEF FirstLetterSettingSaved
  <2> QED
    BY <1>9, <2>1, AgainKind DEF FirstLetterSettingSaved
<1>10. ASSUME NEW i \in DOMAIN calls, SettingSaved(i) PROVE OfKind
  <2>1. TouchedBy(calls[i].form) \subseteq UNION Range(SettingsLoad)
    BY <1>1, <1>2
  <2>2. EditsKept
    BY <1>10, ModalNone, EditLeft DEF SettingSaved
  <2> QED
    BY <1>1, <1>10, <2>1, <2>2, ReloadKind DEF SettingSaved
<1>11. ASSUME NEW i \in DOMAIN calls, RbacSaved(i) PROVE OfKind
  <2>1. "rbac" \in Unkeyed \cap Answered(calls[i].form) /\ TouchedBy(calls[i].form) = {"rbac"}
    BY <1>1, <1>2, <1>11 DEF RbacSaved, Answered
  <2>2. EditsKept
    BY <1>11, ModalNone, EditLeft DEF RbacSaved
  <2> QED
    BY <1>1, <1>11, <2>1, <2>2, TakeKind DEF RbacSaved
<1>12. ASSUME NEW i \in DOMAIN calls, Settle(i) PROVE OfKind
  BY <1>12, SettleKind DEF Settle
<1>13. ASSUME NEW i \in DOMAIN calls,
              Answer(i, IF calls[i].form = "rbac" THEN {"rbac"} ELSE {"settings"})
       PROVE  OfKind
  BY <1>2, <1>13, AnswerKind
<1> QED
  BY <1>4, <1>5, <1>6, <1>7, <1>8, <1>9, <1>10, <1>11, <1>12, <1>13 DEF SettingsNext

\* The pages with one list.
LEMMA ItemsPage ==
  ASSUME page \in {"tasks", "approvals", "m365", "valuations"}
  PROVE  /\ {"items"} \in Batches /\ ItemsLoad = <<{"items"}>> /\ ItemsLoad \in Loads
         /\ UNION Range(ItemsLoad) = {"items"} /\ "items" \in Routes \ Unkeyed
         /\ \A form : TouchedBy(form) = {"items"}
         /\ {"createTask", "createApproval", "decide", "createJob", "createValuation"}
              \subseteq Forms \ {"openAccount"}
         /\ "task" \in FlagNames \ {"loading"}
<1>1. RoutesOf[page] = {"items"}
  BY DEF RoutesOf
<1>2. {"items"} \in Batches /\ "items" \in Routes \ Unkeyed
  BY <1>1 DEF Batches, Routes, Unkeyed
<1>3. ItemsLoad = <<{"items"}>> /\ ItemsLoad \in Loads /\ UNION Range(ItemsLoad) = {"items"}
  BY <1>2, OneBatch DEF ItemsLoad, Loads
<1>4. /\ {"createTask", "createApproval", "decide", "createJob", "createValuation"}
           \subseteq Forms \ {"openAccount"}
      /\ "task" \in FlagNames \ {"loading"}
  BY DEF Forms, FlagNames
<1> QED
  BY <1>2, <1>3, <1>4, Touches

LEMMA ItemsKinds ==
  ASSUME Known, page \in {"tasks", "approvals", "m365", "valuations"}
  PROVE  /\ Refresh(ItemsLoad) => OfKind
         /\ CloseListModal => OfKind
         /\ \A m : OpenListModal(m) /\ m # "account" => OfKind
         /\ \A i \in DOMAIN calls : Settle(i) => OfKind
         /\ \A i \in DOMAIN calls : \A form : PostThrows(i, form, {"items"}) => OfKind
         /\ \A i \in DOMAIN calls : Answer(i, {"items"}) => OfKind
<1>1. Refresh(ItemsLoad) => OfKind
  BY ItemsPage, RefreshKind
<1>2. CloseListModal => OfKind
  BY ListModalKind
<1>3. \A m : OpenListModal(m) /\ m # "account" => OfKind
  BY ListModalKind
<1>4. \A i \in DOMAIN calls : Settle(i) => OfKind
  BY SettleKind DEF Settle
<1>5. \A i \in DOMAIN calls : \A form : PostThrows(i, form, {"items"}) => OfKind
  <2> SUFFICES ASSUME NEW i \in DOMAIN calls, NEW form, PostThrows(i, form, {"items"})
               PROVE  OfKind
    OBVIOUS
  <2>1. TouchedBy(form) = {"items"}
    BY ItemsPage
  <2> QED
    BY <2>1, PostThrowsKind
<1>6. \A i \in DOMAIN calls : Answer(i, {"items"}) => OfKind
  BY ItemsPage, AnswerKind
<1> QED
  BY <1>1, <1>2, <1>3, <1>4, <1>5, <1>6

LEMMA TasksKinds == ASSUME Known, TasksNext PROVE OfKind
<1>1. page \in {"tasks", "approvals", "m365", "valuations"}
  BY DEF TasksNext
<1>2. ASSUME NEW q \in Row, SearchTasks(q) PROVE OfKind
  BY <1>1, <1>2, ItemsPage, WantedKind DEF SearchTasks
<1>3. ASSUME CreateTask PROVE OfKind
  BY <1>1, <1>3, ItemsPage, PostKind, SomeFlags DEF CreateTask
<1> QED
  BY <1>1, <1>2, <1>3, ItemsKinds DEF TasksNext

LEMMA ApprovalsKinds == ASSUME Known, ApprovalsNext PROVE OfKind
<1>1. page \in {"tasks", "approvals", "m365", "valuations"}
  BY DEF ApprovalsNext
<1>2. ASSUME CreateApproval PROVE OfKind
  BY <1>1, <1>2, ItemsPage, PostKind, SomeFlags DEF CreateApproval
<1>3. ASSUME Decide PROVE OfKind
  BY <1>1, <1>3, ItemsPage, PlainSendKind, SomeFlags DEF Decide
<1>4. ASSUME NEW i \in DOMAIN calls, Decided(i) PROVE OfKind
  <2>1. EditsKept
    BY <1>4, EditLeft DEF Decided
  <2> QED
    BY <1>1, <1>4, <2>1, ItemsPage, ReloadKind DEF Decided
<1> QED
  BY <1>1, <1>2, <1>3, <1>4, ItemsKinds DEF ApprovalsNext

LEMMA JobsKinds == ASSUME Known, M365Next \/ ValuationsNext PROVE OfKind
<1>1. page \in {"tasks", "approvals", "m365", "valuations"}
  BY DEF M365Next, ValuationsNext
<1>2. ASSUME CreateJob \/ CreateValuation PROVE OfKind
  BY <1>1, <1>2, ItemsPage, PostKind, SomeFlags DEF CreateJob, CreateValuation
<1> QED
  BY <1>1, <1>2, ItemsKinds DEF M365Next, ValuationsNext

LEMMA LeaveKind ==
  ASSUME Known, NEW i \in DOMAIN calls, Leave(i), TouchedBy(calls[i].form) = {}
  PROVE  OfKind
<1>1. EditsKept
  BY EditLeft DEF Leave
<1> QED
  BY <1>1, EndKind DEF Leave

LEMMA SearchKinds == ASSUME Known, SearchNext PROVE OfKind
<1>1. /\ page = "search" /\ RoutesOf[page] = {"hits", "timeline"}
      /\ RoutesOf.search = {"hits", "timeline"}
      /\ \A r \in {"hits", "timeline"} : {r} \in Batches /\ r \in Routes \ Unkeyed
  BY DEF SearchNext, RoutesOf, Batches, Routes, Unkeyed
<1>2. \A form : TouchedBy(form) = {}
  BY <1>1, Touches
<1>3. "versions" \in Forms \ {"openAccount"} /\ Rows \subseteq Row
  BY DEF Forms, Row
<1>4. ASSUME NEW r \in RoutesOf.search, OpenListModal(r) PROVE OfKind
  <2>1. r # "account"
    BY <1>1
  <2> QED
    BY <1>4, <2>1, ListModalKind
<1>5. ASSUME NEW r \in RoutesOf.search, NEW q \in Rows, LookUp(r, q) PROVE OfKind
  <2>1. /\ wanted' = [wanted EXCEPT ![r] = q] /\ StartLoad(<<{r}>>, wanted')
        /\ UNCHANGED <<page, stored, shown, modal, edit>>
    BY <1>5 DEF LookUp
  <2> QED
    BY <1>1, <1>3, <2>1, WantKind
<1>6. ASSUME CloseListModal PROVE OfKind
  BY <1>6, ListModalKind
<1>7. ASSUME NEW d \in Rows, OpenLatest(d) PROVE OfKind
  BY <1>3, <1>7, PlainSendKind, SomeFlags DEF OpenLatest
<1>8. ASSUME NEW i \in DOMAIN calls, FoundShown(i) PROVE OfKind
  <2>1. EditsKept
    BY <1>8, ModalNone, EditLeft DEF FoundShown, CloseOwn
  <2> QED
    BY <1>8, <2>1, DeliverKind DEF FoundShown
<1>9. ASSUME NEW i \in DOMAIN calls, VersionsFound(i) PROVE OfKind
  <2>1. TouchedBy(calls[i].form) = {}
    BY <1>2
  <2> QED
    BY <1>9, <2>1, AgainKind DEF VersionsFound
<1>10. ASSUME NEW i \in DOMAIN calls, Leave(i) PROVE OfKind
  BY <1>2, <1>10, LeaveKind
<1>11. ASSUME NEW i \in DOMAIN calls, Answer(i, {}) PROVE OfKind
  BY <1>2, <1>11, AnswerKind
<1> QED
  BY <1>4, <1>5, <1>6, <1>7, <1>8, <1>9, <1>10, <1>11 DEF SearchNext

LEMMA SignInKinds == ASSUME Known, HomeNext \/ SecurityNext PROVE OfKind
<1>1. page \in {"home", "security"}
  BY DEF HomeNext, LocalLogin, SecurityNext
<1>2. \A form : TouchedBy(form) = {}
  BY <1>1, Touches
<1>3. /\ {"login", "password"} \subseteq Forms \ {"openAccount"}
      /\ {"login", "password"} \subseteq FlagNames \ {"loading"}
  BY DEF Forms, FlagNames
<1>4. ASSUME LocalLogin PROVE OfKind
  BY <1>3, <1>4, PlainSendKind, SomeFlags DEF LocalLogin
<1>5. ASSUME ChangePassword PROVE OfKind
  BY <1>3, <1>5, PostKind, SomeFlags DEF ChangePassword
<1>6. ASSUME RejectPassword PROVE OfKind
  BY <1>6, RejectKind DEF RejectPassword
<1>7. ASSUME OpenListModal("password") \/ CloseListModal PROVE OfKind
  BY <1>7, ListModalKind
<1>8. ASSUME NEW i \in DOMAIN calls, Leave(i) PROVE OfKind
  BY <1>2, <1>8, LeaveKind
<1>9. ASSUME NEW i \in DOMAIN calls, Answer(i, {}) PROVE OfKind
  BY <1>2, <1>9, AnswerKind
<1> QED
  BY <1>4, <1>5, <1>6, <1>7, <1>8, <1>9 DEF HomeNext, SecurityNext

LEMMA ClientKinds == ASSUME Known, [ClientNext]_pageVars PROVE OfKind
<1>1. ASSUME ClientNext PROVE OfKind
  BY <1>1, EquityKinds, PeopleKinds, PersonKinds, GrantKinds, PortalKinds, SignKinds,
     DocumentsKinds, FundraisingKinds, SettingsKinds, TasksKinds, ApprovalsKinds, JobsKinds,
     SearchKinds, SignInKinds, NetworkKind DEF ClientNext
<1> QED
  BY <1>1 DEF OfKind

-----------------------------------------------------------------------------
(* The first rendering *)

\* What the effects of the first rendering start: a load of the page, the two of the
\* portal, or none.
FirstShape ==
  \/ calls = <<>>
  \/ \E b \in Loads : Len(b) = 1 /\ calls = <<Load(b, wanted)>>
  \/ page = "portal" /\ calls = PortalLoads

LEMMA FirstFits ==
  ASSUME ClientInit
  PROVE  page \in Pages /\ Wants(wanted) /\ FirstShape
<1>1. page \in Pages /\ Wants(wanted)
  BY DEF ClientInit, PageInit, Wants, Row, Unkeyed
<1>2. \A B : B \in Batches => <<B>> \in Loads /\ Len(<<B>>) = 1
  BY OneBatch DEF Loads
<1>3. CASE page = "portal"
  <2>1. calls = PortalLoads
    BY <1>3 DEF ClientInit, FirstCalls
  <2> QED
    BY <1>1, <1>3, <2>1 DEF FirstShape
<1>4. CASE page \in {"search", "home", "security"}
  <2>1. calls = <<>>
    BY <1>4 DEF ClientInit, FirstCalls
  <2> QED
    BY <1>1, <2>1 DEF FirstShape
<1>5. CASE page \notin {"portal", "search", "home", "security"}
  <2>1. calls = <<Load(FirstLoads[page], wanted)>>
    BY <1>5 DEF ClientInit, FirstCalls
  <2>2. \E B \in Batches : FirstLoads[page] = <<B>>
    <3>1. CASE page = "equity"
      BY <3>1 DEF FirstLoads, EquityLoad, Batches, RoutesOf
    <3>2. CASE page = "people"
      BY <3>2 DEF FirstLoads, PeopleLoad, Batches, RoutesOf
    <3>3. CASE page = "grant"
      BY <3>3 DEF FirstLoads, GrantLoad, Batches, RoutesOf
    <3>4. CASE page = "person"
      BY <3>4 DEF FirstLoads, DetailsLoad, Batches, RoutesOf
    <3>5. CASE page = "sign"
      BY <3>5 DEF FirstLoads, PacketLoad, Batches, RoutesOf
    <3>6. CASE page = "documents"
      BY <3>6 DEF FirstLoads, Batches, RoutesOf
    <3>7. CASE page = "fundraising"
      BY <3>7 DEF FirstLoads, Batches, RoutesOf
    <3>8. CASE page = "settings"
      BY <3>8 DEF FirstLoads, SettingsLoad, Batches, RoutesOf
    <3>9. CASE page \in {"tasks", "approvals", "m365", "valuations"}
      BY <3>9 DEF FirstLoads, ItemsLoad, Batches, RoutesOf
    <3>10. page \in {"equity", "people", "grant", "person", "sign", "documents", "fundraising",
                     "settings", "tasks", "approvals", "m365", "valuations"}
      BY <1>1, <1>5 DEF Pages, RoutesOf
    <3> QED
      BY <3>1, <3>2, <3>3, <3>4, <3>5, <3>6, <3>7, <3>8, <3>9, <3>10
  <2>3. PICK b \in Loads : b = FirstLoads[page] /\ Len(b) = 1
    BY <1>2, <2>2
  <2>4. FirstShape
    BY <2>1, <2>3 DEF FirstShape
  <2> QED
    BY <1>1, <2>4
<1> QED
  BY <1>1, <1>3, <1>4, <1>5

\* The handlers of the first rendering load.
LEMMA FirstCallsLoad ==
  ASSUME Wants(wanted), FirstShape
  PROVE  /\ CallsFit(calls)
         /\ \A i \in DOMAIN calls :
              /\ calls[i].step = "loading" /\ calls[i].form = "load" /\ calls[i].flag = None
<1>1. CASE calls = <<>>
  <2>1. DOMAIN calls = {}
    BY <1>1
  <2>2. CallsFit(calls)
    BY <1>1 DEF CallsFit
  <2> QED
    BY <2>1, <2>2
<1>2. ASSUME NEW b \in Loads, calls = <<Load(b, wanted)>>
      PROVE  /\ CallsFit(calls)
             /\ \A i \in DOMAIN calls :
                  /\ calls[i].step = "loading" /\ calls[i].form = "load" /\ calls[i].flag = None
  <2> DEFINE c == Load(b, wanted)
  <2>1. /\ c \in CallRow /\ c.step = "loading" /\ c.form = "load" /\ c.flag = None
        /\ c.batches = b
    BY PlainLoad
  <2>2. calls = <<c>>
    BY <1>2
  <2> HIDE DEF c
  <2>3. CallsFit(<<c>>)
    BY <2>1, FitOne
  <2>4. DOMAIN calls = {1} /\ calls[1] = c
    BY <2>2
  <2> QED
    BY <2>1, <2>2, <2>3, <2>4
<1>3. CASE page = "portal" /\ calls = PortalLoads
  <2>1. /\ <<{"summary"}>> \in Loads /\ <<{"requests"}>> \in Loads
        /\ CallsFit(PortalLoads) /\ DOMAIN PortalLoads = {1, 2}
        /\ PortalLoads[1] = Load(<<{"summary"}>>, wanted)
        /\ PortalLoads[2] = Load(<<{"requests"}>>, wanted)
    BY <1>3, PortalShape
  <2>2. \A b \in Loads : /\ Load(b, wanted).step = "loading" /\ Load(b, wanted).form = "load"
                         /\ Load(b, wanted).flag = None
    BY PlainLoad
  <2>4. DOMAIN calls = {1, 2} /\ CallsFit(calls)
    BY <1>3, <2>1
  <2>5. \A i \in DOMAIN calls :
          /\ calls[i].step = "loading" /\ calls[i].form = "load" /\ calls[i].flag = None
    BY <1>3, <2>1, <2>2, <2>4
  <2> QED
    BY <2>4, <2>5
<1>4. CASE \E b \in Loads : calls = <<Load(b, wanted)>>
  <2> PICK b \in Loads : calls = <<Load(b, wanted)>>
    BY <1>4
  <2> QED
    BY <1>2
<1>5. \/ calls = <<>> \/ \E b \in Loads : calls = <<Load(b, wanted)>>
      \/ page = "portal" /\ calls = PortalLoads
  BY DEF FirstShape
<1> QED
  BY <1>1, <1>3, <1>4, <1>5

LEMMA FirstInv == ClientInit => TypeOK /\ ButtonInv /\ EditInv /\ FreshInv
<1> SUFFICES ASSUME ClientInit PROVE TypeOK /\ ButtonInv /\ EditInv /\ FreshInv
  OBVIOUS
<1>1. page \in Pages /\ Wants(wanted) /\ FirstShape
  BY FirstFits
<1>2. /\ CallsFit(calls)
      /\ \A i \in DOMAIN calls :
           /\ calls[i].step = "loading" /\ calls[i].form = "load" /\ calls[i].flag = None
  BY <1>1, FirstCallsLoad
<1>3. /\ stored = [r \in Routes |-> 0] /\ shown = [r \in Routes |-> NotShown]
      /\ modal = None /\ edit = [f \in EditForms |-> NoEdit] /\ troubled = {}
      /\ flags \subseteq {Flag("loading")}
  BY LoadingFlag DEF ClientInit, PageInit
<1>4. TypeOK
  <2>1. NotShown \in ShownRow
    BY DEF NotShown, ShownRow, Row
  <2> QED
    BY <1>1, <1>2, <1>3, <2>1 DEF TypeOK, CallsFit
<1>5. ButtonInv
  BY <1>2, <1>3 DEF ButtonInv, ButtonsComeBack
<1>6. EditInv
  <2>1. "load" \notin EditForms \cup {"saveAccount", "openAccount"} /\ "account" \in EditForms
    BY DEF EditForms
  <2>2. EditsMatchTheirRow
    BY <1>2, <2>1 DEF EditsMatchTheirRow
  <2>3. /\ edit \in [EditForms -> Filled]
        /\ \A f \in EditForms \ {"account"} : edit[f].target = edit[f].origin
    BY <1>3, SomeEdits DEF NoEdit
  <2> QED
    BY <1>2, <1>3, <2>1, <2>2, <2>3, ModalNone DEF EditInv
<1>7. FreshInv
  BY <1>3 DEF FreshInv, Shows, Routes
<1> QED
  BY <1>4, <1>5, <1>6, <1>7

-----------------------------------------------------------------------------
(* Theorems *)

ClientInv == TypeOK /\ ButtonInv /\ EditInv /\ FreshInv

\* What the user sees holds together in every visit of every page: buttons, forms and
\* what is shown.
THEOREM ClientInductive == ClientSpec => []ClientInv
<1>1. ClientInit => ClientInv
  BY FirstInv DEF ClientInv
<1>2. ClientInv /\ [ClientNext]_pageVars => ClientInv'
  <2> SUFFICES ASSUME ClientInv, [ClientNext]_pageVars PROVE ClientInv'
    OBVIOUS
  <2>1. TypeOK /\ ButtonInv /\ EditInv /\ FreshInv /\ Known
    BY DEF ClientInv, Known
  <2>2. CASE Kinds
    <3>1. TypeOK' /\ ButtonInv' /\ EditInv' /\ FreshInv'
      BY <2>1, <2>2, TypeStep, ButtonStep, EditStep, FreshStep
    <3> QED
      BY <3>1 DEF ClientInv
  <2>3. CASE UNCHANGED pageVars
    <3>1. TypeOK' /\ page' = page
      BY <2>1, <2>3, TypeKept, TypeFits DEF pageVars, TypeOK
    <3>2. ButtonInv'
      BY <2>1, <2>3, ButtonsSame DEF pageVars
    <3>3. EditInv'
      BY <2>1, <2>3, EditsLeft, EditsSame DEF pageVars
    <3>4. FreshInv'
      BY <2>1, <2>3 DEF pageVars, FreshInv
    <3> QED
      BY <3>1, <3>2, <3>3, <3>4 DEF ClientInv
  <2>4. OfKind
    BY <2>1, ClientKinds
  <2> QED
    BY <2>2, <2>3, <2>4 DEF OfKind
<1> QED
  BY <1>1, <1>2, PTL DEF ClientSpec

\* A flag that disables a button belongs to a handler in flight, and a form has at most
\* one: no early return, error or other page's answer leaves a button disabled.
THEOREM ButtonsAlwaysComeBack == ClientSpec => []ButtonsComeBack
<1>1. ClientInv => ButtonsComeBack
  BY DEF ClientInv, ButtonInv
<1> QED
  BY <1>1, ClientInductive, PTL

\* A form that is sent is filled from the row that it is sent for.
THEOREM EditsAlwaysMatchTheirRow == ClientSpec => []EditsMatchTheirRow
<1>1. ClientInv => EditsMatchTheirRow
  BY DEF ClientInv, EditInv
<1> QED
  BY <1>1, ClientInductive, PTL

\* Every handler that writes loads what it changed, for what is wanted: a page at rest
\* shows what the API has, but for the routes that ShowsWhatIsStored leaves out.
THEOREM AlwaysShowsWhatIsStored == ClientSpec => []ShowsWhatIsStored
<1>1. ClientInv => ShowsWhatIsStored
  BY FreshAtRest DEF ClientInv
<1> QED
  BY <1>1, ClientInductive, PTL
=============================================================================
