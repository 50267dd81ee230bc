--------------------------- MODULE LedgerContract ---------------------------
(***************************************************************************)
(* What the equity services keep of the ledger they share, whatever the    *)
(* interleaving of their handlers: rows are numbered 1, 2, 3, ... in the   *)
(* order they are written, no row is lost or renumbered, and a row that is *)
(* not the GRANT row of a grant never changes, except that deleting a      *)
(* grant unlinks its rows.                                                 *)
(***************************************************************************)
EXTENDS Naturals

CONSTANTS Entry,   \* the rows a ledger may hold: records with the fields type,
                   \* plan, grant, from, to, qty and request
          Grants,  \* the ids the field grant may hold, besides None
          None     \* SQL NULL

VARIABLE log       \* 1..n -> Entry

Init == log = <<>>

\* The next number, and only the next number, gets a row.
Append ==
  \E n \in DOMAIN log' :
    /\ DOMAIN log' = 1..n
    /\ DOMAIN log = 1..(n - 1)
    /\ log'[n] \in Entry
    /\ \A i \in DOMAIN log : log'[i] = log[i]

\* A GRANT row may take a new plan, holder and quantity.
Amended(new, old) ==
  /\ old.type = "GRANT"
  /\ new = [old EXCEPT !.plan = new.plan, !.to = new.to, !.qty = new.qty]

Amend(g) ==
  /\ DOMAIN log' = DOMAIN log
  /\ \A i \in DOMAIN log :
       \/ log'[i] = log[i]
       \/ log[i].grant = g /\ Amended(log'[i], log[i])

Unlink(g) ==
  log' = [i \in DOMAIN log |->
            IF log[i].grant = g THEN [log[i] EXCEPT !.grant = None] ELSE log[i]]

Next == Append \/ \E g \in Grants : Amend(g) \/ Unlink(g)

Spec == Init /\ [][Next]_log
==============================================================================
