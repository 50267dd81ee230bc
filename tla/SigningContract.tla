--------------------------- MODULE SigningContract ---------------------------
(***************************************************************************)
(* What the e-signature service promises of its evidence: signers of an    *)
(* ordered request leave theirs in the signing order, evidence is never    *)
(* withdrawn, the set of signers never changes, and a request has a signed *)
(* copy on file only when all its signers have left their evidence.        *)
(***************************************************************************)
EXTENDS Naturals

CONSTANTS SignatureRequests, Orders

VARIABLES
  asked,      \* request -> the orders asked to sign
  ordered,    \* the requests with a required order
  evidence,   \* request -> the orders with evidence
  filed       \* the requests with a signed copy on file

contract == <<asked, ordered, evidence, filed>>

Init == asked = <<>> /\ ordered = {} /\ evidence = <<>> /\ filed = {}

Ask(r) ==
  /\ r \notin DOMAIN asked
  /\ \E S \in (SUBSET Orders) \ {{}} :
       asked' = [q \in DOMAIN asked \cup {r} |-> IF q = r THEN S ELSE asked[q]]
  /\ evidence' = [q \in DOMAIN asked \cup {r} |-> IF q = r THEN {} ELSE evidence[q]]
  /\ ordered' \in {ordered, ordered \cup {r}}
  /\ UNCHANGED filed

Sign(r, o) ==
  /\ r \in DOMAIN asked /\ o \in asked[r]
  /\ r \in ordered => \A p \in asked[r] : p < o => p \in evidence[r]
  /\ evidence' = [evidence EXCEPT ![r] = @ \cup {o}]
  /\ UNCHANGED <<asked, ordered, filed>>

File(r) ==
  /\ r \in DOMAIN asked /\ evidence[r] = asked[r]
  /\ filed' = filed \cup {r}
  /\ UNCHANGED <<asked, ordered, evidence>>

Next ==
  \E r \in SignatureRequests :
    Ask(r) \/ (\E o \in Orders : Sign(r, o)) \/ File(r)

Spec == Init /\ [][Next]_contract
==============================================================================
