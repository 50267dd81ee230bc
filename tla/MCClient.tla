------------------------------ MODULE MCClient ------------------------------
(***************************************************************************)
(* Constants of the TLC model of ClientSystem.                             *)
(***************************************************************************)
EXTENDS ClientSystem, TLC

\* Two accounts opened and one saved take three events; the pages with the most
\* handlers are left at two.
MCUseBound ==
  [p \in Pages |-> IF p \in {"equity", "settings", "portal", "documents"} THEN 2 ELSE 3]

MCRows == Permutations(Rows)
=============================================================================
