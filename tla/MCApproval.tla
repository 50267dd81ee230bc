----------------------------- MODULE MCApproval -----------------------------
(***************************************************************************)
(* Constants of the TLC model of ApprovalFlow.                             *)
(***************************************************************************)
EXTENDS ApprovalFlow, TLC

Symmetry == Permutations(Workers)
==============================================================================
