----------------------------- MODULE MCSignature -----------------------------
(***************************************************************************)
(* Constants of the TLC models of SignatureSystem.                         *)
(***************************************************************************)
EXTENDS SignatureSystem, TLC

WorkerSymmetry == Permutations(Workers)

RequestSymmetry == Permutations(SignatureRequests) \cup Permutations(Documents)
==============================================================================
