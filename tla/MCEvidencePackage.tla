-------------------------- MODULE MCEvidencePackage --------------------------
(***************************************************************************)
(* Small instances of EvidencePackage for TLC: calls are interchangeable.  *)
(***************************************************************************)
EXTENDS EvidencePackage, TLC

EvidenceSymmetry == Permutations(Calls)
=============================================================================
