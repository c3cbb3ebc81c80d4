--------------------------- MODULE MCPolicyEdition ---------------------------
(***************************************************************************)
(* Small instances of PolicyEdition for TLC: authors are interchangeable,  *)
(* and so are definitions.                                                 *)
(***************************************************************************)
EXTENDS PolicyEdition, TLC

PolicySymmetry == Permutations(Authors) \cup Permutations(Definitions)
=============================================================================
