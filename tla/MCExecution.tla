----------------------------- MODULE MCExecution -----------------------------
(***************************************************************************)
(* Small instances of Execution for TLC.  Calls are interchangeable.      *)
(***************************************************************************)
EXTENDS ExecutionInvariant, TLC

CallSymmetry == Permutations(Calls)
=============================================================================
