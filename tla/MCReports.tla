------------------------------ MODULE MCReports ------------------------------
(* Reporters, subjects, contents and keys are interchangeable.              *)
EXTENDS Reports, TLC

Perms == Permutations(Reporters) \cup Permutations(Subjects)
           \cup Permutations(Contents) \cup Permutations(Keys)
=============================================================================
