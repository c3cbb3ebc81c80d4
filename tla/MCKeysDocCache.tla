--------------------------- MODULE MCKeysDocCache ---------------------------
(***************************************************************************)
(* Small instances of KeysDocCache for TLC.                                *)
(***************************************************************************)
EXTENDS KeysDocCache, TLC

\* No pin, or one edition of one workspace.
MCPins == {None, [ws |-> CHOOSE w \in Workspaces : TRUE, version |-> CHOOSE v \in Versions : TRUE]}

CallSymmetry == Permutations(Calls)
=============================================================================
