-------------------------- MODULE MCScriptVersions --------------------------
(* One script, two sources that compile and one that does not, two requests. *)
EXTENDS ScriptVersions, TLC

CONSTANTS p1, p2, greeting, farewell, broken

Symmetry == Permutations(Requests) \cup Permutations(Valid)

=============================================================================
