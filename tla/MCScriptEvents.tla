--------------------------- MODULE MCScriptEvents ---------------------------
(* Two connections of one character, two published versions of different     *)
(* priority.                                                                 *)
EXTENDS ScriptEvents, TLC

CONSTANTS c1, c2, gate, story

MCPriority == gate :> 2 @@ story :> 1

Symmetry == Permutations(Conns)

=============================================================================
