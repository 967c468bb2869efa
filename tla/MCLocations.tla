---------------------------- MODULE MCLocations ----------------------------
(* Connections of one character: one that moves, leaves and is flushed by     *)
(* everybody, or two, the second of which takes over from the first.          *)
EXTENDS Locations, TLC

CONSTANTS c1, c2

Symmetry == Permutations(Clients)

=============================================================================
