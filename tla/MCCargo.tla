------------------------------- MODULE MCCargo -------------------------------
(* Two drivers, one authored crate and up to two replacements, and a second  *)
(* world to go to.                                                           *)
EXTENDS Cargo, TLC

CONSTANTS c1, c2, ma00, elsewhere, job1, job4, job5, spawn1

MCSpawnOf == job1 :> spawn1
MCSpawnWorld == spawn1 :> ma00

Symmetry == Permutations(Clients) \cup Permutations(MoreCrates)

=============================================================================
