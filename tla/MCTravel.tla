------------------------------ MODULE MCTravel ------------------------------
(* A street with a house that is always open and a shop that is not; behind  *)
(* the shop a cellar, open when the shop is shut, past midnight.             *)
EXTENDS Travel, TLC

CONSTANTS c1, street, shop, cellar, house, shopDoor, cellarDoor, houseDoor,
          near, far, q1, q2, a1, a2

MCSource == [r \in Rules |-> IF r = cellarDoor THEN shop ELSE street]
MCDestination ==
  (shopDoor :> shop) @@ (cellarDoor :> cellar) @@ (houseDoor :> house)
MCInRange == {<<r, near>> : r \in Rules}
MCDayBoundary == [r \in Rules |-> 1]
MCOpens == [r \in Rules |-> IF r = cellarDoor THEN 2 ELSE 1]
MCCloses == [r \in Rules |-> IF r = cellarDoor THEN 3 ELSE 2]
MCLifetime == [r \in Rules |-> 1]
Symmetry == Permutations(RequestIDs) \cup Permutations(Authorizations)

=============================================================================
