--------------------------- MODULE VehicleClaims ---------------------------
(***************************************************************************)
(* What the hub promises about driving: a vehicle has at most one driver,  *)
(* a player drives at most one vehicle, and a vehicle changes hands only   *)
(* by being given up first.  Forklifts.tla is shown to implement it.       *)
(***************************************************************************)
CONSTANTS Clients, Vehicles, NoClient

VARIABLE holder     \* holder[v]: the client that drives v, or NoClient

Init == holder = [v \in Vehicles |-> NoClient]

\* Taking v lets go of whatever c drove before.
Claim(c, v) ==
  /\ holder[v] \in {NoClient, c}
  /\ holder' = [u \in Vehicles |->
                  IF u = v THEN c
                  ELSE IF holder[u] = c THEN NoClient ELSE holder[u]]

GiveUp(c) ==
  holder' = [u \in Vehicles |-> IF holder[u] = c THEN NoClient ELSE holder[u]]

Next == \E c \in Clients : GiveUp(c) \/ \E v \in Vehicles : Claim(c, v)

Spec == Init /\ [][Next]_holder

=============================================================================
