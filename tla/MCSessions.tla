----------------------------- MODULE MCSessions -----------------------------
(* Three connections of one character, with room for one. *)
EXTENDS Sessions

CONSTANTS a1, a2, a3, ryo

MCCharacter == [c \in Clients |-> ryo]

=============================================================================
