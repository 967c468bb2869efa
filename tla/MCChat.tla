------------------------------- MODULE MCChat -------------------------------
(* At most two connections and two messages, of either and of Discord; a history of one. *)
EXTENDS Chat

=============================================================================
