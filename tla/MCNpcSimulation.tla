-------------------------- MODULE MCNpcSimulation --------------------------
(* Constants of NpcSimulation for TLC.                                     *)
EXTENDS NpcSimulation

(* The first second of the day and a late one.                             *)
MCSettings == {0, DayLength - 1}
=============================================================================
