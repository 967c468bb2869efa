---------------------------- MODULE MCForklifts ----------------------------
(* Two clients, a world whose forklifts expire and one whose do not. *)
EXTENDS Forklifts, TLC

CONSTANTS c1, c2, ma00, mfsy, base1, dynamic1, dynamic2

MCHome == [f \in BaseForklifts |-> ma00]
MCSpawnLimit == [w \in Worlds |-> 1]

=============================================================================
