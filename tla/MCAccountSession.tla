-------------------------- MODULE MCAccountSession --------------------------
(* Instances of AccountSession for TLC. *)
EXTENDS AccountSession

CONSTANTS d1, d2, u1, u2
=============================================================================
