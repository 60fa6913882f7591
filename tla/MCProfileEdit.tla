--------------------------- MODULE MCProfileEdit ---------------------------
(* Instances of ProfileEdit for TLC. *)
EXTENDS ProfileEdit, TLC

CONSTANTS d1, d2, u1, u2, s1, s2

\* Saves, users and phones are interchangeable.
AnySaveUserOrDevice == Permutations(Saves) \cup Permutations(Users) \cup Permutations(Devices)
=============================================================================
