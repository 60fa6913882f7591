----------------------------- MODULE MCJobPosts -----------------------------
(* Instances of JobPosts for TLC. *)
EXTENDS JobPosts

CONSTANTS d1, d2, u1, u2

\* Every phone has its own account.
OwnAccount(d) == IF d = d1 THEN {u1} ELSE {u2}

\* Everyone may sign in everywhere.
AnyAccount(d) == Users
=============================================================================
