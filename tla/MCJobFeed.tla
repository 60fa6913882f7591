----------------------------- MODULE MCJobFeed -----------------------------
(* Instance of JobFeed for TLC. *)
EXTENDS JobFeed
=============================================================================
