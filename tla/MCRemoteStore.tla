--------------------------- MODULE MCRemoteStore ---------------------------
(* Instances of RemoteStore for TLC. *)
EXTENDS RemoteStore

CONSTANTS u1, u2, t1, t2
=============================================================================
