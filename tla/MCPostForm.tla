---------------------------- MODULE MCPostForm -----------------------------
(* Instance of PostForm for TLC. *)
EXTENDS PostForm
=============================================================================
