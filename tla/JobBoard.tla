------------------------------ MODULE JobBoard ------------------------------
(***************************************************************************)
(* What the shared list of pet-sitting jobs promises (README of the app):  *)
(* a user posts a job, it appears as pending, and it stays pending until   *)
(* it is booked.  A post never disappears and never changes owner.  As     *)
(* writes are delivered at least once, a booked job may become pending     *)
(* again, but only until the phone that posted it has had its answer.      *)
(* JobPosts, the model of the app over the Firestore SDK, implements this  *)
(* specification.                                                          *)
(***************************************************************************)
CONSTANTS Posts,    \* the document ids that DocumentReference may generate
          Users,    \* the accounts (Firebase Auth uids)
          NoPost    \* no document under this id

VARIABLES board,    \* board[p] is the post stored under id p, or NoPost
          phase     \* phase[p]: the one write that posts under p

boardVars == <<board, phase>>

Listing == [ownerId : Users, status : {"PENDING", "BOOKED"}]

BoardTypeOK ==
    /\ board \in [Posts -> Listing \cup {NoPost}]
    /\ phase \in [Posts -> {"unused", "sent", "answered"}]

BoardInit ==
    /\ board = [p \in Posts |-> NoPost]
    /\ phase = [p \in Posts |-> "unused"]

\* A phone starts to send a new job, and is told that it is stored or refused.
Send(p) ==
    /\ phase[p] = "unused"
    /\ phase' = [phase EXCEPT ![p] = "sent"]
    /\ UNCHANGED board

Answer(p) ==
    /\ phase[p] = "sent"
    /\ phase' = [phase EXCEPT ![p] = "answered"]
    /\ UNCHANGED board

\* A user's new job appears on the board, pending.
Post(p, u) ==
    /\ phase[p] = "sent"
    /\ board[p] = NoPost
    /\ board' = [board EXCEPT ![p] = [ownerId |-> u, status |-> "PENDING"]]
    /\ UNCHANGED phase

\* A pending job is booked; nothing else about it changes.
Book(p) ==
    /\ board[p] # NoPost
    /\ board[p].status = "PENDING"
    /\ board' = [board EXCEPT ![p].status = "BOOKED"]
    /\ UNCHANGED phase

\* A job that was sent again replaces its booking.
Reopen(p) ==
    /\ phase[p] = "sent"
    /\ board[p] # NoPost
    /\ board[p].status = "BOOKED"
    /\ board' = [board EXCEPT ![p].status = "PENDING"]
    /\ UNCHANGED phase

BoardNext ==
    \E p \in Posts : \/ Send(p) \/ Answer(p) \/ Book(p) \/ Reopen(p)
                     \/ \E u \in Users : Post(p, u)

BoardSpec == BoardInit /\ [][BoardNext]_boardVars
=============================================================================
