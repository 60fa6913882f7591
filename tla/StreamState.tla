---------------------------- MODULE StreamState ----------------------------
(***************************************************************************)
(* One stream of the Firestore SDK to its backend (remote/stream.mm), seen *)
(* from the worker queue: a state machine with a backoff and an idle timer *)
(* around a gRPC call that is made anew on every start.  The operators     *)
(* take a stream and give the stream that the method of that name leaves   *)
(* behind; RemoteStore has two of them, watch and write.                   *)
(*                                                                         *)
(* Delays are left out: the timers fire some time after they are set.      *)
(***************************************************************************)
EXTENDS Naturals

CONSTANT Users      \* accounts, being signed out counts as one of them

States == {"Initial", "Starting", "Open", "Error", "Backoff"}

\* as: the account whose token the gRPC call carries; it only means something
\* while the stream is open.  backoff, idle: the timers scheduled on the queue.
Streams == [state : States, closes : Nat, as : Users, backoff : BOOLEAN, idle : BOOLEAN]

NewStream(u) ==
    [state |-> "Initial", closes |-> 0, as |-> u, backoff |-> FALSE, idle |-> FALSE]

IsStarted(s) == s.state \in {"Starting", "Open", "Backoff"}

IsOpen(s) == s.state = "Open"

\* Mutant of Start: the backoff timer is not set.
StartWithoutTimer(s) ==
    [s EXCEPT !.state = IF s.state = "Error" THEN "Backoff" ELSE "Starting"]

\* From an error the stream backs off first; otherwise it asks for a token.
Start(s) ==
    IF s.state = "Error" THEN [s EXCEPT !.state = "Backoff", !.backoff = TRUE]
                         ELSE [s EXCEPT !.state = "Starting"]

\* The backoff timer fires.
BackoffElapsed(s) == Start([s EXCEPT !.state = "Initial", !.backoff = FALSE])

\* Whether the step from s to t has asked for a token.
AsksForToken(s, t) ==
    /\ t.state = "Starting"
    /\ s.state # "Starting" \/ s.closes # t.closes

\* The token is there: the call starts and the stream is open, before the
\* backend has answered anything.
Opened(s, u) == [s EXCEPT !.state = "Open", !.as = u]

MarkIdle(s) == IF IsOpen(s) THEN [s EXCEPT !.idle = TRUE] ELSE s

\* Mutant of Write: the stream stays marked as idle.
WriteWhileIdle(s) == s

Write(s) == [s EXCEPT !.idle = FALSE]

\* Mutant of Closed: the close count stays, so old tokens look new.
ClosedUncounted(s, graceful) ==
    [s EXCEPT !.state = IF graceful THEN "Initial" ELSE "Error",
              !.backoff = FALSE, !.idle = FALSE]

\* The timers are cancelled, tokens on their way become void, the call is gone.
Closed(s, graceful) ==
    [s EXCEPT !.state = IF graceful THEN "Initial" ELSE "Error",
              !.closes = @ + 1, !.backoff = FALSE, !.idle = FALSE]

Stop(s) == IF IsStarted(s) THEN Closed(s, TRUE) ELSE s

InhibitBackoff(s) == [s EXCEPT !.state = "Initial"]
=============================================================================
