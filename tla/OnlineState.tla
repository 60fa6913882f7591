---------------------------- MODULE OnlineState ----------------------------
(***************************************************************************)
(* OnlineStateTracker of the Firestore SDK: whether the client counts as   *)
(* online, which decides when listeners and getDocument() make do with the *)
(* cache.  Each operator takes a tracker and gives the tracker that the    *)
(* method of that name leaves behind.                                      *)
(***************************************************************************)
EXTENDS Naturals

CONSTANT MaxWatchStreamFailures     \* kMaxWatchStreamFailures, 1 in the code

ASSUME MaxFailuresAssumption == MaxWatchStreamFailures \in Nat \ {0}

OnlineStates == {"Unknown", "Online", "Offline"}

\* timer: online_state_timer_ is scheduled.
Trackers == [state : OnlineStates, failures : Nat, timer : BOOLEAN]

NewTracker == [state |-> "Unknown", failures |-> 0, timer |-> FALSE]

\* Only the first attempt starts the clock.
HandleWatchStreamStart(t) ==
    IF t.failures # 0 THEN t ELSE [t EXCEPT !.state = "Unknown", !.timer = TRUE]

HandleWatchStreamFailure(t) ==
    IF t.state = "Online" THEN [t EXCEPT !.state = "Unknown"]
    ELSE IF t.failures + 1 < MaxWatchStreamFailures
    THEN [t EXCEPT !.failures = @ + 1]
    ELSE [t EXCEPT !.failures = @ + 1, !.state = "Offline", !.timer = FALSE]

UpdateState(s) == [state |-> s, failures |-> 0, timer |-> FALSE]

\* The timer fires.
TimedOut(t) == [t EXCEPT !.state = "Offline", !.timer = FALSE]
=============================================================================
