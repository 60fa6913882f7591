---------------------------- MODULE RemoteStore ----------------------------
(***************************************************************************)
(* RemoteStore of the Firestore SDK with its watch and its write stream,   *)
(* the tokens they ask Firebase Auth for, and the backend behind them.     *)
(*                                                                         *)
(* Every step is one operation of the worker queue, which runs one at a    *)
(* time, or a step of another thread (sign-in, the answer to a token       *)
(* request) or of the backend.  Sign-ins and tokens reach the worker queue *)
(* in the order in which they happened (inbox); timers, gRPC events and    *)
(* calls of the app come at any time.                                      *)
(***************************************************************************)
EXTENDS Sequences, FiniteSets, StreamState, OnlineState

CONSTANTS Targets,           \* queries that may be listened to
          MaxPendingWrites,  \* kMaxPendingWrites, 10 in the code
          MaxWrites,         \* bound: batches that are written
          MaxListens,        \* bound: calls of Listen
          MaxFaults,         \* bound: streams and token requests that fail
          MaxChanges         \* bound: sign-ins, sign-outs, token refreshes, the
                             \* network switched off, restarts of the app

ASSUME BoundsAssumption ==
    /\ MaxPendingWrites \in Nat \ {0}
    /\ {MaxWrites, MaxListens, MaxFaults, MaxChanges} \subseteq Nat

VARIABLES authUser,   \* FIRAuth: the account signed in
          counter,    \* token_counter of the credentials provider
          requests,   \* token requests that Auth has not answered
          inbox,      \* what Auth has put on the worker queue, oldest first
          storeUser,  \* the account whose mutation queue is in use
          enabled,    \* is_network_enabled_
          watch,      \* watch_stream_
          listens,    \* listen_targets_
          watched,    \* the targets that were asked for on the open watch stream
          tracker,    \* online_state_tracker_
          write,      \* write_stream_
          handshake,  \* handshake_complete_
          pipeline,   \* write_pipeline_
          wire,       \* batches sent on the write stream, not applied yet
          answers,    \* batches applied, the result on its way back
          written,    \* written[u]: batches that u wrote, numbered from 1
          settled,    \* settled[u]: the batches up to this one left u's queue
          decided,    \* decided[u]: the batches up to this one left u's queue or
                      \* have been applied over the write stream in use
          left        \* what is left of the bounds

netVars == <<enabled, storeUser>>
authVars == <<authUser, counter>>
tokenVars == <<requests, inbox>>
watchVars == <<watch, listens, watched, tracker>>
writeVars == <<write, handshake, pipeline, wire, answers>>
queueVars == <<written, settled, decided>>
vars == <<netVars, authVars, tokenVars, watchVars, writeVars, queueVars, left>>

Batch == [user : Users, n : Nat]

Names == {"watch", "write"}

\* A token request remembers the close count of its stream and the provider's
\* token counter of when it was made.
Request == [stream : Names, closes : Nat, counter : Nat]

SignIns == [kind : {"user"}, user : Users]

Results == {"ok", "aborted", "error"}

\* An answer to a request: a token, "aborted" because the account may have changed
\* since the request, or another error.
Tokens == [kind : {"token"}, stream : Names, closes : Nat, user : Users,
           result : Results]

Bounds == [writes |-> MaxWrites, listens |-> MaxListens,
           faults |-> MaxFaults, changes |-> MaxChanges]

Spend(what) == left[what] > 0 /\ left' = [left EXCEPT ![what] = @ - 1]

StreamOf(name) == IF name = "watch" THEN watch ELSE write

RemoteTypeOK ==
    /\ authUser \in Users /\ storeUser \in Users
    /\ counter \in Nat
    /\ requests \in SUBSET Request
    /\ inbox \in Seq(SignIns \cup Tokens)
    /\ enabled \in BOOLEAN /\ handshake \in BOOLEAN
    /\ watch \in Streams /\ write \in Streams
    /\ listens \in SUBSET Targets /\ watched \in SUBSET Targets
    /\ tracker \in Trackers
    /\ Len(pipeline) <= MaxPendingWrites
    /\ pipeline \in Seq(Batch) /\ wire \in Seq(Batch) /\ answers \in Seq(Batch)
    /\ written \in [Users -> Nat] /\ settled \in [Users -> Nat] /\ decided \in [Users -> Nat]
    /\ left \in [{"writes", "listens", "faults", "changes"} -> Nat]

Init ==
    /\ authUser \in Users /\ storeUser = authUser
    /\ counter = 0 /\ requests = {} /\ inbox = << >>
    /\ enabled = TRUE
    /\ watch = NewStream(authUser) /\ write = NewStream(authUser)
    /\ listens = {} /\ watched = {}
    /\ tracker = NewTracker
    /\ handshake = FALSE
    /\ pipeline = << >> /\ wire = << >> /\ answers = << >>
    /\ written = [u \in Users |-> 0]
    /\ settled = [u \in Users |-> 0]
    /\ decided = [u \in Users |-> 0]
    /\ left = Bounds

-----------------------------------------------------------------------------
(* Tokens *)

\* A stream that the step has started asks for a token (RequestCredentials).
RequestTokens(old) ==
    LET Asks(name, s, t) ==
            IF AsksForToken(s, t)
            THEN {[stream |-> name, closes |-> t.closes, counter |-> counter]} ELSE {}
    IN  requests' = old \cup Asks("watch", watch, watch') \cup Asks("write", write, write')

\* Sign-in, sign-out or a new token of the same account: the provider's counter
\* moves and the worker queue hears of it.
SignIn(u) ==
    /\ Spend("changes")
    /\ authUser' = u
    /\ counter' = counter + 1
    /\ inbox' = Append(inbox, [kind |-> "user", user |-> u])
    /\ UNCHANGED <<netVars, requests, watchVars, writeVars, queueVars>>

\* Auth answers: with a token of the account signed in, or with an error if the
\* account may have changed since the request or the token cannot be had.
AuthAnswers(r, result) ==
    /\ r \in requests
    /\ result = "aborted" <=> r.counter # counter
    /\ IF result = "error" THEN Spend("faults") ELSE UNCHANGED left
    /\ requests' = requests \ {r}
    /\ inbox' = Append(inbox, [kind |-> "token", stream |-> r.stream, closes |-> r.closes,
                               user |-> authUser, result |-> result])
    /\ UNCHANGED <<netVars, authVars, watchVars, writeVars, queueVars>>

-----------------------------------------------------------------------------
(* The watch stream *)

WatchNeeded == enabled' /\ listens' # {}

\* ShouldStartWatchStream, StartWatchStream: s is the stream so far.
StartWatchIfNeeded(s, t, otherwise) ==
    IF WatchNeeded /\ ~IsStarted(s)
    THEN watch' = Start(s) /\ tracker' = HandleWatchStreamStart(t)
    ELSE watch' = s /\ tracker' = otherwise

\* Mutant of WatchCloses: a stream that is still needed is not started again.
WatchStaysClosed(graceful) ==
    watched' = {} /\ watch' = Closed(watch, graceful) /\ tracker' = UpdateState("Unknown")

\* Mutant of WatchCloses: an unneeded stream closes and the client stays online.
ClosesOnline(graceful) ==
    /\ watched' = {}
    /\ StartWatchIfNeeded(Closed(watch, graceful), HandleWatchStreamFailure(tracker), tracker)

\* OnWatchStreamClose: a stream that is still needed is started again.
WatchCloses(graceful) ==
    LET s == Closed(watch, graceful)
    IN  /\ watched' = {}
        /\ StartWatchIfNeeded(s, HandleWatchStreamFailure(tracker), UpdateState("Unknown"))

\* Mutant of Listen: a query that comes while the stream is open is not sent.
ListenUnsent(t) ==
    /\ Spend("listens")
    /\ t \notin listens
    /\ listens' = listens \cup {t}
    /\ enabled' = enabled
    /\ StartWatchIfNeeded(watch, tracker, tracker)
    /\ watched' = watched
    /\ UNCHANGED <<storeUser, authVars, inbox, writeVars, queueVars>>
    /\ RequestTokens(requests)

\* The query is sent now if the stream is open, else when it opens.
Listen(t) ==
    /\ Spend("listens")
    /\ t \notin listens
    /\ listens' = listens \cup {t}
    /\ enabled' = enabled
    /\ IF IsOpen(watch)
       THEN watch' = Write(watch) /\ tracker' = tracker /\ watched' = watched \cup {t}
       ELSE StartWatchIfNeeded(watch, tracker, tracker) /\ watched' = watched
    /\ UNCHANGED <<storeUser, authVars, inbox, writeVars, queueVars>>
    /\ RequestTokens(requests)

\* An open stream with nothing left to listen to is marked as idle; one that is
\* not open yet cannot tell any more whether the client is online.
StopListening(t) ==
    LET none == listens' = {}
    IN  /\ t \in listens
        /\ listens' = listens \ {t}
        /\ IF IsOpen(watch)
           THEN /\ watch' = IF none THEN MarkIdle(Write(watch)) ELSE Write(watch)
                /\ tracker' = tracker
           ELSE /\ watch' = watch
                /\ tracker' = IF none /\ enabled THEN UpdateState("Unknown") ELSE tracker
        /\ watched' = watched \ {t}
        /\ UNCHANGED <<netVars, authVars, tokenVars, writeVars, queueVars, left>>

\* Any answer of the backend shows that the client is online.
WatchAnswers ==
    /\ IsOpen(watch)
    /\ watched # {} \/ watch.idle
    /\ tracker' = UpdateState("Online")
    /\ UNCHANGED <<netVars, authVars, tokenVars, watch, listens, watched, writeVars,
                   queueVars, left>>

\* The backend refuses a query: the listener is told and the target dropped.
TargetRejected(t) ==
    /\ IsOpen(watch)
    /\ t \in watched
    /\ tracker' = UpdateState("Online")
    /\ listens' = listens \ {t}
    /\ watched' = watched \ {t}
    /\ UNCHANGED <<netVars, authVars, tokenVars, watch, writeVars, queueVars, left>>

WatchIdle ==
    /\ watch.idle
    /\ enabled' = enabled /\ listens' = listens
    /\ WatchCloses(TRUE)
    /\ UNCHANGED <<storeUser, authVars, inbox, writeVars, queueVars, left>>
    /\ RequestTokens(requests)

WatchFails ==
    /\ Spend("faults")
    /\ IsOpen(watch)
    /\ enabled' = enabled /\ listens' = listens
    /\ WatchCloses(FALSE)
    /\ UNCHANGED <<storeUser, authVars, inbox, writeVars, queueVars>>
    /\ RequestTokens(requests)

\* OnWatchStreamOpen: the queries are sent (again) on the new stream.
WatchOpens(u) ==
    /\ watch' = IF listens = {} THEN Opened(watch, u) ELSE Write(Opened(watch, u))
    /\ watched' = listens
    /\ UNCHANGED <<listens, tracker>>

OnlineTimeout ==
    /\ tracker.timer
    /\ tracker' = TimedOut(tracker)
    /\ UNCHANGED <<netVars, authVars, tokenVars, watch, listens, watched, writeVars,
                   queueVars, left>>

-----------------------------------------------------------------------------
(* The write stream *)

\* Mutant of BatchesAfter: however many there are.
AllBatchesAfter(p, u) ==
    LET last == IF p = << >> THEN settled'[u] ELSE p[Len(p)].n
    IN  [i \in 1 .. written'[u] - last |-> [user |-> u, n |-> last + i]]

\* The batches of u's mutation queue that follow the pipeline p, as many as fit.
BatchesAfter(p, u) ==
    LET last == IF p = << >> THEN settled'[u] ELSE p[Len(p)].n
        room == MaxPendingWrites - Len(p)
        n == IF written'[u] - last < room THEN written'[u] - last ELSE room
    IN  [i \in 1 .. n |-> [user |-> u, n |-> last + i]]

\* FillWritePipeline for a write stream s with handshake h and u's mutation
\* queue, where the pipeline is p and w is on the wire.
FillWritePipeline(s, h, p, w, u) ==
    LET new == IF enabled' THEN BatchesAfter(p, u) ELSE << >>
        sends == IsOpen(s) /\ h /\ new # << >>
        s1 == IF sends THEN Write(s)
              ELSE IF enabled' /\ p \o new = << >> THEN MarkIdle(s) ELSE s
    IN  /\ pipeline' = p \o new
        /\ wire' = IF sends THEN w \o new ELSE w
        /\ write' = IF enabled' /\ ~IsStarted(s1) /\ p \o new # << >> THEN Start(s1) ELSE s1
        /\ handshake' = h

\* A write of the app enters the queue of the account in use.
WriteMutations ==
    /\ Spend("writes")
    /\ written' = [written EXCEPT ![storeUser] = @ + 1]
    /\ enabled' = enabled
    /\ UNCHANGED <<settled, decided>>
    /\ FillWritePipeline(write, handshake, pipeline, wire, storeUser)
    /\ UNCHANGED <<storeUser, authVars, inbox, watchVars, answers>>
    /\ RequestTokens(requests)

\* The backend answers the handshake: the whole pipeline is sent.
HandshakeComplete ==
    /\ IsOpen(write)
    /\ ~handshake
    /\ handshake' = TRUE
    /\ write' = IF pipeline = << >> THEN write ELSE Write(write)
    /\ wire' = pipeline
    /\ UNCHANGED <<netVars, authVars, tokenVars, watchVars, pipeline, answers, queueVars, left>>

\* The backend applies the next batch, also one that it has applied before: nothing
\* tells a batch that was sent again from a new one.
BackendApplies ==
    LET b == Head(wire)
    IN  /\ IsOpen(write)
        /\ wire # << >>
        /\ decided' = [decided EXCEPT ![b.user] = b.n]
        /\ wire' = Tail(wire)
        /\ answers' = Append(answers, b)
        /\ UNCHANGED <<netVars, authVars, tokenVars, watchVars, write, handshake, pipeline,
                       written, settled, left>>

\* OnWriteStreamMutationResult: a result stands for the front of the pipeline.
MutationResult ==
    /\ IsOpen(write)
    /\ answers # << >>
    /\ answers' = Tail(answers)
    /\ settled' = [settled EXCEPT ![storeUser] = Head(pipeline).n]
    /\ enabled' = enabled
    /\ UNCHANGED <<written, decided>>
    /\ FillWritePipeline(write, handshake, Tail(pipeline), wire, storeUser)
    /\ UNCHANGED <<storeUser, authVars, inbox, watchVars, left>>
    /\ RequestTokens(requests)

\* Where the backend stands in u's queue once a write stream is gone: what it has
\* applied and the client has not read the result of is sent again, as new, over the
\* next stream, whose handshake carries no stream token.
Forgotten(u) == [decided EXCEPT ![u] = settled[u]]

\* Mutant of WriteCloses: a result that was on its way is read from the next stream.
AnswersSurvive(graceful) ==
    LET s == Closed(write, graceful)
    IN  /\ write' = IF enabled' /\ pipeline # << >> THEN Start(s) ELSE s
        /\ handshake' = FALSE
        /\ wire' = << >> /\ answers' = answers
        /\ decided' = Forgotten(storeUser)
        /\ pipeline' = pipeline

\* OnWriteStreamClose after an error that concerns no single write.
WriteCloses(graceful) ==
    LET s == Closed(write, graceful)
    IN  /\ write' = IF enabled' /\ pipeline # << >> THEN Start(s) ELSE s
        /\ handshake' = FALSE
        /\ wire' = << >> /\ answers' = << >>
        /\ decided' = Forgotten(storeUser)
        /\ pipeline' = pipeline

WriteIdle ==
    /\ write.idle
    /\ enabled' = enabled
    /\ WriteCloses(TRUE)
    /\ UNCHANGED <<storeUser, authVars, inbox, watchVars, written, settled, left>>
    /\ RequestTokens(requests)

\* The stream breaks, or the backend refuses its handshake: for good or not makes no
\* difference, as the token that HandleHandshakeError then drops is never sent.
WriteFails ==
    /\ Spend("faults")
    /\ IsOpen(write)
    /\ enabled' = enabled
    /\ WriteCloses(FALSE)
    /\ UNCHANGED <<storeUser, authVars, inbox, watchVars, written, settled>>
    /\ RequestTokens(requests)

\* The backend refuses a batch for good and ends the stream with that error.  The call
\* may end before the client has read all results, so that the front of the pipeline,
\* which is dropped, need not be the batch that was refused.  The stream starts again
\* at once if there is more to send.
WriteRefused ==
    LET front == Head(pipeline).n
    IN  /\ IsOpen(write)
        /\ wire # << >>
        /\ decided' = [decided EXCEPT ![storeUser] = front]
        /\ settled' = [settled EXCEPT ![storeUser] = front]
        /\ enabled' = enabled
        /\ UNCHANGED written
        /\ FillWritePipeline(InhibitBackoff(Closed(write, FALSE)), FALSE,
                             Tail(pipeline), << >>, storeUser)
        /\ answers' = << >>
        /\ UNCHANGED <<storeUser, authVars, inbox, watchVars, left>>
        /\ RequestTokens(requests)

-----------------------------------------------------------------------------
(* What concerns both streams *)

BackoffEnds(name) ==
    /\ StreamOf(name).backoff
    /\ IF name = "watch"
       THEN watch' = BackoffElapsed(watch) /\ UNCHANGED write
       ELSE write' = BackoffElapsed(write) /\ UNCHANGED watch
    /\ UNCHANGED <<netVars, authVars, inbox, listens, watched, tracker, handshake, pipeline,
                   wire, answers, queueVars, left>>
    /\ RequestTokens(requests)

\* Mutant of FreshToken: a token of an earlier start is taken for this one's.
AnyToken(m) == TRUE

\* The token belongs to the current start of its stream.
FreshToken(m) == m.closes = StreamOf(m.stream).closes

\* ResumeStartWithCredentials
ProcessToken ==
    LET m == Head(inbox)
    IN  /\ inbox # << >> /\ m.kind = "token"
        /\ inbox' = Tail(inbox)
        /\ enabled' = enabled
        /\ UNCHANGED <<storeUser, authVars, written, settled, left>>
        /\ \/ /\ ~FreshToken(m)
              /\ UNCHANGED <<requests, watchVars, writeVars, decided>>
           \/ /\ FreshToken(m) /\ m.stream = "watch"
              /\ IF m.result = "ok" THEN WatchOpens(m.user)
                 ELSE listens' = listens /\ WatchCloses(FALSE)
              /\ UNCHANGED <<writeVars, decided>>
              /\ RequestTokens(requests)
           \/ /\ FreshToken(m) /\ m.stream = "write"
              /\ IF m.result = "ok"
                 THEN /\ write' = Write(Opened(write, m.user))
                      /\ UNCHANGED <<handshake, pipeline, wire, answers, decided>>
                 ELSE WriteCloses(FALSE)
              /\ UNCHANGED watchVars
              /\ RequestTokens(requests)

\* Mutants of ProcessSignIn: the write stream starts before the queue is swapped;
SignInTooEarly ==
    LET m == Head(inbox)
    IN  /\ inbox # << >> /\ m.kind = "user"
        /\ inbox' = Tail(inbox)
        /\ storeUser' = m.user
        /\ enabled' = enabled /\ listens' = listens
        /\ UNCHANGED <<authVars, written, settled, left>>
        /\ IF enabled
           THEN /\ watched' = {} /\ answers' = << >> /\ decided' = Forgotten(storeUser)
                /\ StartWatchIfNeeded(Stop(watch), UpdateState("Unknown"), UpdateState("Unknown"))
                /\ FillWritePipeline(Stop(write), FALSE, << >>, << >>, storeUser)
           ELSE UNCHANGED <<watch, watched, tracker, writeVars, decided>>
        /\ RequestTokens(requests)

\* the streams stay if the account is still the same.
KeepsStreams ==
    LET m == Head(inbox)
    IN  /\ inbox # << >> /\ m.kind = "user"
        /\ inbox' = Tail(inbox)
        /\ storeUser' = m.user
        /\ enabled' = enabled /\ listens' = listens
        /\ UNCHANGED <<authVars, written, settled, left>>
        /\ IF enabled /\ m.user # storeUser
           THEN /\ watched' = {} /\ answers' = << >> /\ decided' = Forgotten(storeUser)
                /\ StartWatchIfNeeded(Stop(watch), UpdateState("Unknown"), UpdateState("Unknown"))
                /\ FillWritePipeline(Stop(write), FALSE, << >>, << >>, m.user)
           ELSE UNCHANGED <<watch, watched, tracker, writeVars, decided>>
        /\ RequestTokens(requests)

\* credentialDidChangeWithUser, HandleCredentialChange: the account's mutation
\* queue comes into use and both streams are stopped and started anew.
ProcessSignIn ==
    LET m == Head(inbox)
    IN  /\ inbox # << >> /\ m.kind = "user"
        /\ inbox' = Tail(inbox)
        /\ storeUser' = m.user
        /\ enabled' = enabled /\ listens' = listens
        /\ UNCHANGED <<authVars, written, settled, left>>
        /\ IF enabled
           THEN /\ watched' = {} /\ answers' = << >> /\ decided' = Forgotten(storeUser)
                /\ StartWatchIfNeeded(Stop(watch), UpdateState("Unknown"), UpdateState("Unknown"))
                /\ FillWritePipeline(Stop(write), FALSE, << >>, << >>, m.user)
           ELSE UNCHANGED <<watch, watched, tracker, writeVars, decided>>
        /\ RequestTokens(requests)

DisableNetwork ==
    /\ Spend("changes")
    /\ enabled
    /\ enabled' = FALSE
    /\ watch' = Stop(watch) /\ write' = Stop(write)
    /\ watched' = {} /\ answers' = << >>
    /\ tracker' = UpdateState("Offline")
    /\ handshake' = FALSE
    /\ pipeline' = << >> /\ wire' = << >>
    /\ decided' = Forgotten(storeUser)
    /\ UNCHANGED <<storeUser, authVars, tokenVars, listens, written, settled>>

\* Called as the counterpart of DisableNetwork.
EnableNetwork ==
    /\ ~enabled
    /\ enabled' = TRUE
    /\ listens' = listens
    /\ UNCHANGED <<storeUser, authVars, inbox, watched, answers, queueVars, left>>
    /\ StartWatchIfNeeded(watch, tracker, UpdateState("Unknown"))
    /\ FillWritePipeline(write, handshake, pipeline, wire, storeUser)
    /\ RequestTokens(requests)

\* The app is killed and starts again: the mutation queues are on disk, and Auth
\* keeps the account; the rest is new and the network enabled.
Restart ==
    /\ Spend("changes")
    /\ enabled' = TRUE
    /\ storeUser' = authUser
    /\ counter' = 0 /\ inbox' = << >>
    /\ watch' = NewStream(authUser)
    /\ listens' = {} /\ watched' = {}
    /\ tracker' = NewTracker
    /\ answers' = << >>
    /\ decided' = Forgotten(storeUser)
    /\ UNCHANGED <<authUser, written, settled>>
    /\ FillWritePipeline(NewStream(authUser), FALSE, << >>, << >>, authUser)
    /\ requests' = IF AsksForToken(NewStream(authUser), write')
                   THEN {[stream |-> "write", closes |-> 0, counter |-> 0]} ELSE {}

-----------------------------------------------------------------------------
Next ==
    \/ \E u \in Users : SignIn(u)
    \/ \E r \in requests, result \in Results : AuthAnswers(r, result)
    \/ \E t \in Targets : Listen(t) \/ StopListening(t) \/ TargetRejected(t)
    \/ WatchAnswers \/ WatchIdle \/ WatchFails \/ OnlineTimeout
    \/ WriteMutations \/ HandshakeComplete \/ BackendApplies \/ MutationResult
    \/ WriteIdle \/ WriteFails \/ WriteRefused
    \/ \E name \in Names : BackoffEnds(name)
    \/ ProcessToken \/ ProcessSignIn
    \/ DisableNetwork \/ EnableNetwork \/ Restart

Spec == Init /\ [][Next]_vars

(* Fairness.  The worker queue runs what is on it, its timers fire, Auth     *)
(* answers every token request.  Answers adds that the backend answers what  *)
(* it was sent; faults are bounded, so this is a network that gets well.     *)

QueueRuns ==
    /\ WF_vars(\E r \in requests, result \in Results : AuthAnswers(r, result))
    /\ WF_vars(ProcessToken) /\ WF_vars(ProcessSignIn)
    /\ \A name \in Names : WF_vars(BackoffEnds(name))
    /\ WF_vars(OnlineTimeout) /\ WF_vars(WatchIdle) /\ WF_vars(WriteIdle)

Answers ==
    /\ WF_vars(WatchAnswers)
    /\ WF_vars(HandshakeComplete)
    /\ WF_vars(BackendApplies \/ WriteRefused)
    /\ WF_vars(MutationResult)

TimerSpec == Spec /\ QueueRuns

FairSpec == TimerSpec /\ Answers

-----------------------------------------------------------------------------
(* Properties *)

\* The write path keeps the promises of WriteQueue: whatever streams break,
\* accounts change or restarts come in between, batches are applied in order, at
\* least once but never after they have left the queue, and are acknowledged only
\* for an application since the last stream broke.
Queue == INSTANCE WriteQueue

ImplementsWriteQueue == Queue!QueueSpec

\* No timer outlives the state it was set for: the assertions of BackoffElapsed
\* and OnlineStateTracker hold, and a stream is never stopped for idleness while it
\* is still needed ("stopped gracefully while still needed").
TimersMatchState ==
    /\ \A s \in {watch, write} : s.backoff <=> s.state = "Backoff"
    /\ watch.idle => IsOpen(watch) /\ listens = {}
    /\ write.idle => IsOpen(write) /\ pipeline = << >>
    /\ tracker.timer => tracker.state = "Unknown" /\ IsStarted(watch)
    /\ tracker.state = "Online" => tracker.failures = 0

\* A token that is still good finds its stream waiting for it, however often the
\* stream was stopped and started since the request, and only one such token is
\* ever on its way.
FreshTokens ==
    LET fresh == {i \in DOMAIN inbox : inbox[i].kind = "token" /\ FreshToken(inbox[i])}
        asked == {r \in requests : r.closes = StreamOf(r.stream).closes}
    IN  /\ \A r \in asked : StreamOf(r.stream).state = "Starting"
        /\ \A i \in fresh :
              /\ StreamOf(inbox[i].stream).state = "Starting"
              /\ \A j \in fresh : inbox[i].stream = inbox[j].stream => i = j
              /\ \A r \in asked : r.stream # inbox[i].stream

\* A request that fails because the account may have changed concerns a stream that
\* is gone when the worker queue hears of it.  Taken for an error of the stream in
\* use, it would count as permanent.
AbortedIsStale ==
    inbox # << >> /\ Head(inbox).kind = "token" /\ Head(inbox).result = "aborted" =>
        ~FreshToken(Head(inbox))

\* What is needed is started, or will be when its timer or its token comes: no
\* error, rejection or change of account leaves a listener or a write without a
\* stream.
NeededIsStarted ==
    enabled => /\ listens # {} => IsStarted(watch)
               /\ pipeline # << >> => IsStarted(write)

\* The open watch stream is asked for exactly the targets listened to, although
\* they come and go before, while and after it opens.
WatchesWhatIsListened == watched = IF IsOpen(watch) THEN listens ELSE {}

\* The client counts as online only over a watch stream that is open.
OnlineIsOpen == tracker.state = "Online" => enabled /\ IsOpen(watch)

Room(u) ==
    IF written[u] - settled[u] < MaxPendingWrites
    THEN written[u] - settled[u] ELSE MaxPendingWrites

\* The pipeline is the front of the mutation queue of the account in use, as much
\* of it as fits, and the results on their way and the batches on the wire are,
\* in this order, what the pipeline holds: a result stands for its front.
PipelineInStep ==
    /\ pipeline = [i \in 1 .. (IF enabled THEN Room(storeUser) ELSE 0) |->
                      [user |-> storeUser, n |-> settled[storeUser] + i]]
    /\ answers \o wire = IF handshake THEN pipeline ELSE << >>
    /\ handshake => IsOpen(write)

\* Nothing is sent or watched under a token of another account than the one whose
\* queue is in use, although sign-ins, tokens and writes come from different
\* threads.
StreamsOfUser == \A s \in {watch, write} : IsOpen(s) => s.as = storeUser

\* Every batch leaves the queue some day: the queue of an account empties, unless
\* the account is not the one signed in any more or the network is off.
WritesSettle ==
    \A u \in Users :
        settled[u] < written[u] ~> settled[u] = written[u] \/ authUser # u \/ ~enabled

\* While something is listened to, the client gets to know whether it is online.
OnlineKnown ==
    enabled /\ listens # {} ~> tracker.state # "Unknown" \/ listens = {} \/ ~enabled

\* "If the timeout is reached, we transition to Offline rather than waiting
\* indefinitely": the same, although the backend may never answer anything.
NeverWaitsIndefinitely == OnlineKnown
=============================================================================
