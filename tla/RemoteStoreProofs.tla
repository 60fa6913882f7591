------------------------- MODULE RemoteStoreProofs -------------------------
(***************************************************************************)
(* Theorems about RemoteStore, for any accounts, queries and bounds.       *)
(*                                                                         *)
(* The inductive invariant has three parts.  WatchInv is about the watch   *)
(* stream with what is listened to and the online state, WriteInv about    *)
(* the write stream with its pipeline and the queues, AuthInv about what   *)
(* Auth and the worker queue know of the accounts.  The first two see each *)
(* other only through the network switch; AuthInv sees of the streams      *)
(* only that they Move.                                                    *)
(***************************************************************************)
EXTENDS RemoteStore, SequenceTheorems, TLAPS

-----------------------------------------------------------------------------
(* One stream *)

\* The timers of a stream are those of its state.
Fits(s) == /\ s.backoff <=> s.state = "Backoff"
           /\ s.idle => IsOpen(s)

\* What the tokens see of a step of a stream that no token opens: it does not open,
\* and if it stops waiting for its token, the token becomes void.
Moves(s, t) ==
    /\ s.closes <= t.closes
    /\ s.closes = t.closes /\ s.state = "Starting" => t.state = "Starting"
    /\ IsOpen(t) => IsOpen(s) /\ t.as = s.as /\ t.closes = s.closes

\* The lemmas up to StreamFields say of each operation on a stream what it leaves behind:
\* a stream of the right type whose timers fit its state, started and open or not.
LEMMA NewStreamIs ==
    ASSUME NEW u \in Users
    PROVE  /\ NewStream(u) \in Streams
           /\ Fits(NewStream(u))
           /\ ~IsStarted(NewStream(u))
           /\ NewStream(u).state = "Initial"
           /\ NewStream(u).closes = 0
           /\ ~NewStream(u).idle
  BY DEF NewStream, Streams, States, Fits, IsOpen, IsStarted

LEMMA StartIs ==
    ASSUME NEW s \in Streams, Fits(s), ~IsStarted(s)
    PROVE  /\ Start(s) \in Streams
           /\ Fits(Start(s))
           /\ IsStarted(Start(s)) /\ ~IsOpen(Start(s))
           /\ ~Start(s).idle
           /\ Start(s).closes = s.closes
  BY DEF Start, Streams, States, Fits, IsOpen, IsStarted

LEMMA BackoffElapsedIs ==
    ASSUME NEW s \in Streams, Fits(s), s.backoff
    PROVE  /\ BackoffElapsed(s) \in Streams
           /\ Fits(BackoffElapsed(s))
           /\ BackoffElapsed(s).state = "Starting"
           /\ ~BackoffElapsed(s).idle
           /\ BackoffElapsed(s).closes = s.closes
           /\ IsStarted(s) /\ ~IsOpen(s)
  BY DEF BackoffElapsed, Start, Streams, States, Fits, IsOpen, IsStarted

LEMMA OpenedIs ==
    ASSUME NEW s \in Streams, Fits(s), s.state = "Starting", NEW u \in Users
    PROVE  /\ Opened(s, u) \in Streams
           /\ Fits(Opened(s, u))
           /\ IsOpen(Opened(s, u)) /\ Opened(s, u).as = u
           /\ ~Opened(s, u).idle
           /\ Opened(s, u).closes = s.closes
  BY DEF Opened, Streams, States, Fits, IsOpen

\* MarkIdle and Write only touch the idle timer.
Alike(s, t) == s.state = t.state /\ s.closes = t.closes /\ s.as = t.as

\* Streams that differ in their idle timer only are started and open alike.
LEMMA AlikeIs ==
    ASSUME NEW s, NEW t, Alike(s, t)
    PROVE  /\ IsOpen(s) <=> IsOpen(t)
           /\ IsStarted(s) <=> IsStarted(t)
           /\ s.closes \in Nat => Moves(s, t)
  BY DEF Alike, IsOpen, IsStarted, Moves

LEMMA MarkIdleIs ==
    ASSUME NEW s \in Streams, Fits(s)
    PROVE  /\ MarkIdle(s) \in Streams
           /\ Fits(MarkIdle(s))
           /\ Alike(s, MarkIdle(s))
  BY DEF MarkIdle, Streams, States, Fits, IsOpen, Alike

LEMMA WriteIs ==
    ASSUME NEW s \in Streams, Fits(s)
    PROVE  /\ Write(s) \in Streams
           /\ Fits(Write(s))
           /\ Alike(s, Write(s))
           /\ ~Write(s).idle
  BY DEF Write, Streams, States, Fits, IsOpen, Alike

LEMMA ClosedIs ==
    ASSUME NEW s \in Streams, NEW graceful \in BOOLEAN
    PROVE  /\ Closed(s, graceful) \in Streams
           /\ Fits(Closed(s, graceful))
           /\ ~IsStarted(Closed(s, graceful)) /\ ~IsOpen(Closed(s, graceful))
           /\ ~Closed(s, graceful).idle
           /\ Closed(s, graceful).closes = s.closes + 1
<1> s.closes + 1 \in Nat
  BY DEF Streams
<1>1. CASE graceful
  BY <1>1 DEF Closed, Streams, States, Fits, IsOpen, IsStarted
<1>2. CASE ~graceful
  BY <1>2 DEF Closed, Streams, States, Fits, IsOpen, IsStarted
<1> QED
  BY <1>1, <1>2

LEMMA StopIs ==
    ASSUME NEW s \in Streams, Fits(s)
    PROVE  /\ Stop(s) \in Streams
           /\ Fits(Stop(s))
           /\ ~IsStarted(Stop(s)) /\ ~IsOpen(Stop(s))
           /\ ~Stop(s).idle
           /\ Stop(s).closes = IF IsStarted(s) THEN s.closes + 1 ELSE s.closes
           /\ Moves(s, Stop(s))
<1>1. CASE IsStarted(s)
  <2>1. Stop(s) = Closed(s, TRUE)
    BY <1>1 DEF Stop
  <2>2. s.closes \in Nat
    BY DEF Streams
  <2>3. /\ Stop(s) \in Streams
        /\ Fits(Stop(s))
        /\ ~IsStarted(Stop(s)) /\ ~IsOpen(Stop(s))
        /\ ~Stop(s).idle
        /\ Stop(s).closes = s.closes + 1
    BY <2>1, ClosedIs, Zenon
  <2>4. Moves(s, Stop(s))
    BY <2>2, <2>3 DEF Moves
  <2> QED
    BY <1>1, <2>3, <2>4, Zenon
<1>2. CASE ~IsStarted(s)
  BY <1>2 DEF Stop, Moves, Streams, Fits, IsOpen, IsStarted
<1> QED
  BY <1>1, <1>2

LEMMA InhibitBackoffIs ==
    ASSUME NEW s \in Streams, Fits(s), ~IsStarted(s)
    PROVE  /\ InhibitBackoff(s) \in Streams
           /\ Fits(InhibitBackoff(s))
           /\ ~IsStarted(InhibitBackoff(s)) /\ ~IsOpen(InhibitBackoff(s))
           /\ ~InhibitBackoff(s).idle
           /\ InhibitBackoff(s).closes = s.closes
  BY DEF InhibitBackoff, Streams, States, Fits, IsOpen, IsStarted

\* The fields of a stream, and that an open stream and one that waits are started.
LEMMA StreamFields ==
    ASSUME NEW s \in Streams
    PROVE  /\ s.closes \in Nat /\ s.as \in Users
           /\ s.idle \in BOOLEAN /\ s.backoff \in BOOLEAN
           /\ IsOpen(s) => IsStarted(s)
           /\ s.state = "Starting" => IsStarted(s) /\ ~IsOpen(s)
           /\ Moves(s, s)
  BY DEF Streams, IsOpen, IsStarted, Moves

\* A stream that is started after it was found stopped, or closed just before,
\* gives the tokens no surprise.
LEMMA StartMoves ==
    ASSUME NEW s \in Streams, NEW r \in Streams, Fits(r), ~IsStarted(r),
           \/ s.closes < r.closes
           \/ ~IsStarted(s) /\ s.closes = r.closes
    PROVE  Moves(s, Start(r)) /\ Moves(s, r)
  BY StartIs, StreamFields DEF Moves, IsOpen, IsStarted

-----------------------------------------------------------------------------
(* The online state *)

\* The clock only runs while nothing is known, and failures are only counted since
\* the client was last online.
Consistent(t) == /\ t.timer => t.state = "Unknown"
                 /\ t.state = "Online" => t.failures = 0

\* The lemmas up to NewTrackerIs say the same of the tracker of the online state.
LEMMA WatchStreamStartIs ==
    ASSUME NEW t \in Trackers, Consistent(t), t.state # "Online"
    PROVE  /\ HandleWatchStreamStart(t) \in Trackers
           /\ Consistent(HandleWatchStreamStart(t))
           /\ HandleWatchStreamStart(t).state # "Online"
  BY DEF Trackers, OnlineStates, Consistent, HandleWatchStreamStart

LEMMA WatchStreamFailureIs ==
    ASSUME NEW t \in Trackers, Consistent(t)
    PROVE  /\ HandleWatchStreamFailure(t) \in Trackers
           /\ Consistent(HandleWatchStreamFailure(t))
           /\ HandleWatchStreamFailure(t).state # "Online"
<1> t.failures + 1 \in Nat
  BY DEF Trackers
<1>1. CASE t.state = "Online"
  BY <1>1 DEF Trackers, OnlineStates, Consistent, HandleWatchStreamFailure
<1>2. CASE t.state # "Online" /\ t.failures + 1 < MaxWatchStreamFailures
  BY <1>2 DEF Trackers, OnlineStates, Consistent, HandleWatchStreamFailure
<1>3. CASE t.state # "Online" /\ ~(t.failures + 1 < MaxWatchStreamFailures)
  BY <1>3 DEF Trackers, OnlineStates, Consistent, HandleWatchStreamFailure
<1> QED
  BY <1>1, <1>2, <1>3

LEMMA TimedOutIs ==
    ASSUME NEW t \in Trackers
    PROVE  /\ TimedOut(t) \in Trackers
           /\ Consistent(TimedOut(t))
           /\ TimedOut(t).state = "Offline" /\ ~TimedOut(t).timer
  BY DEF Trackers, OnlineStates, Consistent, TimedOut

LEMMA UpdateStateIs ==
    ASSUME NEW s \in OnlineStates
    PROVE  /\ UpdateState(s) \in Trackers
           /\ Consistent(UpdateState(s))
           /\ UpdateState(s).state = s /\ ~UpdateState(s).timer
  BY DEF UpdateState, Trackers, OnlineStates, Consistent

LEMMA NewTrackerIs ==
    NewTracker \in Trackers /\ Consistent(NewTracker)
    /\ NewTracker.state = "Unknown" /\ ~NewTracker.timer
  BY DEF NewTracker, Trackers, OnlineStates, Consistent

-----------------------------------------------------------------------------
(* The watch stream, what is listened to and the online state *)

watchParts == <<enabled, watch, listens, watched, tracker>>

WatchInv ==
    /\ enabled \in BOOLEAN /\ watch \in Streams /\ tracker \in Trackers
    /\ listens \in SUBSET Targets /\ watched \in SUBSET Targets
    /\ Fits(watch)
    /\ watch.idle => listens = {}
    /\ Consistent(tracker)
    /\ tracker.timer => IsStarted(watch)
    /\ IF enabled THEN listens # {} => IsStarted(watch) ELSE ~IsStarted(watch)
    /\ WatchesWhatIsListened
    /\ OnlineIsOpen

\* The following lemmas go through the steps of the watch stream: each keeps WatchInv and
\* only Moves the stream, except a token that opens it and a restart.
LEMMA WatchKept ==
    ASSUME WatchInv, UNCHANGED watchParts
    PROVE  WatchInv' /\ Moves(watch, watch')
<1>1. Moves(watch, watch')
  BY StreamFields DEF WatchInv, watchParts
<1> QED
  BY <1>1 DEF WatchInv, watchParts, WatchesWhatIsListened, OnlineIsOpen, Fits

\* A stopped watch stream s is started if it is needed.
LEMMA WatchStarts ==
    ASSUME NEW s \in Streams, Fits(s), ~IsStarted(s),
           NEW t \in Trackers, Consistent(t), t.state # "Online",
           NEW o \in Trackers, Consistent(o), o.state # "Online", ~o.timer,
           enabled' \in BOOLEAN, listens' \in SUBSET Targets, watched' = {},
           StartWatchIfNeeded(s, t, o)
    PROVE  WatchInv' /\ watch' \in {s, Start(s)}
<1>1. CASE WatchNeeded
  <2>1. watch' = Start(s) /\ tracker' = HandleWatchStreamStart(t)
    BY <1>1 DEF StartWatchIfNeeded
  <2>2. /\ watch' \in Streams /\ Fits(watch)'
        /\ IsStarted(watch)' /\ ~IsOpen(watch)' /\ ~watch'.idle
    BY <2>1, StartIs DEF Fits
  <2>3. tracker' \in Trackers /\ Consistent(tracker)' /\ tracker'.state # "Online"
    BY <2>1, WatchStreamStartIs DEF Consistent
  <2> QED
    BY <1>1, <2>1, <2>2, <2>3
       DEF WatchInv, WatchNeeded, WatchesWhatIsListened, OnlineIsOpen
<1>2. CASE ~WatchNeeded
  <2>1. watch' = s /\ tracker' = o
    BY <1>2 DEF StartWatchIfNeeded
  <2>2. ~IsOpen(s) /\ ~s.idle
    BY StreamFields DEF Fits
  <2> QED
    BY <1>2, <2>1, <2>2
       DEF WatchInv, WatchNeeded, WatchesWhatIsListened, OnlineIsOpen, Fits, Consistent
<1> QED
  BY <1>1, <1>2

LEMMA WatchClosesStep ==
    ASSUME WatchInv, NEW graceful \in BOOLEAN, WatchCloses(graceful),
           enabled' = enabled, listens' = listens
    PROVE  WatchInv' /\ Moves(watch, watch')
<1> DEFINE s == Closed(watch, graceful)
           t == HandleWatchStreamFailure(tracker)
           o == UpdateState("Unknown")
<1>1. s \in Streams /\ Fits(s) /\ ~IsStarted(s) /\ s.closes = watch.closes + 1
  BY ClosedIs DEF WatchInv
<1>2. t \in Trackers /\ Consistent(t) /\ t.state # "Online"
  BY WatchStreamFailureIs DEF WatchInv
<1>3. o \in Trackers /\ Consistent(o) /\ o.state # "Online" /\ ~o.timer
  BY UpdateStateIs DEF OnlineStates
<1>4. StartWatchIfNeeded(s, t, o) /\ watched' = {}
  BY DEF WatchCloses
<1>5. enabled' \in BOOLEAN /\ listens' \in SUBSET Targets
  BY DEF WatchInv
<1> HIDE DEF s, t, o
<1>6. WatchInv' /\ watch' \in {s, Start(s)}
  BY <1>1, <1>2, <1>3, <1>4, <1>5, WatchStarts
<1>7. watch.closes < s.closes
  BY <1>1, StreamFields DEF WatchInv
<1> QED
  BY <1>1, <1>6, <1>7, StartMoves DEF WatchInv

LEMMA ListenStep ==
    ASSUME WatchInv, NEW q \in Targets, Listen(q)
    PROVE  WatchInv' /\ Moves(watch, watch')
<1> USE DEF Listen
<1>1. enabled' \in BOOLEAN /\ listens' \in SUBSET Targets /\ listens' # {}
  BY DEF WatchInv
<1>2. CASE IsOpen(watch)
  <2>1. watch' = Write(watch) /\ tracker' = tracker /\ watched' = watched \cup {q}
    BY <1>2
  <2>2. watch' \in Streams /\ Fits(watch)' /\ ~watch'.idle /\ Alike(watch, watch')
    BY <2>1, WriteIs DEF WatchInv, Fits
  <2>3. IsOpen(watch)' /\ IsStarted(watch)' /\ IsStarted(watch) /\ Moves(watch, watch')
    BY <1>2, <2>2, AlikeIs, StreamFields DEF WatchInv
  <2> QED
    BY <1>1, <1>2, <2>1, <2>2, <2>3
       DEF WatchInv, WatchesWhatIsListened, OnlineIsOpen, Consistent
<1>3. CASE ~IsOpen(watch) /\ IsStarted(watch)
  <2>1. watch' = watch /\ tracker' = tracker /\ watched' = watched
    BY <1>3 DEF StartWatchIfNeeded
  <2>2. ~watch.idle /\ Moves(watch, watch)
    BY <1>3, StreamFields DEF WatchInv, Fits
  <2> QED
    BY <1>1, <1>3, <2>1, <2>2
       DEF WatchInv, WatchesWhatIsListened, OnlineIsOpen, Consistent, Fits
<1>4. CASE ~IsStarted(watch)
  <2>1. /\ StartWatchIfNeeded(watch, tracker, tracker) /\ watched' = {}
        /\ ~IsOpen(watch)
    BY <1>4, StreamFields DEF WatchInv, WatchesWhatIsListened
  <2>2. watch \in Streams /\ Fits(watch)
    BY DEF WatchInv
  <2>3. /\ tracker \in Trackers /\ Consistent(tracker)
        /\ tracker.state # "Online" /\ ~tracker.timer
    BY <1>4, <2>1 DEF WatchInv, OnlineIsOpen
  <2>4. WatchInv' /\ watch' \in {watch, Start(watch)}
    BY <1>1, <1>4, <2>1, <2>2, <2>3, WatchStarts
  <2> QED
    BY <1>4, <2>2, <2>4, StartMoves
<1> QED
  BY <1>2, <1>3, <1>4

LEMMA StopListeningStep ==
    ASSUME WatchInv, NEW q \in Targets, StopListening(q)
    PROVE  WatchInv' /\ Moves(watch, watch')
<1> USE DEF StopListening
<1>1. /\ listens' = listens \ {q} /\ watched' = watched \ {q} /\ enabled' = enabled
  BY DEF netVars
<1>2. CASE IsOpen(watch)
  <2> DEFINE r == Write(watch)
  <2>1. watch' \in {r, MarkIdle(r)} /\ (listens' # {} => watch' = r) /\ tracker' = tracker
    BY <1>2
  <2>2. r \in Streams /\ Fits(r) /\ ~r.idle /\ Alike(watch, r)
    BY WriteIs DEF WatchInv
  <2> HIDE DEF r
  <2>3. watch' \in Streams /\ Fits(watch)' /\ Alike(watch, watch')
        /\ (watch'.idle => listens' = {})
    BY <2>1, <2>2, MarkIdleIs DEF Fits, Alike
  <2>4. IsOpen(watch)' /\ IsStarted(watch)' /\ IsStarted(watch) /\ Moves(watch, watch')
    BY <1>2, <2>3, AlikeIs, StreamFields DEF WatchInv
  <2> QED
    BY <1>1, <1>2, <2>1, <2>3, <2>4
       DEF WatchInv, WatchesWhatIsListened, OnlineIsOpen, Consistent
<1>3. CASE ~IsOpen(watch)
  <2>1. watch' = watch /\ tracker' \in {tracker, UpdateState("Unknown")}
    BY <1>3
  <2>2. /\ UpdateState("Unknown") \in Trackers /\ Consistent(UpdateState("Unknown"))
        /\ UpdateState("Unknown").state # "Online" /\ ~UpdateState("Unknown").timer
    BY UpdateStateIs DEF OnlineStates
  <2> QED
    BY <1>1, <1>3, <2>1, <2>2, StreamFields
       DEF WatchInv, WatchesWhatIsListened, OnlineIsOpen, Consistent, Fits
<1> QED
  BY <1>2, <1>3

\* The backend answers over the open watch stream.
LEMMA WatchAnswersStep ==
    ASSUME WatchInv, IsOpen(watch), tracker' = UpdateState("Online"),
           enabled' = enabled, watch' = watch,
           NEW T \in SUBSET Targets, listens' = listens \ T, watched' = watched \ T
    PROVE  WatchInv' /\ Moves(watch, watch')
<1>1. /\ tracker' \in Trackers /\ Consistent(tracker)'
      /\ tracker'.state = "Online" /\ ~tracker'.timer
  BY UpdateStateIs DEF OnlineStates, Consistent
<1>2. Moves(watch, watch') /\ IsStarted(watch)
  BY StreamFields DEF WatchInv
<1> QED
  BY <1>1, <1>2 DEF WatchInv, WatchesWhatIsListened, OnlineIsOpen, Fits

LEMMA OnlineTimeoutStep ==
    ASSUME WatchInv, OnlineTimeout
    PROVE  WatchInv' /\ Moves(watch, watch')
<1> USE DEF OnlineTimeout, netVars
<1>1. /\ tracker' \in Trackers /\ Consistent(tracker)'
      /\ tracker'.state = "Offline" /\ ~tracker'.timer
  BY TimedOutIs DEF WatchInv, Consistent
<1> QED
  BY <1>1, StreamFields DEF WatchInv, WatchesWhatIsListened, OnlineIsOpen, Fits

LEMMA WatchBackoffStep ==
    ASSUME WatchInv, watch.backoff, watch' = BackoffElapsed(watch),
           UNCHANGED <<enabled, listens, watched, tracker>>
    PROVE  WatchInv' /\ Moves(watch, watch')
<1>1. /\ watch' \in Streams /\ Fits(watch)'
      /\ watch'.state = "Starting" /\ ~watch'.idle /\ watch'.closes = watch.closes
      /\ IsStarted(watch) /\ ~IsOpen(watch)
  BY BackoffElapsedIs DEF WatchInv, Fits
<1>2. IsStarted(watch)' /\ ~IsOpen(watch)'
  BY <1>1 DEF IsStarted, IsOpen
<1> QED
  BY <1>1, <1>2, StreamFields
     DEF WatchInv, WatchesWhatIsListened, OnlineIsOpen, Consistent, Moves

LEMMA WatchOpensStep ==
    ASSUME WatchInv, NEW u \in Users, watch.state = "Starting", WatchOpens(u),
           enabled' = enabled
    PROVE  WatchInv' /\ watch'.closes = watch.closes /\ IsOpen(watch)' /\ watch'.as = u
<1> DEFINE s == Opened(watch, u)
<1>1. /\ s \in Streams /\ Fits(s)
      /\ IsOpen(s) /\ s.as = u /\ ~s.idle /\ s.closes = watch.closes
  BY OpenedIs DEF WatchInv
<1>2. watch' \in {s, Write(s)}
  BY DEF WatchOpens
<1> HIDE DEF s
<1>3. /\ watch' \in Streams /\ Fits(watch)' /\ Alike(s, watch') /\ ~watch'.idle
  BY <1>1, <1>2, WriteIs DEF Fits, Alike
<1>4. IsOpen(watch)' /\ IsStarted(watch)' /\ watch'.closes = watch.closes /\ watch'.as = u
  BY <1>1, <1>3 DEF Alike, IsOpen, IsStarted
<1>5. IsStarted(watch) /\ ~IsOpen(watch)
  BY StreamFields DEF WatchInv
<1> QED
  BY <1>3, <1>4, <1>5
     DEF WatchInv, WatchOpens, WatchesWhatIsListened, OnlineIsOpen, Consistent

\* A change of account: the stream is stopped and started anew if it is needed.
LEMMA WatchRestartsStep ==
    ASSUME WatchInv, enabled' \in BOOLEAN, listens' = listens, watched' = {},
           StartWatchIfNeeded(Stop(watch), UpdateState("Unknown"), UpdateState("Unknown"))
    PROVE  /\ WatchInv' /\ Moves(watch, watch')
           /\ IsStarted(watch) => watch.closes < watch'.closes
<1> DEFINE s == Stop(watch)
           o == UpdateState("Unknown")
<1>1. /\ s \in Streams /\ Fits(s) /\ ~IsStarted(s)
      /\ s.closes = IF IsStarted(watch) THEN watch.closes + 1 ELSE watch.closes
  BY StopIs DEF WatchInv
<1>2. o \in Trackers /\ Consistent(o) /\ o.state # "Online" /\ ~o.timer
  BY UpdateStateIs DEF OnlineStates
<1>3. StartWatchIfNeeded(s, o, o) /\ listens' \in SUBSET Targets
  BY DEF WatchInv
<1> HIDE DEF s, o
<1>4. WatchInv' /\ watch' \in {s, Start(s)}
  BY <1>1, <1>2, <1>3, WatchStarts
<1>5. watch.closes \in Nat
  BY StreamFields DEF WatchInv
<1>6. Moves(watch, watch')
  BY <1>1, <1>4, <1>5, StartMoves DEF WatchInv
<1>7. watch'.closes = s.closes
  BY <1>1, <1>4, StartIs
<1> QED
  BY <1>1, <1>4, <1>5, <1>6, <1>7

LEMMA WatchDisabledStep ==
    ASSUME WatchInv, DisableNetwork
    PROVE  WatchInv' /\ Moves(watch, watch')
<1> USE DEF DisableNetwork
<1>1. /\ watch' \in Streams /\ Fits(watch)' /\ ~IsStarted(watch)' /\ ~IsOpen(watch)'
      /\ ~watch'.idle /\ Moves(watch, watch')
  BY StopIs DEF WatchInv, Fits
<1>2. /\ tracker' \in Trackers /\ Consistent(tracker)'
      /\ tracker'.state # "Online" /\ ~tracker'.timer
  BY UpdateStateIs DEF OnlineStates, Consistent
<1> QED
  BY <1>1, <1>2 DEF WatchInv, WatchesWhatIsListened, OnlineIsOpen

LEMMA WatchEnabledStep ==
    ASSUME WatchInv, EnableNetwork
    PROVE  WatchInv' /\ Moves(watch, watch')
<1> DEFINE o == UpdateState("Unknown")
<1>1. ~IsStarted(watch) /\ ~IsOpen(watch) /\ watch \in Streams /\ Fits(watch)
  BY StreamFields DEF WatchInv, EnableNetwork
<1>2. o \in Trackers /\ Consistent(o) /\ o.state # "Online" /\ ~o.timer
  BY UpdateStateIs DEF OnlineStates
<1>3. StartWatchIfNeeded(watch, tracker, o)
  BY DEF EnableNetwork
<1>4. enabled' \in BOOLEAN /\ listens' \in SUBSET Targets /\ watched' = {}
  BY <1>1 DEF WatchInv, EnableNetwork, WatchesWhatIsListened
<1>5. tracker \in Trackers /\ Consistent(tracker) /\ tracker.state # "Online"
  BY <1>1 DEF WatchInv, OnlineIsOpen
<1> HIDE DEF o
<1>6. WatchInv' /\ watch' \in {watch, Start(watch)}
  BY <1>1, <1>2, <1>3, <1>4, <1>5, WatchStarts
<1> QED
  BY <1>1, <1>6, StartMoves

LEMMA WatchNewStep ==
    ASSUME NEW u \in Users, enabled' = TRUE, watch' = NewStream(u), listens' = {},
           watched' = {}, tracker' = NewTracker
    PROVE  WatchInv'
<1>1. /\ watch' \in Streams /\ Fits(watch)' /\ ~IsStarted(watch)' /\ ~watch'.idle
  BY NewStreamIs DEF Fits
<1>2. ~IsOpen(watch)'
  BY <1>1 DEF IsOpen, IsStarted
<1> QED
  BY <1>1, <1>2, NewTrackerIs
     DEF WatchInv, WatchesWhatIsListened, OnlineIsOpen, Consistent

LEMMA WatchInit == Init => WatchInv
<1> SUFFICES ASSUME Init PROVE WatchInv
  OBVIOUS
<1> USE DEF Init
<1>1. /\ watch \in Streams /\ Fits(watch) /\ ~IsStarted(watch) /\ ~watch.idle
  BY NewStreamIs
<1>2. ~IsOpen(watch)
  BY <1>1 DEF IsOpen, IsStarted
<1> QED
  BY <1>1, <1>2, NewTrackerIs DEF WatchInv, WatchesWhatIsListened, OnlineIsOpen

\* What processing a token relies on: a fresh one finds its stream waiting.
HeadIsToken ==
    inbox # << >> /\ Head(inbox).kind = "token" =>
        /\ Head(inbox) \in Tokens
        /\ FreshToken(Head(inbox)) => StreamOf(Head(inbox).stream).state = "Starting"

LEMMA WatchStep ==
    ASSUME WatchInv, HeadIsToken, authUser \in Users, [Next]_vars
    PROVE  WatchInv' /\ (Moves(watch, watch') \/ ProcessToken \/ Restart)
<1> USE DEF netVars, watchVars
<1>1. ASSUME UNCHANGED vars PROVE WatchInv' /\ Moves(watch, watch')
  BY <1>1, WatchKept DEF vars, watchParts
<1>2. ASSUME NEW u \in Users, SignIn(u) PROVE WatchInv' /\ Moves(watch, watch')
  BY <1>2, WatchKept DEF SignIn, watchParts
<1>3. ASSUME NEW r \in requests, NEW result \in Results, AuthAnswers(r, result)
      PROVE  WatchInv' /\ Moves(watch, watch')
  BY <1>3, WatchKept DEF AuthAnswers, watchParts
<1>4. ASSUME NEW q \in Targets, Listen(q) PROVE WatchInv' /\ Moves(watch, watch')
  BY <1>4, ListenStep
<1>5. ASSUME NEW q \in Targets, StopListening(q) PROVE WatchInv' /\ Moves(watch, watch')
  BY <1>5, StopListeningStep
<1>6. ASSUME NEW q \in Targets, TargetRejected(q) PROVE WatchInv' /\ Moves(watch, watch')
  BY <1>6, WatchAnswersStep, {q} \in SUBSET Targets DEF TargetRejected
<1>7. CASE WatchAnswers
  <2>1. {} \in SUBSET Targets /\ listens' = listens \ {} /\ watched' = watched \ {}
    BY <1>7 DEF WatchAnswers
  <2> QED
    BY <1>7, <2>1, WatchAnswersStep DEF WatchAnswers
<1>8. CASE WatchIdle \/ WatchFails
  <2>1. PICK graceful \in BOOLEAN : WatchCloses(graceful)
    BY <1>8 DEF WatchIdle, WatchFails
  <2> QED
    BY <1>8, <2>1, WatchClosesStep DEF WatchIdle, WatchFails
<1>9. CASE OnlineTimeout
  BY <1>9, OnlineTimeoutStep
<1>10. CASE \/ WriteMutations \/ HandshakeComplete \/ BackendApplies \/ MutationResult
            \/ WriteIdle \/ WriteFails \/ WriteRefused
  BY <1>10, WatchKept
     DEF WriteMutations, HandshakeComplete, BackendApplies, MutationResult, WriteIdle,
         WriteFails, WriteRefused, watchParts
<1>11. ASSUME NEW name \in Names, BackoffEnds(name) PROVE WatchInv' /\ Moves(watch, watch')
  <2>1. CASE name = "watch"
    BY <1>11, <2>1, WatchBackoffStep DEF BackoffEnds, StreamOf
  <2>2. CASE name # "watch"
    BY <1>11, <2>2, WatchKept DEF BackoffEnds, watchParts
  <2> QED
    BY <2>1, <2>2
<1>12. CASE ProcessToken
  <2> DEFINE m == Head(inbox)
  <2>1. m \in Tokens /\ enabled' = enabled
    BY <1>12 DEF ProcessToken, HeadIsToken
  <2>2. CASE UNCHANGED watchVars
    BY <2>1, <2>2, WatchKept DEF watchParts
  <2>3. CASE FreshToken(m) /\ m.stream = "watch" /\ WatchOpens(m.user)
    <3>1. watch.state = "Starting" /\ m.user \in Users
      BY <1>12, <2>1, <2>3 DEF HeadIsToken, StreamOf, Tokens, ProcessToken
    <3> QED
      BY <1>12, <2>1, <2>3, <3>1, WatchOpensStep
  <2>4. CASE listens' = listens /\ WatchCloses(FALSE)
    BY <2>1, <2>4, WatchClosesStep
  <2>5. \/ UNCHANGED watchVars
        \/ FreshToken(m) /\ m.stream = "watch" /\ WatchOpens(m.user)
        \/ listens' = listens /\ WatchCloses(FALSE)
    BY <1>12 DEF ProcessToken
  <2> QED
    BY <2>2, <2>3, <2>4, <2>5
<1>13. CASE ProcessSignIn
  <2>1. CASE enabled
    BY <1>13, <2>1, WatchRestartsStep DEF ProcessSignIn
  <2>2. CASE ~enabled
    BY <1>13, <2>2, WatchKept DEF ProcessSignIn, watchParts
  <2> QED
    BY <2>1, <2>2
<1>14. CASE DisableNetwork
  BY <1>14, WatchDisabledStep
<1>15. CASE EnableNetwork
  BY <1>15, WatchEnabledStep
<1>16. CASE Restart
  BY <1>16, WatchNewStep DEF Restart
<1> QED
  BY <1>1, <1>2, <1>3, <1>4, <1>5, <1>6, <1>7, <1>8, <1>9, <1>10, <1>11, <1>12,
     <1>13, <1>14, <1>15, <1>16 DEF Next

-----------------------------------------------------------------------------
(* Stretches of an account's batches *)

Segment(u, k, n) == [i \in 1 .. n |-> [user |-> u, n |-> k + i]]

\* A segment is a sequence of batches of the length asked for.
LEMMA SegmentIs ==
    ASSUME NEW u \in Users, NEW k \in Nat, NEW n \in Nat
    PROVE  /\ Segment(u, k, n) \in Seq(Batch)
           /\ Len(Segment(u, k, n)) = n
           /\ \A i \in 1 .. n : Segment(u, k, n)[i] = [user |-> u, n |-> k + i]
           /\ Segment(u, k, n) = << >> <=> n = 0
<1>1. \A i \in 1 .. n : [user |-> u, n |-> k + i] \in Batch
  BY DEF Batch
<1>2. Segment(u, k, n) \in [1 .. n -> Batch]
  BY <1>1 DEF Segment
<1>3. Segment(u, k, n) \in Seq(Batch)
  BY <1>2
<1> QED
  BY <1>2, <1>3 DEF Segment

\* The front of a segment is its first batch, and the rest is a segment again.
LEMMA SegmentFront ==
    ASSUME NEW u \in Users, NEW k \in Nat, NEW n \in Nat \ {0}
    PROVE  /\ Head(Segment(u, k, n)) = [user |-> u, n |-> k + 1]
           /\ Tail(Segment(u, k, n)) = Segment(u, k + 1, n - 1)
<1> DEFINE s == Segment(u, k, n)
           t == Segment(u, k + 1, n - 1)
<1>1. /\ s \in Seq(Batch) /\ Len(s) = n /\ s # << >>
      /\ \A i \in 1 .. n : s[i] = [user |-> u, n |-> k + i]
  BY SegmentIs
<1>2. n - 1 \in Nat /\ k + 1 \in Nat
  OBVIOUS
<1>3. /\ t \in Seq(Batch) /\ Len(t) = n - 1
      /\ \A i \in 1 .. n - 1 : t[i] = [user |-> u, n |-> k + 1 + i]
  BY <1>2, SegmentIs
<1> HIDE DEF s, t
<1>4. /\ Tail(s) \in Seq(Batch) /\ Len(Tail(s)) = n - 1
      /\ \A i \in 1 .. n - 1 : Tail(s)[i] = s[i + 1]
  BY <1>1, HeadTailProperties
<1>5. \A i \in 1 .. n - 1 : Tail(s)[i] = t[i]
  BY <1>1, <1>3, <1>4
<1>6. Tail(s) = t
  BY <1>3, <1>4, <1>5, SeqEqual
<1>7. Head(s) = [user |-> u, n |-> k + 1]
  BY <1>1
<1> QED
  BY <1>6, <1>7 DEF s, t

\* Two segments that follow one another make one.
LEMMA SegmentConcat ==
    ASSUME NEW u \in Users, NEW k \in Nat, NEW n \in Nat, NEW m \in Nat
    PROVE  Segment(u, k, n) \o Segment(u, k + n, m) = Segment(u, k, n + m)
<1> DEFINE s == Segment(u, k, n)
           t == Segment(u, k + n, m)
           r == Segment(u, k, n + m)
<1>1. /\ s \in Seq(Batch) /\ Len(s) = n
      /\ \A i \in 1 .. n : s[i] = [user |-> u, n |-> k + i]
  BY SegmentIs
<1>2. k + n \in Nat /\ n + m \in Nat
  OBVIOUS
<1>3. /\ t \in Seq(Batch) /\ Len(t) = m
      /\ \A i \in 1 .. m : t[i] = [user |-> u, n |-> k + n + i]
  BY <1>2, SegmentIs
<1>4. /\ r \in Seq(Batch) /\ Len(r) = n + m
      /\ \A i \in 1 .. n + m : r[i] = [user |-> u, n |-> k + i]
  BY <1>2, SegmentIs
<1> HIDE DEF s, t, r
<1>5. /\ s \o t \in Seq(Batch) /\ Len(s \o t) = n + m
      /\ \A i \in 1 .. n + m : (s \o t)[i] = IF i <= n THEN s[i] ELSE t[i - n]
  BY <1>1, <1>3, ConcatProperties
<1>6. \A i \in 1 .. n + m : (s \o t)[i] = r[i]
  <2>1. SUFFICES ASSUME NEW i \in 1 .. n + m PROVE (s \o t)[i] = r[i]
    OBVIOUS
  <2>2. CASE i <= n
    BY <1>1, <1>4, <1>5, <2>2
  <2>3. CASE ~(i <= n)
    <3>1. i - n \in 1 .. m /\ k + n + (i - n) = k + i
      BY <2>3
    <3> QED
      BY <1>3, <1>4, <1>5, <2>3, <3>1
  <2> QED
    BY <2>2, <2>3
<1>7. s \o t = r
  BY <1>4, <1>5, <1>6, SeqEqual
<1> QED
  BY <1>7 DEF s, t, r

\* What is to be sent is what is not settled, up to the size of the pipeline.
LEMMA RoomIs ==
    ASSUME NEW u \in Users, written[u] \in Nat, settled[u] \in Nat,
           settled[u] <= written[u]
    PROVE  /\ Room(u) \in Nat
           /\ Room(u) <= MaxPendingWrites
           /\ Room(u) <= written[u] - settled[u]
           /\ Room(u) = 0 <=> settled[u] = written[u]
  BY BoundsAssumption DEF Room

\* The batches that follow fill the pipeline up.
LEMMA BatchesAfterIs ==
    ASSUME NEW u \in Users, written'[u] \in Nat, settled'[u] \in Nat,
           settled'[u] <= written'[u],
           NEW n \in Nat, n <= Room(u)'
    PROVE  /\ Room(u)' \in Nat
           /\ BatchesAfter(Segment(u, settled'[u], n), u)
                 = Segment(u, settled'[u] + n, Room(u)' - n)
<1> DEFINE p == Segment(u, settled'[u], n)
           last == IF p = << >> THEN settled'[u] ELSE p[Len(p)].n
<1>1. Room(u)' \in Nat
  BY BoundsAssumption DEF Room
<1>2. /\ Len(p) = n /\ (p = << >> <=> n = 0)
      /\ \A i \in 1 .. n : p[i] = [user |-> u, n |-> settled'[u] + i]
  BY SegmentIs
<1> HIDE DEF p
<1>3. last = settled'[u] + n
  BY <1>2
<1> HIDE DEF last
<1>4. (IF written'[u] - last < MaxPendingWrites - Len(p)
       THEN written'[u] - last ELSE MaxPendingWrites - Len(p)) = Room(u)' - n
  BY <1>2, <1>3, BoundsAssumption DEF Room
<1>5. BatchesAfter(p, u) = [i \in 1 .. Room(u)' - n |-> [user |-> u, n |-> last + i]]
  BY <1>4 DEF BatchesAfter, last
<1> QED
  BY <1>1, <1>3, <1>5 DEF Segment, p

-----------------------------------------------------------------------------
(* The write stream, its pipeline and the queues *)

\* How much of the queue of the account in use belongs into the pipeline.
Due == IF enabled THEN Room(storeUser) ELSE 0

QueueTypes ==
    /\ written \in [Users -> Nat] /\ settled \in [Users -> Nat] /\ decided \in [Users -> Nat]
    /\ storeUser \in Users /\ enabled \in BOOLEAN

\* What the backend has applied over the stream in use and the client has not read
\* the result of is what is answered, and there is none for an account not in use.
DecidedInOrder ==
    /\ \A u \in Users : settled[u] <= written[u]
    /\ \A u \in Users \ {storeUser} : decided[u] = settled[u]
    /\ decided[storeUser] = settled[storeUser] + Len(answers)

\* The write stream is only started for a batch, and it cannot run out of batches
\* before its handshake.
HandshakeFirst == IsStarted(write) /\ ~handshake => pipeline # << >>

\* The stream fits its pipeline.
WriteStreamInv ==
    /\ write \in Streams /\ Fits(write) /\ handshake \in BOOLEAN
    /\ write.idle => pipeline = << >>
    /\ IF enabled THEN pipeline # << >> => IsStarted(write) ELSE ~IsStarted(write)
    /\ HandshakeFirst

\* The pipeline fits the queue and what is on its way.
PipelineInv ==
    /\ pipeline = Segment(storeUser, settled[storeUser], Due)
    /\ wire \in Seq(Batch) /\ answers \in Seq(Batch)
    /\ answers \o wire = IF handshake THEN pipeline ELSE << >>
    /\ handshake => IsOpen(write)

WriteInv == QueueTypes /\ DecidedInOrder /\ WriteStreamInv /\ PipelineInv

writeParts == <<enabled, storeUser, write, handshake, pipeline, wire, answers,
                written, settled, decided>>

\* The following lemmas go through the steps of the write stream: each keeps WriteInv, is
\* a step of the abstract queue, and only Moves the stream, with the same exceptions.
LEMMA WriteKept ==
    ASSUME WriteInv, UNCHANGED writeParts
    PROVE  WriteInv' /\ Moves(write, write')
<1> USE DEF writeParts
<1>1. Moves(write, write')
  BY StreamFields DEF WriteInv, WriteStreamInv
<1>2. QueueTypes' /\ DecidedInOrder'
  BY DEF WriteInv, QueueTypes, DecidedInOrder
<1>3. WriteStreamInv'
  BY DEF WriteInv, WriteStreamInv, HandshakeFirst, Fits
<1>4. PipelineInv'
  BY DEF WriteInv, PipelineInv, Due, Room
<1> QED
  BY <1>1, <1>2, <1>3, <1>4 DEF WriteInv

\* Facts about sequences of batches, to take answers and wire apart and together.
LEMMA EmptyConcat ==
    ASSUME NEW s \in Seq(Batch), NEW t \in Seq(Batch)
    PROVE  s \o t = << >> <=> s = << >> /\ t = << >>
  BY ConcatEqualIffEmpty

LEMMA ConcatThree ==
    ASSUME NEW a \in Seq(Batch), NEW b \in Seq(Batch), NEW c \in Seq(Batch)
    PROVE  (a \o b) \o c = a \o (b \o c)
  BY ConcatAssociative

LEMMA ConcatTail ==
    ASSUME NEW a \in Seq(Batch), NEW b \in Seq(Batch), a # << >>
    PROVE  Tail(a \o b) = Tail(a) \o b
<1> DEFINE c == a \o b
           t == Tail(a) \o b
<1>1. Len(a) \in Nat \ {0} /\ Len(b) \in Nat
  BY EmptySeq, LenProperties
<1>2. /\ Tail(a) \in Seq(Batch) /\ Len(Tail(a)) = Len(a) - 1
      /\ \A i \in 1 .. Len(Tail(a)) : Tail(a)[i] = a[i + 1]
  BY HeadTailProperties
<1>3. /\ c \in Seq(Batch) /\ Len(c) = Len(a) + Len(b)
      /\ \A i \in 1 .. Len(a) + Len(b) : c[i] = IF i <= Len(a) THEN a[i] ELSE b[i - Len(a)]
  BY ConcatProperties
<1>4. /\ t \in Seq(Batch) /\ Len(t) = Len(Tail(a)) + Len(b)
      /\ \A i \in 1 .. Len(Tail(a)) + Len(b) :
            t[i] = IF i <= Len(Tail(a)) THEN Tail(a)[i] ELSE b[i - Len(Tail(a))]
  BY <1>2, ConcatProperties
<1> HIDE DEF c, t
<1>5. c # << >>
  BY <1>1, <1>3
<1>6. /\ Tail(c) \in Seq(Batch) /\ Len(Tail(c)) = Len(c) - 1
      /\ \A i \in 1 .. Len(Tail(c)) : Tail(c)[i] = c[i + 1]
  BY <1>3, <1>5, HeadTailProperties
<1>7. Len(Tail(c)) = Len(t)
  BY <1>1, <1>2, <1>3, <1>4, <1>6
<1>8. ASSUME NEW i \in 1 .. Len(t) PROVE Tail(c)[i] = t[i]
  <2>1. i \in 1 .. Len(Tail(c)) /\ i + 1 \in 1 .. Len(a) + Len(b)
    BY <1>1, <1>2, <1>4, <1>7
  <2>2. Tail(c)[i] = IF i + 1 <= Len(a) THEN a[i + 1] ELSE b[i + 1 - Len(a)]
    BY <1>3, <1>6, <2>1
  <2>3. t[i] = IF i <= Len(a) - 1 THEN Tail(a)[i] ELSE b[i - (Len(a) - 1)]
    BY <1>2, <1>4
  <2>4. CASE i <= Len(a) - 1
    <3>1. Tail(a)[i] = a[i + 1] /\ i + 1 <= Len(a)
      BY <1>1, <1>2, <2>4
    <3> QED
      BY <2>2, <2>3, <2>4, <3>1
  <2>5. CASE ~(i <= Len(a) - 1)
    <3>1. ~(i + 1 <= Len(a)) /\ i + 1 - Len(a) = i - (Len(a) - 1)
      BY <1>1, <2>5
    <3> QED
      BY <2>2, <2>3, <2>5, <3>1
  <2> QED
    BY <2>4, <2>5
<1>9. Tail(c) = t
  BY <1>4, <1>6, <1>7, <1>8, SeqEqual
<1> QED
  BY <1>9 DEF c, t

LEMMA ConsHeadTail ==
    ASSUME NEW b \in Seq(Batch), b # << >>
    PROVE  <<Head(b)>> \in Seq(Batch) /\ <<Head(b)>> \o Tail(b) = b
<1> DEFINE h == <<Head(b)>>
           c == h \o Tail(b)
<1>1. /\ Tail(b) \in Seq(Batch) /\ Len(Tail(b)) = Len(b) - 1
      /\ \A i \in 1 .. Len(Tail(b)) : Tail(b)[i] = b[i + 1]
      /\ h \in Seq(Batch)
  BY HeadTailProperties
<1>2. Len(h) = 1 /\ h[1] = b[1]
  OBVIOUS
<1>3. Len(b) \in Nat \ {0}
  BY EmptySeq
<1> HIDE DEF h
<1>4. /\ c \in Seq(Batch) /\ Len(c) = Len(h) + Len(Tail(b))
      /\ \A i \in 1 .. Len(h) + Len(Tail(b)) :
            c[i] = IF i <= Len(h) THEN h[i] ELSE Tail(b)[i - Len(h)]
  BY <1>1, ConcatProperties
<1> HIDE DEF c
<1>5. Len(c) = Len(b)
  BY <1>1, <1>2, <1>3, <1>4
<1>6. ASSUME NEW i \in 1 .. Len(c) PROVE c[i] = b[i]
  <2>1. CASE i = 1
    BY <1>1, <1>2, <1>3, <1>4, <2>1
  <2>2. CASE i # 1
    <3>1. i - 1 \in 1 .. Len(Tail(b)) /\ i - 1 + 1 = i /\ ~(i <= 1)
      BY <1>1, <1>3, <1>5, <2>2
    <3> QED
      BY <1>1, <1>2, <1>4, <1>5, <3>1
  <2> QED
    BY <2>1, <2>2
<1>7. c = b
  BY <1>4, <1>5, <1>6, SeqEqual
<1> QED
  BY <1>1, <1>7 DEF h, c

\* A batch that goes from the wire to the answers stays where it was.
LEMMA ConcatAppend ==
    ASSUME NEW a \in Seq(Batch), NEW b \in Seq(Batch), b # << >>
    PROVE  Append(a, Head(b)) \o Tail(b) = a \o b
<1> DEFINE h == Head(b)
           r == Tail(b)
           e == Append(a, h)
<1>1. h \in Batch /\ r \in Seq(Batch) /\ <<h>> \in Seq(Batch)
  BY HeadTailProperties
<1>2. e = a \o <<h>>
  BY <1>1, AppendIsConcat
<1>3. <<h>> \o r = b
  BY ConsHeadTail
<1> HIDE DEF h, r
<1>4. (a \o <<h>>) \o r = a \o (<<h>> \o r)
  BY <1>1, ConcatThree
<1> QED
  BY <1>2, <1>3, <1>4 DEF h, r

\* A stretch of d batches in two pieces.
InPieces(u, k, n, m, d) ==
    /\ Segment(u, k, n) \in Seq(Batch)
    /\ Segment(u, k, n) = << >> <=> n = 0
    /\ Segment(u, k + n, m) \in Seq(Batch)
    /\ Segment(u, k + n, m) = << >> <=> m = 0
    /\ Segment(u, k, n) \o Segment(u, k + n, m) = Segment(u, k, d)
    /\ Segment(u, k, d) = << >> <=> d = 0

\* The pieces of a segment are segments.
LEMMA Pieces ==
    ASSUME NEW u \in Users, NEW k \in Nat, NEW n \in Nat, NEW m \in Nat, NEW d \in Nat,
           n + m = d
    PROVE  InPieces(u, k, n, m, d)
<1>1. k + n \in Nat
  OBVIOUS
<1>2. /\ Segment(u, k + n, m) \in Seq(Batch)
      /\ Segment(u, k + n, m) = << >> <=> m = 0
  BY <1>1, SegmentIs
<1>3. /\ Segment(u, k, n) \in Seq(Batch)
      /\ Segment(u, k, n) = << >> <=> n = 0
  BY SegmentIs
<1>4. Segment(u, k, n) \o Segment(u, k + n, m) = Segment(u, k, d)
  BY SegmentConcat
<1>5. Segment(u, k, d) = << >> <=> d = 0
  BY SegmentIs
<1> QED
  BY <1>2, <1>3, <1>4, <1>5 DEF InPieces

\* The pipeline is filled from its first n batches on, on a stream s that fits it.
LEMMA Fill ==
    ASSUME QueueTypes', settled'[storeUser'] <= written'[storeUser'],
           NEW s \in Streams, Fits(s), NEW h \in BOOLEAN, h => IsOpen(s),
           NEW n \in Nat, IF enabled' THEN n <= Room(storeUser)' ELSE n = 0,
           NEW w \in Seq(Batch), answers' \in Seq(Batch),
           answers' \o w = (IF h THEN Segment(storeUser', settled'[storeUser'], n) ELSE << >>),
           s.idle => n = 0,
           IsStarted(s) /\ ~h => n # 0,
           ~enabled' => ~IsStarted(s),
           FillWritePipeline(s, h, Segment(storeUser', settled'[storeUser'], n), w, storeUser')
    PROVE  /\ WriteStreamInv' /\ PipelineInv'
           /\ IF IsStarted(s) THEN Alike(s, write') ELSE write' \in {s, Start(s)}
<1> DEFINE u == storeUser'
           k == settled'[u]
           p == Segment(u, k, n)
           new == IF enabled' THEN BatchesAfter(p, u) ELSE << >>
           m == Due' - n
           sends == IsOpen(s) /\ h /\ new # << >>
           s1 == IF sends THEN Write(s)
                 ELSE IF enabled' /\ p \o new = << >> THEN MarkIdle(s) ELSE s
<1>1. u \in Users /\ k \in Nat /\ written'[u] \in Nat /\ enabled' \in BOOLEAN
  BY DEF QueueTypes
<1>2. m \in Nat /\ k + n \in Nat /\ n + m = Due' /\ Due' \in Nat
  <2>1. CASE enabled'
    BY <1>1, <2>1, BatchesAfterIs DEF Due
  <2>2. CASE ~enabled'
    BY <1>1, <2>2 DEF Due
  <2> QED
    BY <2>1, <2>2
<1>3. new = Segment(u, k + n, m)
  <2>1. CASE enabled'
    BY <1>1, <2>1, BatchesAfterIs DEF Due
  <2>2. CASE ~enabled'
    <3>1. m = 0
      BY <2>2 DEF Due
    <3>2. Segment(u, k + n, m) = << >>
      BY <1>1, <1>2, <3>1, SegmentIs
    <3> QED
      BY <2>2, <3>2
  <2> QED
    BY <2>1, <2>2
<1> HIDE DEF new, m, k, u
<1>4. /\ new \in Seq(Batch) /\ (new = << >> <=> m = 0)
      /\ p \in Seq(Batch) /\ (p = << >> <=> n = 0)
      /\ p \o new = Segment(u, k, Due')
      /\ p \o new = << >> <=> Due' = 0
  <2>1. p = Segment(u, k, n)
    BY DEF p, k, u
  <2> DEFINE d == Due'
  <2>2. d \in Nat /\ n + m = d
    BY <1>2
  <2> HIDE DEF p, d
  <2>3. InPieces(u, k, n, m, d)
    <3>1. u \in Users /\ k \in Nat
      BY <1>1
    <3>2. m \in Nat
      BY <1>2
    <3> QED
      BY <2>2, <3>1, <3>2, Pieces
  <2> QED
    BY <1>3, <2>1, <2>3, Zenon DEF InPieces, d
<1>5. /\ pipeline' = p \o new /\ handshake' = h
      /\ wire' = IF sends THEN w \o new ELSE w
      /\ write' = IF enabled' /\ ~IsStarted(s1) /\ p \o new # << >> THEN Start(s1) ELSE s1
  BY DEF FillWritePipeline, p, new, k, u
<1> HIDE DEF p
<1>6. /\ s1 \in Streams /\ Fits(s1) /\ Alike(s, s1)
      /\ s1.idle => p \o new = << >>
      /\ ~IsStarted(s) => s1 = s
  <2>1. CASE sends
    <3>1. IsStarted(s)
      BY <2>1, StreamFields
    <3> QED
      BY <2>1, <3>1, WriteIs
  <2>2. CASE ~sends /\ enabled' /\ p \o new = << >>
    <3>1. ~IsStarted(s) => MarkIdle(s) = s
      BY StreamFields DEF MarkIdle
    <3> QED
      BY <2>2, <3>1, MarkIdleIs
  <2>3. CASE ~sends /\ ~(enabled' /\ p \o new = << >>)
    <3>1. s1 = s /\ Alike(s, s)
      BY <2>3 DEF Alike
    <3>2. s.idle => enabled' /\ new = << >> /\ p = << >>
      <4>1. SUFFICES ASSUME s.idle PROVE enabled' /\ new = << >> /\ p = << >>
        OBVIOUS
      <4>2. IsOpen(s) /\ IsStarted(s) /\ h /\ n = 0
        BY <4>1, StreamFields DEF Fits
      <4> QED
        BY <1>4, <2>3, <4>2
    <3>3. s.idle => p \o new = << >>
      BY <1>4, <3>2, EmptyConcat
    <3> QED
      BY <3>1, <3>3
  <2> QED
    BY <2>1, <2>2, <2>3
<1>7. IsOpen(s) <=> IsOpen(s1)
  BY <1>6, AlikeIs
<1>8. IsStarted(s) <=> IsStarted(s1)
  BY <1>6, AlikeIs
<1> HIDE DEF s1
<1>9. /\ write' \in Streams /\ Fits(write)' /\ (write'.idle => pipeline' = << >>)
      /\ IF IsStarted(s) THEN Alike(s, write') /\ IsStarted(write)' ELSE write' \in {s, Start(s)}
      /\ IF enabled' THEN pipeline' # << >> => IsStarted(write)' ELSE ~IsStarted(write)'
  <2>1. CASE enabled' /\ ~IsStarted(s1) /\ p \o new # << >>
    BY <1>5, <1>6, <1>8, <2>1, StartIs DEF Fits
  <2>2. CASE ~(enabled' /\ ~IsStarted(s1) /\ p \o new # << >>)
    BY <1>5, <1>6, <1>8, <2>2 DEF Fits
  <2> QED
    BY <2>1, <2>2
<1>10. handshake' => IsOpen(write)'
  <2>1. SUFFICES ASSUME h PROVE IsOpen(write)'
    BY <1>5
  <2>2. IsStarted(s) /\ IsOpen(s)
    BY <2>1, StreamFields
  <2>3. Alike(s, write')
    BY <1>9, <2>2
  <2> QED
    BY <2>2, <2>3 DEF Alike, IsOpen
<1>11. HandshakeFirst'
  <2>1. SUFFICES ASSUME IsStarted(write)', ~h PROVE pipeline' # << >>
    BY <1>5 DEF HandshakeFirst
  <2>2. CASE IsStarted(s)
    BY <1>2, <1>4, <1>5, <2>1, <2>2
  <2>3. CASE ~IsStarted(s)
    BY <1>5, <1>6, <1>8, <2>1, <2>3
  <2> QED
    BY <2>2, <2>3
<1>12. WriteStreamInv'
  BY <1>5, <1>9, <1>11 DEF WriteStreamInv
<1>13. wire' \in Seq(Batch) /\ answers' \o wire' = IF handshake' THEN pipeline' ELSE << >>
  <2>1. CASE sends
    <3>1. wire' = w \o new /\ wire' \in Seq(Batch)
      BY <1>4, <1>5, <2>1, ConcatProperties
    <3>2. answers' \o wire' = (answers' \o w) \o new
      <4>1. answers' \o (w \o new) = (answers' \o w) \o new
        BY <1>4, ConcatThree
      <4> QED
        BY <3>1, <4>1
    <3> QED
      BY <1>5, <2>1, <3>1, <3>2 DEF p, k, u
  <2>2. CASE ~sends
    <3>1. wire' = w
      BY <1>5, <2>2
    <3>2. h => p \o new = p
      BY <1>4, <2>2, ConcatEmptySeq
    <3> QED
      BY <1>5, <3>1, <3>2 DEF p, k, u
  <2> QED
    BY <2>1, <2>2
<1>14. PipelineInv'
  BY <1>4, <1>5, <1>10, <1>13 DEF PipelineInv, k, u
<1> QED
  BY <1>9, <1>12, <1>14

-----------------------------------------------------------------------------
(* The steps of the write stream *)

QueueStep == [Queue!Next]_<<written, decided, settled>>

\* What WriteInv says of the account in use, in the form in which the steps need it.
LEMMA WriteFacts ==
    ASSUME WriteInv
    PROVE  /\ storeUser \in Users
           /\ written[storeUser] \in Nat /\ settled[storeUser] \in Nat
           /\ decided[storeUser] \in Nat
           /\ settled[storeUser] <= written[storeUser]
           /\ Due \in Nat /\ Due <= Room(storeUser) /\ settled[storeUser] + Due <= written[storeUser]
           /\ pipeline \in Seq(Batch) /\ Len(pipeline) = Due /\ (pipeline = << >> <=> Due = 0)
           /\ \A i \in 1 .. Due : pipeline[i] = [user |-> storeUser, n |-> settled[storeUser] + i]
           /\ ~handshake => answers = << >> /\ wire = << >>
           /\ write.idle => Due = 0
           /\ IsStarted(write) /\ ~handshake => Due # 0
           /\ write.closes \in Nat
<1>1. /\ storeUser \in Users /\ enabled \in BOOLEAN
      /\ written[storeUser] \in Nat /\ settled[storeUser] \in Nat /\ decided[storeUser] \in Nat
      /\ settled[storeUser] <= written[storeUser]
  BY DEF WriteInv, QueueTypes, DecidedInOrder
<1>2. settled[storeUser] <= written[storeUser]
  BY <1>1
<1>3. /\ Room(storeUser) \in Nat
      /\ Room(storeUser) <= written[storeUser] - settled[storeUser]
  BY <1>1, <1>2, RoomIs
<1>4. /\ Due \in Nat /\ Due <= Room(storeUser)
      /\ settled[storeUser] + Due <= written[storeUser]
  BY <1>1, <1>2, <1>3 DEF Due
<1> DEFINE k == settled[storeUser]
           d == Due
<1>5. pipeline = Segment(storeUser, k, d)
  BY DEF WriteInv, PipelineInv
<1>6. k \in Nat /\ d \in Nat
  BY <1>1, <1>4
<1> HIDE DEF d, k
<1>7. /\ pipeline \in Seq(Batch) /\ Len(pipeline) = d /\ (pipeline = << >> <=> d = 0)
      /\ \A i \in 1 .. d : pipeline[i] = [user |-> storeUser, n |-> k + i]
  BY <1>1, <1>5, <1>6, SegmentIs
<1>8. ~handshake => answers = << >> /\ wire = << >>
  BY EmptyConcat DEF WriteInv, PipelineInv
<1>9. /\ write.idle => pipeline = << >>
      /\ IsStarted(write) /\ ~handshake => pipeline # << >>
      /\ write.closes \in Nat
  BY StreamFields DEF WriteInv, WriteStreamInv, HandshakeFirst
<1> QED
  BY <1>1, <1>2, <1>4, <1>7, <1>8, <1>9 DEF d, k

\* A step that leaves the queues alone.
LEMMA QueueKept ==
    ASSUME WriteInv, UNCHANGED <<written, settled, decided, answers>>,
           storeUser' \in Users, enabled' \in BOOLEAN,
           answers = << >> \/ storeUser' = storeUser
    PROVE  QueueTypes' /\ DecidedInOrder' /\ QueueStep
<1>1. QueueTypes' /\ QueueStep
  BY DEF WriteInv, QueueTypes, QueueStep
<1>2. \A u \in Users : settled'[u] <= written'[u]
  BY DEF WriteInv, DecidedInOrder
<1>3. /\ \A u \in Users \ {storeUser'} : decided'[u] = settled'[u]
      /\ decided'[storeUser'] = settled'[storeUser'] + Len(answers')
  <2>1. CASE answers = << >>
    <3>1. \A u \in Users : decided[u] = settled[u] /\ settled[u] \in Nat
      BY <2>1 DEF WriteInv, DecidedInOrder, QueueTypes
    <3> QED
      BY <2>1, <3>1
  <2>2. CASE storeUser' = storeUser
    BY <2>2 DEF WriteInv, DecidedInOrder
  <2> QED
    BY <2>1, <2>2
<1> QED
  BY <1>1, <1>2, <1>3 DEF DecidedInOrder

\* What filling the pipeline does to a stream that was kept or stopped before.
LEMMA FillMoves ==
    ASSUME write \in Streams, NEW s \in Streams, Fits(s),
           IF IsStarted(s) THEN Alike(s, write') ELSE write' \in {s, Start(s)},
           \/ s = write
           \/ ~IsStarted(s) /\ write.closes < s.closes
           \/ ~IsStarted(s) /\ ~IsStarted(write) /\ write.closes = s.closes
    PROVE  Moves(write, write')
<1>1. s.closes \in Nat
  BY StreamFields
<1>2. CASE IsStarted(s)
  BY <1>1, <1>2, AlikeIs
<1>3. CASE ~IsStarted(s)
  <2>1. Moves(write, Start(s)) /\ Moves(write, s)
    BY <1>3, StartMoves
  <2> QED
    BY <1>3, <2>1
<1> QED
  BY <1>2, <1>3

LEMMA WriteMutationsStep ==
    ASSUME WriteInv, WriteMutations
    PROVE  WriteInv' /\ QueueStep /\ Moves(write, write')
<1> USE DEF WriteMutations
<1> DEFINE u == storeUser
           n == Due
<1>1. /\ u \in Users /\ written[u] \in Nat /\ settled[u] \in Nat /\ settled[u] <= written[u]
      /\ n \in Nat /\ n <= Room(u)
      /\ (write.idle => n = 0) /\ (IsStarted(write) /\ ~handshake => n # 0)
  BY WriteFacts
<1>2. /\ enabled' = enabled /\ storeUser' = u /\ answers' = answers
      /\ settled' = settled /\ decided' = decided /\ enabled \in BOOLEAN
      /\ written' \in [Users -> Nat] /\ written'[u] = written[u] + 1
      /\ \A v \in Users : written[v] <= written'[v]
  BY <1>1 DEF WriteInv, QueueTypes
<1>3. QueueTypes'
  BY <1>2 DEF WriteInv, QueueTypes
<1>4. DecidedInOrder'
  <2>1. \A v \in Users : settled[v] \in Nat /\ written[v] \in Nat /\ written'[v] \in Nat
    BY <1>2 DEF WriteInv, QueueTypes
  <2>2. \A v \in Users : settled'[v] <= written'[v]
    BY <1>2, <2>1 DEF WriteInv, DecidedInOrder
  <2> QED
    BY <1>2, <2>2 DEF WriteInv, DecidedInOrder
<1>5. QueueStep
  <2>1. Queue!Write(u)
    BY <1>2 DEF Queue!Write
  <2> QED
    BY <1>1, <2>1 DEF QueueStep, Queue!Next
<1>6. IF enabled' THEN n <= Room(storeUser)' ELSE n = 0
  <2>1. CASE enabled
    <3>1. written'[storeUser'] = written[u] + 1 /\ settled'[storeUser'] = settled[u]
      BY <1>2
    <3>2. Room(storeUser)' = IF written'[storeUser'] - settled'[storeUser'] < MaxPendingWrites
                             THEN written'[storeUser'] - settled'[storeUser']
                             ELSE MaxPendingWrites
      BY DEF Room
    <3> QED
      BY <1>1, <1>2, <2>1, <3>1, <3>2, BoundsAssumption DEF Room
  <2>2. CASE ~enabled
    BY <1>2, <2>2 DEF Due
  <2> QED
    BY <2>1, <2>2
<1>7. settled'[storeUser'] <= written'[storeUser']
  BY <1>1, <1>2
<1>8. /\ write \in Streams /\ Fits(write) /\ handshake \in BOOLEAN /\ (handshake => IsOpen(write))
      /\ wire \in Seq(Batch) /\ answers' \in Seq(Batch)
      /\ ~enabled' => ~IsStarted(write)
  BY <1>2 DEF WriteInv, WriteStreamInv, PipelineInv
<1>9. /\ pipeline = Segment(storeUser', settled'[storeUser'], n)
      /\ answers' \o wire = IF handshake THEN pipeline ELSE << >>
      /\ FillWritePipeline(write, handshake, pipeline, wire, storeUser')
  BY <1>2 DEF WriteInv, PipelineInv
<1> HIDE DEF n
<1>10. /\ WriteStreamInv' /\ PipelineInv'
       /\ IF IsStarted(write) THEN Alike(write, write') ELSE write' \in {write, Start(write)}
  <2> HIDE DEF WriteMutations
  <2> QED
    BY <1>1, <1>2, <1>3, <1>6, <1>7, <1>8, <1>9, Fill
<1> QED
  BY <1>3, <1>4, <1>5, <1>8, <1>10, FillMoves DEF WriteInv

\* The queue after a stream is gone with the results that it carried.
LEMMA QueueForgotten ==
    ASSUME WriteInv, UNCHANGED <<written, settled>>, decided' = Forgotten(storeUser),
           storeUser' \in Users, enabled' \in BOOLEAN, answers' = << >>
    PROVE  QueueTypes' /\ DecidedInOrder' /\ QueueStep
<1>1. storeUser \in Users /\ settled[storeUser] \in Nat
  BY WriteFacts
<1>2. /\ decided' \in [Users -> Nat] /\ decided'[storeUser] = settled[storeUser]
      /\ \A v \in Users \ {storeUser} : decided'[v] = decided[v]
  BY <1>1 DEF WriteInv, QueueTypes, Forgotten
<1>3. QueueTypes'
  BY <1>2 DEF WriteInv, QueueTypes
<1>4. DecidedInOrder'
  <2>1. \A v \in Users : decided'[v] = settled'[v] /\ settled'[v] \in Nat
    BY <1>2 DEF WriteInv, DecidedInOrder, QueueTypes
  <2>2. \A v \in Users : settled'[v] <= written'[v]
    BY DEF WriteInv, DecidedInOrder
  <2>3. decided'[storeUser'] = settled'[storeUser'] + Len(answers')
    BY <2>1
  <2> QED
    BY <2>1, <2>2, <2>3 DEF DecidedInOrder
<1>5. Queue!Forget(storeUser)
  BY DEF Queue!Forget, Forgotten
<1> QED
  BY <1>1, <1>3, <1>4, <1>5 DEF QueueStep, Queue!Next

\* Without results on their way there is nothing to be lost.
LEMMA NothingForgotten ==
    ASSUME WriteInv, answers = << >>
    PROVE  decided = Forgotten(storeUser)
<1>1. /\ decided \in [Users -> Nat] /\ storeUser \in Users /\ settled[storeUser] \in Nat
      /\ decided[storeUser] = settled[storeUser] + Len(answers)
  BY DEF WriteInv, QueueTypes, DecidedInOrder
<1>2. decided[storeUser] = settled[storeUser]
  BY <1>1
<1> QED
  BY <1>1, <1>2 DEF Forgotten

\* A stream that ends takes its answers with it; the pipeline stays and is sent again.
LEMMA WriteClosesStep ==
    ASSUME WriteInv, NEW graceful \in BOOLEAN, WriteCloses(graceful),
           UNCHANGED <<enabled, storeUser, written, settled>>
    PROVE  WriteInv' /\ QueueStep /\ Moves(write, write')
<1> DEFINE s == Closed(write, graceful)
<1>1. /\ write' = IF enabled' /\ pipeline # << >> THEN Start(s) ELSE s
      /\ handshake' = FALSE /\ wire' = << >> /\ answers' = << >> /\ pipeline' = pipeline
      /\ decided' = Forgotten(storeUser)
  BY DEF WriteCloses
<1>2. QueueTypes' /\ DecidedInOrder' /\ QueueStep
  <2>1. storeUser' \in Users /\ enabled' \in BOOLEAN
    BY DEF WriteInv, QueueTypes
  <2> QED
    BY <1>1, <2>1, QueueForgotten
<1>3. /\ write \in Streams /\ s \in Streams /\ Fits(s) /\ ~IsStarted(s) /\ ~s.idle
      /\ s.closes = write.closes + 1
  BY ClosedIs DEF WriteInv, WriteStreamInv
<1> HIDE DEF s
<1>4. /\ Start(s) \in Streams /\ Fits(Start(s)) /\ IsStarted(Start(s)) /\ ~Start(s).idle
  BY <1>3, StartIs
<1>5. WriteStreamInv'
  <2>1. CASE enabled' /\ pipeline # << >>
    BY <1>1, <1>4, <2>1 DEF WriteStreamInv, HandshakeFirst, Fits
  <2>2. CASE ~(enabled' /\ pipeline # << >>)
    BY <1>1, <1>3, <2>2 DEF WriteStreamInv, HandshakeFirst, Fits
  <2> QED
    BY <2>1, <2>2
<1>6. PipelineInv'
  <2>1. Due' = Due
    BY DEF Due, Room
  <2>2. pipeline' = Segment(storeUser', settled'[storeUser'], Due')
    BY <1>1, <2>1 DEF WriteInv, PipelineInv
  <2>3. wire' \in Seq(Batch) /\ answers' \in Seq(Batch) /\ answers' \o wire' = << >>
    BY <1>1
  <2> QED
    BY <1>1, <2>2, <2>3 DEF PipelineInv
<1>7. Moves(write, write')
  <2>1. write.closes < s.closes
    BY <1>3, StreamFields
  <2> QED
    BY <1>1, <1>3, <2>1, StartMoves
<1> QED
  BY <1>2, <1>5, <1>6, <1>7 DEF WriteInv

LEMMA HandshakeCompleteStep ==
    ASSUME WriteInv, HandshakeComplete
    PROVE  WriteInv' /\ QueueStep /\ Moves(write, write')
<1> USE DEF HandshakeComplete, netVars, queueVars
<1>1. answers = << >> /\ pipeline \in Seq(Batch) /\ write.closes \in Nat
  BY WriteFacts
<1>2. /\ enabled' = enabled /\ storeUser' = storeUser /\ answers' = answers
      /\ written' = written /\ settled' = settled /\ decided' = decided
      /\ pipeline' = pipeline /\ wire' = pipeline /\ handshake' = TRUE
      /\ write' = IF pipeline = << >> THEN write ELSE Write(write)
      /\ IsOpen(write) /\ ~handshake
  OBVIOUS
<1> HIDE DEF HandshakeComplete, netVars, queueVars
<1>3. QueueTypes' /\ DecidedInOrder' /\ QueueStep
  <2>1. storeUser' \in Users /\ enabled' \in BOOLEAN
    BY <1>2 DEF WriteInv, QueueTypes
  <2> QED
    BY <1>2, <2>1, QueueKept
<1>4. write' \in Streams /\ Fits(write)' /\ Alike(write, write')
  <2>1. write \in Streams /\ Fits(write) /\ Alike(write, write)
    BY DEF WriteInv, WriteStreamInv, Alike
  <2>2. CASE pipeline = << >>
    BY <1>2, <2>1, <2>2 DEF Fits
  <2>3. CASE pipeline # << >>
    BY <1>2, <2>1, <2>3, WriteIs DEF Fits
  <2> QED
    BY <2>2, <2>3
<1>5. IsOpen(write)' /\ (IsStarted(write)' <=> IsStarted(write)) /\ Moves(write, write')
  BY <1>1, <1>2, <1>4, AlikeIs DEF IsOpen, IsStarted, Alike
<1>6. pipeline # << >>
  <2>1. IsStarted(write)
    BY <1>2, StreamFields DEF WriteInv, WriteStreamInv
  <2> QED
    BY <1>2, <2>1 DEF WriteInv, WriteStreamInv, HandshakeFirst
<1>7. ~write'.idle
  BY <1>2, <1>6, WriteIs DEF WriteInv, WriteStreamInv
<1>8. WriteStreamInv'
  BY <1>2, <1>4, <1>5, <1>7 DEF WriteInv, WriteStreamInv, HandshakeFirst
<1>9. PipelineInv'
  <2>1. pipeline' = Segment(storeUser', settled'[storeUser'], Due')
    BY <1>2 DEF WriteInv, PipelineInv, Due, Room
  <2>2. answers' \o wire' = pipeline' /\ answers' \in Seq(Batch) /\ wire' \in Seq(Batch)
    BY <1>1, <1>2, ConcatEmptySeq
  <2> QED
    BY <1>2, <1>5, <2>1, <2>2 DEF PipelineInv
<1> QED
  BY <1>3, <1>5, <1>8, <1>9 DEF WriteInv

\* What is on its way belongs to the pipeline, which has a front then.
LEMMA SentIs ==
    ASSUME WriteInv, answers # << >> \/ wire # << >>
    PROVE  /\ handshake /\ IsOpen(write) /\ IsStarted(write) /\ enabled
           /\ answers \o wire = pipeline
           /\ Due \in Nat \ {0} /\ Due - 1 \in Nat /\ pipeline # << >>
           /\ Head(pipeline) = [user |-> storeUser, n |-> settled[storeUser] + 1]
           /\ Tail(pipeline) = Segment(storeUser, settled[storeUser] + 1, Due - 1)
           /\ ~write.idle
<1>1. handshake
  BY WriteFacts
<1>2. IsOpen(write) /\ IsStarted(write) /\ enabled /\ answers \o wire = pipeline
  BY <1>1, StreamFields DEF WriteInv, WriteStreamInv, PipelineInv, QueueTypes
<1>3. pipeline # << >>
  <2>1. answers \in Seq(Batch) /\ wire \in Seq(Batch)
    BY DEF WriteInv, PipelineInv
  <2> QED
    BY <1>2, <2>1, EmptyConcat
<1> DEFINE k == settled[storeUser]
           d == Due
<1>4. /\ storeUser \in Users /\ k \in Nat /\ d \in Nat /\ d # 0
      /\ pipeline = Segment(storeUser, k, d) /\ ~write.idle
  BY <1>3, WriteFacts DEF WriteInv, PipelineInv
<1> HIDE DEF k, d
<1>5. d \in Nat \ {0} /\ d - 1 \in Nat
  BY <1>4
<1>6. /\ Head(pipeline) = [user |-> storeUser, n |-> k + 1]
      /\ Tail(pipeline) = Segment(storeUser, k + 1, d - 1)
  BY <1>4, <1>5, SegmentFront
<1> QED
  BY <1>1, <1>2, <1>3, <1>4, <1>5, <1>6 DEF k, d

\* The room for the batches after one that leaves the queue.
LEMMA RoomAfterOne ==
    ASSUME WriteInv, enabled, UNCHANGED <<storeUser, written>>, Due # 0,
           settled' = [settled EXCEPT ![storeUser] = settled[storeUser] + 1]
    PROVE  /\ settled' \in [Users -> Nat]
           /\ settled'[storeUser'] = settled[storeUser] + 1
           /\ settled'[storeUser'] <= written'[storeUser']
           /\ Due - 1 <= Room(storeUser)'
<1>1. /\ storeUser \in Users /\ written[storeUser] \in Nat /\ settled[storeUser] \in Nat
      /\ Due \in Nat /\ settled[storeUser] + Due <= written[storeUser]
      /\ Due <= Room(storeUser)
  BY WriteFacts
<1>2. settled' \in [Users -> Nat] /\ settled'[storeUser'] = settled[storeUser] + 1
  BY <1>1 DEF WriteInv, QueueTypes
<1>3. settled'[storeUser'] <= written'[storeUser']
  BY <1>1, <1>2
<1>4. Room(storeUser)' = IF written'[storeUser'] - settled'[storeUser'] < MaxPendingWrites
                         THEN written'[storeUser'] - settled'[storeUser']
                         ELSE MaxPendingWrites
  BY DEF Room
<1>5. Due - 1 <= Room(storeUser)'
  BY <1>1, <1>2, <1>4, BoundsAssumption DEF Room
<1> QED
  BY <1>2, <1>3, <1>5

LEMMA MutationResultStep ==
    ASSUME WriteInv, MutationResult
    PROVE  WriteInv' /\ QueueStep /\ Moves(write, write')
<1> DEFINE u == storeUser
           n == Due - 1
           p == Tail(pipeline)
<1>1. /\ u \in Users /\ written[u] \in Nat /\ settled[u] \in Nat /\ decided[u] \in Nat
  BY WriteFacts
<1>2. /\ answers # << >> /\ answers' = Tail(answers)
      /\ settled' = [settled EXCEPT ![u] = Head(pipeline).n]
      /\ enabled' = enabled /\ storeUser' = u /\ written' = written /\ decided' = decided
      /\ FillWritePipeline(write, handshake, p, wire, storeUser)
  BY DEF MutationResult
<1>3. /\ handshake /\ IsOpen(write) /\ IsStarted(write) /\ enabled
      /\ answers \o wire = pipeline
      /\ Due # 0 /\ n \in Nat
      /\ Head(pipeline) = [user |-> u, n |-> settled[u] + 1]
      /\ p = Segment(u, settled[u] + 1, n)
      /\ ~write.idle
  BY <1>2, SentIs
<1>4. settled' = [settled EXCEPT ![u] = settled[u] + 1]
  <2>1. Head(pipeline).n = settled[u] + 1
    BY <1>3
  <2> QED
    BY <1>2, <2>1, Zenon
<1>5. /\ settled' \in [Users -> Nat]
      /\ settled'[storeUser'] = settled[u] + 1
      /\ settled'[storeUser'] <= written'[storeUser']
      /\ n <= Room(storeUser)'
  BY <1>2, <1>3, <1>4, RoomAfterOne
<1>6. /\ answers \in Seq(Batch) /\ wire \in Seq(Batch)
      /\ answers' \in Seq(Batch) /\ Len(answers) >= 1 /\ Len(answers') = Len(answers) - 1
      /\ Len(answers) \in Nat
  BY <1>2, HeadTailProperties DEF WriteInv, PipelineInv
<1>7. decided[u] = settled[u] + Len(answers)
  BY DEF WriteInv, DecidedInOrder
<1>8. QueueTypes'
  BY <1>2, <1>5 DEF WriteInv, QueueTypes
<1>9. DecidedInOrder'
  <2>1. \A v \in Users \ {u} : settled'[v] = settled[v]
    BY <1>4 DEF WriteInv, QueueTypes
  <2>2. \A v \in Users : settled'[v] <= written'[v]
    <3> TAKE v \in Users
    <3>1. CASE v = u
      BY <1>2, <1>5, <3>1
    <3>2. CASE v # u
      BY <1>2, <2>1, <3>2 DEF WriteInv, DecidedInOrder
    <3> QED
      BY <3>1, <3>2
  <2>3. \A v \in Users \ {u} : decided'[v] = settled'[v]
    BY <1>2, <2>1 DEF WriteInv, DecidedInOrder
  <2>4. decided'[storeUser'] = settled'[storeUser'] + Len(answers')
    BY <1>1, <1>2, <1>5, <1>6, <1>7
  <2> QED
    BY <1>2, <2>2, <2>3, <2>4 DEF DecidedInOrder
<1>10. QueueStep
  <2>1. settled[u] < decided[u]
    BY <1>1, <1>6, <1>7
  <2>2. Queue!Acknowledge(u)
    BY <1>2, <1>4, <2>1 DEF Queue!Acknowledge
  <2> QED
    BY <1>1, <2>2 DEF QueueStep, Queue!Next
<1>11. answers' \o wire = p
  <2>1. Tail(answers \o wire) = Tail(answers) \o wire
    BY <1>2, <1>6, ConcatTail
  <2> QED
    BY <1>2, <1>3, <2>1
<1>12. write \in Streams /\ Fits(write) /\ handshake \in BOOLEAN
  BY DEF WriteInv, WriteStreamInv
<1>13. p = Segment(storeUser', settled'[storeUser'], n) /\ storeUser' = storeUser
  BY <1>2, <1>3, <1>5
<1> HIDE DEF n, p
<1>14. /\ WriteStreamInv' /\ PipelineInv'
       /\ IF IsStarted(write) THEN Alike(write, write') ELSE write' \in {write, Start(write)}
  BY <1>2, <1>3, <1>5, <1>6, <1>8, <1>11, <1>12, <1>13, Fill
<1> QED
  BY <1>8, <1>9, <1>10, <1>12, <1>14, FillMoves DEF WriteInv

LEMMA WriteRefusedStep ==
    ASSUME WriteInv, WriteRefused
    PROVE  WriteInv' /\ QueueStep /\ Moves(write, write')
<1> DEFINE u == storeUser
           n == Due - 1
           p == Tail(pipeline)
           s == InhibitBackoff(Closed(write, FALSE))
<1>1. /\ u \in Users /\ written[u] \in Nat /\ settled[u] \in Nat /\ decided[u] \in Nat
      /\ settled[u] + Due <= written[u] /\ Len(pipeline) = Due
  BY WriteFacts
<1>2. /\ wire # << >>
      /\ decided' = [decided EXCEPT ![u] = Head(pipeline).n]
      /\ settled' = [settled EXCEPT ![u] = Head(pipeline).n]
      /\ enabled' = enabled /\ storeUser' = u /\ written' = written /\ answers' = << >>
      /\ FillWritePipeline(s, FALSE, p, << >>, storeUser)
  BY DEF WriteRefused
<1>3. /\ enabled /\ Due # 0 /\ Due \in Nat /\ n \in Nat
      /\ answers \o wire = pipeline
      /\ Head(pipeline) = [user |-> u, n |-> settled[u] + 1]
      /\ p = Segment(u, settled[u] + 1, n)
  BY <1>2, SentIs
<1>4. decided[u] < written[u]
  <2>1. answers \in Seq(Batch) /\ wire \in Seq(Batch)
    BY DEF WriteInv, PipelineInv
  <2>2. Len(wire) \in Nat \ {0} /\ Len(answers) \in Nat
    BY <1>2, <2>1, EmptySeq, LenProperties
  <2>3. Len(answers \o wire) = Len(answers) + Len(wire)
    BY <2>1, ConcatProperties
  <2>4. Len(answers) + Len(wire) = Due
    BY <1>1, <1>3, <2>3
  <2>5. decided[u] = settled[u] + Len(answers)
    BY DEF WriteInv, DecidedInOrder
  <2>6. \A k \in Nat, a \in Nat, w \in Nat \ {0} : k + a < k + (a + w)
    OBVIOUS
  <2>7. decided[u] < settled[u] + Due
    BY <1>1, <2>2, <2>4, <2>5, <2>6
  <2> QED
    BY <1>1, <1>3, <2>7
<1>5. Head(pipeline).n = settled[u] + 1
  BY <1>3
<1>6. /\ settled' = [settled EXCEPT ![u] = settled[u] + 1]
      /\ decided' = [decided EXCEPT ![u] = settled[u] + 1]
  BY <1>2, <1>5, Zenon
<1>9. /\ settled' \in [Users -> Nat]
      /\ settled'[storeUser'] = settled[u] + 1
      /\ settled'[storeUser'] <= written'[storeUser']
      /\ n <= Room(storeUser)'
  BY <1>2, <1>3, <1>6, RoomAfterOne
<1> HIDE DEF n, p, s
<1>10. QueueTypes'
  <2>1. decided' \in [Users -> Nat]
    BY <1>1, <1>6 DEF WriteInv, QueueTypes
  <2> QED
    BY <1>2, <1>9, <2>1 DEF WriteInv, QueueTypes
<1>11. DecidedInOrder'
  <2>1. /\ settled'[u] = settled[u] + 1 /\ decided'[u] = settled[u] + 1
        /\ \A v \in Users \ {u} : settled'[v] = settled[v] /\ decided'[v] = decided[v]
    BY <1>1, <1>6 DEF WriteInv, QueueTypes
  <2>2. \A v \in Users : settled'[v] <= written'[v]
    <3> TAKE v \in Users
    <3>1. CASE v = u
      BY <1>2, <1>9, <3>1
    <3>2. CASE v # u
      BY <1>2, <2>1, <3>2 DEF WriteInv, DecidedInOrder
    <3> QED
      BY <3>1, <3>2
  <2>3. \A v \in Users \ {u} : decided'[v] = settled'[v]
    BY <2>1 DEF WriteInv, DecidedInOrder
  <2>4. decided'[storeUser'] = settled'[storeUser'] + Len(answers')
    BY <1>1, <1>2, <2>1
  <2> QED
    BY <1>2, <2>2, <2>3, <2>4 DEF DecidedInOrder
<1>12. QueueStep
  <2>1. Queue!Refuse(u)
    BY <1>2, <1>4, <1>6 DEF Queue!Refuse
  <2> QED
    BY <1>1, <2>1 DEF QueueStep, Queue!Next
<1>13. /\ write \in Streams /\ s \in Streams /\ Fits(s) /\ ~IsStarted(s) /\ ~s.idle
       /\ write.closes < s.closes
  <2> DEFINE c == Closed(write, FALSE)
  <2>1. /\ write \in Streams /\ c \in Streams /\ Fits(c) /\ ~IsStarted(c)
        /\ c.closes = write.closes + 1 /\ write.closes \in Nat
    BY ClosedIs, StreamFields DEF WriteInv, WriteStreamInv
  <2> HIDE DEF c
  <2>2. /\ s \in Streams /\ Fits(s) /\ ~IsStarted(s) /\ ~s.idle /\ s.closes = c.closes
    BY <2>1, InhibitBackoffIs DEF s, c
  <2> QED
    BY <2>1, <2>2
<1>14. p = Segment(storeUser', settled'[storeUser'], n) /\ storeUser' = storeUser
  BY <1>2, <1>3, <1>9
<1>15. << >> \in Seq(Batch) /\ << >> \o << >> = << >>
  OBVIOUS
<1>16. /\ WriteStreamInv' /\ PipelineInv'
       /\ IF IsStarted(s) THEN Alike(s, write') ELSE write' \in {s, Start(s)}
  BY <1>2, <1>3, <1>9, <1>10, <1>13, <1>14, <1>15, Fill
<1> QED
  BY <1>10, <1>11, <1>12, <1>13, <1>16, FillMoves DEF WriteInv

LEMMA BackendAppliesStep ==
    ASSUME WriteInv, BackendApplies
    PROVE  WriteInv' /\ QueueStep /\ Moves(write, write')
<1> DEFINE u == storeUser
           k == settled[u]
           b == Head(wire)
           a == Len(answers)
<1>1. /\ wire # << >> /\ wire' = Tail(wire) /\ answers' = Append(answers, b)
      /\ decided' = [decided EXCEPT ![b.user] = b.n]
      /\ enabled' = enabled /\ storeUser' = storeUser /\ write' = write
      /\ handshake' = handshake /\ pipeline' = pipeline
      /\ written' = written /\ settled' = settled
  BY DEF BackendApplies, netVars
<1>2. /\ u \in Users /\ written[u] \in Nat /\ k \in Nat /\ decided[u] \in Nat
      /\ k + Due <= written[u] /\ Due \in Nat
      /\ Len(pipeline) = Due
      /\ \A i \in 1 .. Due : pipeline[i] = [user |-> u, n |-> k + i]
  BY WriteFacts
<1>3. answers \in Seq(Batch) /\ wire \in Seq(Batch) /\ handshake /\ answers \o wire = pipeline
  BY <1>1, SentIs DEF WriteInv, PipelineInv
<1>4. a \in Nat /\ a + 1 \in 1 .. Due /\ pipeline[a + 1] = b
  <2>1. Len(wire) \in Nat \ {0} /\ a \in Nat
    BY <1>1, <1>3, EmptySeq, LenProperties
  <2>2. /\ Len(answers \o wire) = a + Len(wire)
        /\ \A i \in 1 .. a + Len(wire) :
              (answers \o wire)[i] = IF i <= a THEN answers[i] ELSE wire[i - a]
    BY <1>3, ConcatProperties
  <2>3. a + 1 \in 1 .. Due /\ a + 1 \in 1 .. a + Len(wire) /\ ~(a + 1 <= a) /\ a + 1 - a = 1
    BY <1>2, <1>3, <2>1, <2>2
  <2>4. pipeline[a + 1] = wire[a + 1 - a]
    BY <1>3, <2>2, <2>3
  <2> QED
    BY <2>1, <2>3, <2>4
<1>5. b.user = u /\ b.n = k + a + 1 /\ k + a + 1 <= written[u]
  <2> HIDE DEF b, a, k, u
  <2>1. b = [user |-> u, n |-> k + (a + 1)]
    BY <1>2, <1>4
  <2>2. k + (a + 1) = k + a + 1 /\ k + a + 1 <= written[u]
    BY <1>2, <1>4
  <2> QED
    BY <2>1, <2>2
<1>6. decided[u] = k + a
  BY DEF WriteInv, DecidedInOrder
<1>7. answers' \in Seq(Batch) /\ wire' \in Seq(Batch) /\ Len(answers') = a + 1
      /\ answers' \o wire' = pipeline
  <2>1. b \in Batch /\ wire' \in Seq(Batch)
    BY <1>1, <1>3, HeadTailProperties
  <2>2. answers' \in Seq(Batch) /\ Len(answers') = a + 1
    BY <1>1, <1>3, <2>1
  <2>3. answers' \o wire' = answers \o wire
    BY <1>1, <1>3, ConcatAppend
  <2> QED
    BY <1>3, <2>1, <2>2, <2>3
<1> HIDE DEF b, a
<1>8. /\ decided' = [decided EXCEPT ![u] = k + a + 1]
      /\ decided' \in [Users -> Nat]
      /\ \A v \in Users \ {u} : decided'[v] = decided[v]
      /\ decided'[u] = k + a + 1
  BY <1>1, <1>2, <1>4, <1>5 DEF WriteInv, QueueTypes
<1>9. QueueTypes'
  BY <1>1, <1>8 DEF WriteInv, QueueTypes
<1>10. DecidedInOrder'
  <2>1. \A v \in Users : settled'[v] <= written'[v]
    BY <1>1 DEF WriteInv, DecidedInOrder
  <2>2. \A v \in Users \ {u} : decided'[v] = settled'[v]
    BY <1>1, <1>8 DEF WriteInv, DecidedInOrder
  <2>3. decided'[storeUser'] = settled'[storeUser'] + Len(answers')
    <3>1. \A x \in Nat, y \in Nat : x + y + 1 = x + (y + 1)
      OBVIOUS
    <3>2. k + a + 1 = k + (a + 1)
      BY <1>2, <1>4, <3>1
    <3>3. decided'[storeUser'] = k + a + 1 /\ settled'[storeUser'] = k
      BY <1>1, <1>8
    <3> QED
      BY <1>7, <3>2, <3>3
  <2> QED
    BY <1>1, <2>1, <2>2, <2>3 DEF DecidedInOrder
<1>11. QueueStep
  <2>1. k + a + 1 = decided[u] + 1 /\ decided[u] < written[u]
    BY <1>2, <1>4, <1>5, <1>6
  <2>2. decided' = [decided EXCEPT ![u] = decided[u] + 1]
    BY <1>8, <2>1
  <2>3. Queue!Apply(u)
    BY <1>1, <2>1, <2>2 DEF Queue!Apply
  <2> QED
    BY <1>2, <2>3 DEF QueueStep, Queue!Next
<1>12. WriteStreamInv' /\ Moves(write, write')
  BY <1>1, StreamFields DEF WriteInv, WriteStreamInv, HandshakeFirst, Fits
<1>13. PipelineInv'
  <2>1. pipeline' = Segment(storeUser', settled'[storeUser'], Due')
    BY <1>1 DEF WriteInv, PipelineInv, Due, Room
  <2> QED
    BY <1>1, <1>3, <1>7, <2>1 DEF WriteInv, PipelineInv
<1> QED
  BY <1>9, <1>10, <1>11, <1>12, <1>13 DEF WriteInv

\* The pipeline is filled from nothing, on a stopped stream.
LEMMA RefillStep ==
    ASSUME WriteInv, UNCHANGED <<written, settled>>, decided' = Forgotten(storeUser),
           storeUser' \in Users, enabled' \in BOOLEAN, answers' = << >>,
           NEW s \in Streams, Fits(s), ~IsStarted(s), ~s.idle,
           FillWritePipeline(s, FALSE, << >>, << >>, storeUser')
    PROVE  WriteInv' /\ QueueStep /\ write' \in {s, Start(s)}
<1>1. QueueTypes' /\ DecidedInOrder' /\ QueueStep
  BY QueueForgotten
<1>2. /\ storeUser' \in Users /\ written'[storeUser'] \in Nat /\ settled'[storeUser'] \in Nat
      /\ settled'[storeUser'] <= written'[storeUser']
  BY <1>1 DEF QueueTypes, DecidedInOrder
<1>3. << >> = Segment(storeUser', settled'[storeUser'], 0)
  BY <1>2, SegmentIs
<1>4. IF enabled' THEN 0 <= Room(storeUser)' ELSE 0 = 0
  <2>1. Room(storeUser)' = IF written'[storeUser'] - settled'[storeUser'] < MaxPendingWrites
                           THEN written'[storeUser'] - settled'[storeUser']
                           ELSE MaxPendingWrites
    BY DEF Room
  <2> QED
    BY <1>2, <2>1, BoundsAssumption
<1>5. << >> \in Seq(Batch) /\ << >> \o << >> = << >> /\ 0 \in Nat
  OBVIOUS
<1>6. FillWritePipeline(s, FALSE, Segment(storeUser', settled'[storeUser'], 0), << >>, storeUser')
  BY <1>3
<1>7. /\ WriteStreamInv' /\ PipelineInv'
      /\ IF IsStarted(s) THEN Alike(s, write') ELSE write' \in {s, Start(s)}
  BY <1>1, <1>2, <1>4, <1>5, <1>6, Fill
<1> QED
  BY <1>1, <1>7 DEF WriteInv

\* The pipeline is filled anew for whichever account is in use after the step.
LEMMA WriteRestartsStep ==
    ASSUME WriteInv, UNCHANGED <<written, settled>>, decided' = Forgotten(storeUser),
           storeUser' \in Users, enabled' \in BOOLEAN, answers' = << >>,
           FillWritePipeline(Stop(write), FALSE, << >>, << >>, storeUser')
    PROVE  /\ WriteInv' /\ QueueStep /\ Moves(write, write')
           /\ IsStarted(write) => write.closes < write'.closes
<1> DEFINE s == Stop(write)
<1>1. /\ write \in Streams /\ write.closes \in Nat
      /\ s \in Streams /\ Fits(s) /\ ~IsStarted(s) /\ ~s.idle
      /\ s.closes = IF IsStarted(write) THEN write.closes + 1 ELSE write.closes
  BY StopIs, StreamFields DEF WriteInv, WriteStreamInv
<1> HIDE DEF s
<1>2. FillWritePipeline(s, FALSE, << >>, << >>, storeUser')
  BY DEF s
<1>3. WriteInv' /\ QueueStep /\ write' \in {s, Start(s)}
  BY <1>1, <1>2, RefillStep
<1>4. Moves(write, write')
  BY <1>1, <1>3, StartMoves
<1>5. write'.closes = s.closes
  BY <1>1, <1>3, StartIs
<1> QED
  BY <1>1, <1>3, <1>4, <1>5

\* While the network is off there is nothing in the pipeline.
LEMMA OffIsEmpty ==
    ASSUME WriteInv, ~enabled
    PROVE  /\ pipeline = << >> /\ answers = << >> /\ wire = << >> /\ ~handshake
           /\ ~IsStarted(write) /\ ~write.idle
<1>1. Due = 0 /\ ~IsStarted(write) /\ ~write.idle
  BY StreamFields DEF WriteInv, WriteStreamInv, Due, Fits
<1>2. ~handshake
  BY <1>1, StreamFields DEF WriteInv, WriteStreamInv, PipelineInv
<1> QED
  BY <1>1, <1>2, WriteFacts

LEMMA WriteEnabledStep ==
    ASSUME WriteInv, EnableNetwork
    PROVE  WriteInv' /\ QueueStep /\ Moves(write, write')
<1>1. /\ ~enabled /\ enabled' = TRUE /\ storeUser' = storeUser /\ answers' = answers
      /\ written' = written /\ settled' = settled /\ decided' = decided
      /\ FillWritePipeline(write, handshake, pipeline, wire, storeUser')
  BY DEF EnableNetwork, queueVars
<1>2. /\ pipeline = << >> /\ answers = << >> /\ wire = << >> /\ handshake = FALSE
      /\ ~IsStarted(write) /\ ~write.idle
  BY <1>1, OffIsEmpty DEF WriteInv, WriteStreamInv
<1>3. write \in Streams /\ Fits(write) /\ storeUser' \in Users /\ enabled' \in BOOLEAN
  BY <1>1 DEF WriteInv, WriteStreamInv, QueueTypes
<1>4. FillWritePipeline(write, FALSE, << >>, << >>, storeUser') /\ answers' = << >>
  BY <1>1, <1>2
<1>5. decided' = Forgotten(storeUser)
  BY <1>1, <1>2, NothingForgotten
<1>6. WriteInv' /\ QueueStep /\ write' \in {write, Start(write)}
  BY <1>1, <1>2, <1>3, <1>4, <1>5, RefillStep
<1> QED
  BY <1>2, <1>3, <1>6, StartMoves

LEMMA WriteDisabledStep ==
    ASSUME WriteInv, DisableNetwork
    PROVE  WriteInv' /\ QueueStep /\ Moves(write, write')
<1>1. /\ enabled' = FALSE /\ write' = Stop(write) /\ handshake' = FALSE /\ answers' = << >>
      /\ pipeline' = << >> /\ wire' = << >> /\ storeUser' = storeUser
      /\ written' = written /\ settled' = settled /\ decided' = Forgotten(storeUser)
  BY DEF DisableNetwork, queueVars
<1>2. /\ write' \in Streams /\ Fits(write)' /\ ~IsStarted(write)' /\ ~write'.idle
      /\ Moves(write, write')
  BY <1>1, StopIs DEF WriteInv, WriteStreamInv, Fits
<1>3. QueueTypes' /\ DecidedInOrder' /\ QueueStep
  <2>1. storeUser' \in Users /\ enabled' \in BOOLEAN
    BY <1>1 DEF WriteInv, QueueTypes
  <2> QED
    BY <1>1, <2>1, QueueForgotten
<1>4. WriteStreamInv'
  BY <1>1, <1>2 DEF WriteStreamInv, HandshakeFirst
<1>5. PipelineInv'
  <2>1. Due' = 0 /\ storeUser' \in Users /\ settled'[storeUser'] \in Nat
    BY <1>1, <1>3 DEF Due, QueueTypes
  <2>2. pipeline' = Segment(storeUser', settled'[storeUser'], Due')
    BY <1>1, <2>1, SegmentIs
  <2> QED
    BY <1>1, <2>2 DEF PipelineInv
<1> QED
  BY <1>2, <1>3, <1>4, <1>5 DEF WriteInv

\* A change of account while the network is off.
LEMMA WriteSwapStep ==
    ASSUME WriteInv, ~enabled, UNCHANGED <<enabled, writeVars, queueVars>>, storeUser' \in Users
    PROVE  WriteInv' /\ QueueStep /\ Moves(write, write')
<1>1. /\ enabled' = enabled /\ write' = write /\ handshake' = handshake
      /\ answers' = answers /\ pipeline' = pipeline /\ wire' = wire
      /\ written' = written /\ settled' = settled /\ decided' = decided
  BY DEF writeVars, queueVars
<1>2. pipeline = << >> /\ answers = << >> /\ wire = << >> /\ ~handshake
  BY OffIsEmpty
<1>3. QueueTypes' /\ DecidedInOrder' /\ QueueStep
  <2>1. enabled' \in BOOLEAN
    BY <1>1 DEF WriteInv, QueueTypes
  <2> QED
    BY <1>1, <1>2, <2>1, QueueKept
<1>4. WriteStreamInv' /\ Moves(write, write')
  BY <1>1, StreamFields DEF WriteInv, WriteStreamInv, HandshakeFirst, Fits
<1>5. PipelineInv'
  <2>1. Due' = 0 /\ settled'[storeUser'] \in Nat
    BY <1>1, <1>3 DEF Due, QueueTypes
  <2>2. pipeline' = Segment(storeUser', settled'[storeUser'], Due')
    BY <1>1, <1>2, <2>1, SegmentIs
  <2> QED
    BY <1>1, <1>2, <2>2 DEF PipelineInv
<1> QED
  BY <1>3, <1>4, <1>5 DEF WriteInv

\* A starting stream that changes its state before its handshake.
LEMMA WriteBackoffStep ==
    ASSUME WriteInv, write.backoff, write' = BackoffElapsed(write),
           UNCHANGED <<enabled, storeUser, handshake, pipeline, wire, answers, queueVars>>
    PROVE  WriteInv' /\ QueueStep /\ Moves(write, write')
<1>1. /\ enabled' = enabled /\ storeUser' = storeUser /\ handshake' = handshake
      /\ answers' = answers /\ pipeline' = pipeline /\ wire' = wire
      /\ written' = written /\ settled' = settled /\ decided' = decided
  BY DEF queueVars
<1>2. /\ write' \in Streams /\ Fits(write)' /\ write'.state = "Starting" /\ ~write'.idle
      /\ write'.closes = write.closes /\ IsStarted(write) /\ ~IsOpen(write)
  BY BackoffElapsedIs DEF WriteInv, WriteStreamInv, Fits
<1>3. ~handshake /\ pipeline # << >>
  BY <1>2 DEF WriteInv, WriteStreamInv, PipelineInv, HandshakeFirst
<1>4. QueueTypes' /\ DecidedInOrder' /\ QueueStep
  <2>1. enabled' \in BOOLEAN /\ storeUser' \in Users
    BY <1>1 DEF WriteInv, QueueTypes
  <2> QED
    BY <1>1, <2>1, QueueKept
<1>5. IsStarted(write)' /\ ~IsOpen(write)'
  BY <1>2 DEF IsStarted, IsOpen
<1>6. WriteStreamInv' /\ Moves(write, write')
  BY <1>1, <1>2, <1>3, <1>5, StreamFields
     DEF WriteInv, WriteStreamInv, HandshakeFirst, Moves
<1>7. PipelineInv'
  BY <1>1, <1>3 DEF WriteInv, PipelineInv, Due, Room
<1> QED
  BY <1>4, <1>6, <1>7 DEF WriteInv

LEMMA WriteOpensStep ==
    ASSUME WriteInv, write.state = "Starting", NEW u \in Users, write' = Write(Opened(write, u)),
           UNCHANGED <<enabled, storeUser, handshake, pipeline, wire, answers, queueVars>>
    PROVE  WriteInv' /\ QueueStep /\ write'.closes = write.closes /\ IsOpen(write)' /\ write'.as = u
<1>1. /\ enabled' = enabled /\ storeUser' = storeUser /\ handshake' = handshake
      /\ answers' = answers /\ pipeline' = pipeline /\ wire' = wire
      /\ written' = written /\ settled' = settled /\ decided' = decided
  BY DEF queueVars
<1> DEFINE s == Opened(write, u)
<1>2. /\ s \in Streams /\ Fits(s) /\ IsOpen(s) /\ s.as = u /\ s.closes = write.closes
  BY OpenedIs DEF WriteInv, WriteStreamInv
<1>3. /\ write' \in Streams /\ Fits(write)' /\ Alike(s, write') /\ ~write'.idle
  BY <1>2, WriteIs DEF Fits
<1> HIDE DEF s
<1>4. IsOpen(write)' /\ IsStarted(write)' /\ write'.closes = write.closes /\ write'.as = u
  BY <1>2, <1>3 DEF Alike, IsOpen, IsStarted
<1>5. ~handshake /\ pipeline # << >> /\ IsStarted(write)
  BY StreamFields DEF WriteInv, WriteStreamInv, PipelineInv, HandshakeFirst
<1>6. QueueTypes' /\ DecidedInOrder' /\ QueueStep
  <2>1. enabled' \in BOOLEAN /\ storeUser' \in Users
    BY <1>1 DEF WriteInv, QueueTypes
  <2> QED
    BY <1>1, <2>1, QueueKept
<1>7. WriteStreamInv'
  BY <1>1, <1>3, <1>4, <1>5 DEF WriteInv, WriteStreamInv, HandshakeFirst
<1>8. PipelineInv'
  BY <1>1, <1>5 DEF WriteInv, PipelineInv, Due, Room
<1> QED
  BY <1>4, <1>6, <1>7, <1>8 DEF WriteInv

LEMMA WriteInit == Init => WriteInv /\ Queue!Init
<1> SUFFICES ASSUME Init PROVE WriteInv /\ Queue!Init
  OBVIOUS
<1> USE DEF Init
<1>1. /\ write \in Streams /\ Fits(write) /\ ~IsStarted(write) /\ ~write.idle
  BY NewStreamIs
<1>2. /\ QueueTypes
      /\ \A u \in Users : written[u] = 0 /\ settled[u] = 0 /\ decided[u] = 0
  BY DEF QueueTypes
<1>3. DecidedInOrder
  BY <1>2 DEF DecidedInOrder, QueueTypes
<1>4. WriteStreamInv
  BY <1>1 DEF WriteStreamInv, HandshakeFirst
<1>5. PipelineInv
  <2>1. Room(storeUser) = 0
    BY <1>2, BoundsAssumption DEF Room, QueueTypes
  <2>2. Due = 0 /\ settled[storeUser] \in Nat /\ storeUser \in Users
    BY <1>2, <2>1 DEF Due, QueueTypes
  <2>3. pipeline = Segment(storeUser, settled[storeUser], Due)
    BY <2>2, SegmentIs
  <2> QED
    BY <2>3 DEF PipelineInv
<1>6. Queue!Init
  BY DEF Queue!Init, Queue!Zero
<1> QED
  BY <1>2, <1>3, <1>4, <1>5, <1>6 DEF WriteInv

LEMMA WriteNewStep ==
    ASSUME WriteInv, authUser \in Users, Restart
    PROVE  WriteInv' /\ QueueStep
           /\ write' \in {NewStream(authUser), Start(NewStream(authUser))}
<1> DEFINE s == NewStream(authUser)
<1>1. s \in Streams /\ Fits(s) /\ ~IsStarted(s) /\ ~s.idle
  BY NewStreamIs
<1> HIDE DEF s
<1>2. /\ enabled' = TRUE /\ storeUser' = authUser /\ answers' = << >>
      /\ written' = written /\ settled' = settled /\ decided' = Forgotten(storeUser)
      /\ FillWritePipeline(s, FALSE, << >>, << >>, storeUser')
  BY DEF Restart, queueVars, s
<1>3. storeUser' \in Users /\ enabled' \in BOOLEAN
  BY <1>2
<1>4. WriteInv' /\ QueueStep /\ write' \in {s, Start(s)}
  BY <1>1, <1>2, <1>3, RefillStep
<1> QED
  BY <1>4 DEF s

\* What processing a sign-in relies on.
HeadIsSignIn == inbox # << >> /\ Head(inbox).kind = "user" => Head(inbox).user \in Users

LEMMA WriteStep ==
    ASSUME WriteInv, HeadIsToken, HeadIsSignIn, authUser \in Users, [Next]_vars
    PROVE  WriteInv' /\ QueueStep /\ (Moves(write, write') \/ ProcessToken \/ Restart)
<1> USE DEF netVars, writeVars, queueVars
<1>0. ASSUME UNCHANGED writeParts PROVE WriteInv' /\ QueueStep /\ Moves(write, write')
  <2>1. QueueStep
    BY <1>0 DEF QueueStep, writeParts
  <2> QED
    BY <1>0, <2>1, WriteKept
<1>1. ASSUME UNCHANGED vars PROVE WriteInv' /\ QueueStep /\ Moves(write, write')
  BY <1>0, <1>1 DEF vars, writeParts
<1>2. ASSUME NEW u \in Users, SignIn(u) PROVE WriteInv' /\ QueueStep /\ Moves(write, write')
  BY <1>0, <1>2 DEF SignIn, writeParts
<1>3. ASSUME NEW r \in requests, NEW result \in Results, AuthAnswers(r, result)
      PROVE  WriteInv' /\ QueueStep /\ Moves(write, write')
  BY <1>0, <1>3 DEF AuthAnswers, writeParts
<1>4. ASSUME NEW q \in Targets, Listen(q) \/ StopListening(q) \/ TargetRejected(q)
      PROVE  WriteInv' /\ QueueStep /\ Moves(write, write')
  BY <1>0, <1>4 DEF Listen, StopListening, TargetRejected, writeParts
<1>5. CASE WatchAnswers \/ WatchIdle \/ WatchFails \/ OnlineTimeout
  BY <1>0, <1>5 DEF WatchAnswers, WatchIdle, WatchFails, OnlineTimeout, writeParts
<1>6. CASE WriteMutations
  BY <1>6, WriteMutationsStep
<1>7. CASE HandshakeComplete
  BY <1>7, HandshakeCompleteStep
<1>8. CASE BackendApplies
  BY <1>8, BackendAppliesStep
<1>9. CASE MutationResult
  BY <1>9, MutationResultStep
<1>10. CASE WriteIdle \/ WriteFails
  <2>1. PICK graceful \in BOOLEAN : WriteCloses(graceful)
    BY <1>10 DEF WriteIdle, WriteFails
  <2>2. UNCHANGED <<enabled, storeUser, written, settled>>
    BY <1>10 DEF WriteIdle, WriteFails
  <2> QED
    BY <2>1, <2>2, WriteClosesStep
<1>11. CASE WriteRefused
  BY <1>11, WriteRefusedStep
<1>12. ASSUME NEW name \in Names, BackoffEnds(name)
       PROVE  WriteInv' /\ QueueStep /\ Moves(write, write')
  <2>1. CASE name = "watch"
    BY <1>0, <1>12, <2>1 DEF BackoffEnds, writeParts
  <2>2. CASE name # "watch"
    BY <1>12, <2>2, WriteBackoffStep DEF BackoffEnds, StreamOf
  <2> QED
    BY <2>1, <2>2
<1>13. CASE ProcessToken
  <2> DEFINE m == Head(inbox)
  <2>1. /\ m \in Tokens /\ enabled' = enabled /\ storeUser' = storeUser
        /\ written' = written /\ settled' = settled
    BY <1>13 DEF ProcessToken, HeadIsToken
  <2>2. CASE UNCHANGED <<writeVars, decided>>
    BY <1>0, <2>1, <2>2 DEF writeParts
  <2>3. CASE /\ FreshToken(m) /\ m.stream = "write"
             /\ write' = Write(Opened(write, m.user))
             /\ UNCHANGED <<handshake, pipeline, wire, answers>> /\ decided' = decided
    <3>1. write.state = "Starting" /\ m.user \in Users
      BY <1>13, <2>1, <2>3 DEF HeadIsToken, StreamOf, Tokens, ProcessToken
    <3> QED
      BY <1>13, <2>1, <2>3, <3>1, WriteOpensStep
  <2>4. CASE WriteCloses(FALSE)
    BY <2>1, <2>4, WriteClosesStep
  <2>5. \/ UNCHANGED <<writeVars, decided>>
        \/ /\ FreshToken(m) /\ m.stream = "write"
           /\ write' = Write(Opened(write, m.user))
           /\ UNCHANGED <<handshake, pipeline, wire, answers>> /\ decided' = decided
        \/ WriteCloses(FALSE)
    BY <1>13 DEF ProcessToken
  <2> QED
    BY <1>13, <2>2, <2>3, <2>4, <2>5
<1>14. CASE ProcessSignIn
  <2>1. /\ storeUser' \in Users /\ storeUser' = Head(inbox).user /\ enabled' = enabled
        /\ UNCHANGED <<written, settled>> /\ enabled' \in BOOLEAN
    BY <1>14 DEF ProcessSignIn, HeadIsSignIn, WriteInv, QueueTypes
  <2>2. CASE enabled
    BY <1>14, <2>1, <2>2, WriteRestartsStep DEF ProcessSignIn
  <2>3. CASE ~enabled
    BY <1>14, <2>1, <2>3, WriteSwapStep DEF ProcessSignIn
  <2> QED
    BY <2>2, <2>3
<1>15. CASE DisableNetwork
  BY <1>15, WriteDisabledStep
<1>16. CASE EnableNetwork
  BY <1>16, WriteEnabledStep
<1>17. CASE Restart
  BY <1>17, WriteNewStep
<1> QED
  BY <1>1, <1>2, <1>3, <1>4, <1>5, <1>6, <1>7, <1>8, <1>9, <1>10, <1>11, <1>12,
     <1>13, <1>14, <1>15, <1>16, <1>17 DEF Next

-----------------------------------------------------------------------------
(* The queue between Auth and the streams *)

Message == SignIns \cup Tokens

\* What is on the queue is a sign-in or a token.
LEMMA MessageIs ==
    ASSUME NEW m \in Message
    PROVE  \/ m.kind = "user" /\ m.user \in Users /\ m \in SignIns
           \/ m.kind = "token" /\ m \in Tokens /\ m.user \in Users /\ m.stream \in Names
              /\ m.closes \in Nat
  BY DEF Message, SignIns, Tokens

\* No sign-in between the places i and j of the queue b.
Silent(b, i, j) == \A k \in DOMAIN b : i < k /\ k < j => b[k].kind # "user"

\* Worked off from the account `from' on, the queue b leads every token to its account
\* and in the end to the account `to'.
LeadsTo(b, from, to) ==
    /\ \A j \in DOMAIN b : b[j].kind = "token" =>
          /\ Silent(b, 0, j) => b[j].user = from
          /\ \A i \in 1 .. j - 1 : b[i].kind = "user" /\ Silent(b, i, j) => b[j].user = b[i].user
    /\ Silent(b, 0, Len(b) + 1) => to = from
    /\ \A i \in DOMAIN b :
          b[i].kind = "user" /\ Silent(b, i, Len(b) + 1) => to = b[i].user

\* The rest of the queue, place by place.
LEMMA TailIs ==
    ASSUME NEW b \in Seq(Message), b # << >>
    PROVE  /\ Len(b) \in Nat \ {0} /\ 1 \in 1 .. Len(b) /\ Head(b) = b[1]
           /\ b[1] \in Message /\ DOMAIN b = 1 .. Len(b)
           /\ Tail(b) \in Seq(Message) /\ Len(Tail(b)) = Len(b) - 1
           /\ DOMAIN Tail(b) = 1 .. Len(b) - 1
           /\ \A i \in 1 .. Len(b) - 1 : Tail(b)[i] = b[i + 1] /\ i + 1 \in 1 .. Len(b)
<1>1. Len(b) \in Nat \ {0} /\ DOMAIN b = 1 .. Len(b)
  BY EmptySeq, LenProperties
<1>2. /\ Tail(b) \in Seq(Message) /\ Len(Tail(b)) = Len(b) - 1
      /\ \A i \in 1 .. Len(Tail(b)) : Tail(b)[i] = b[i + 1]
  BY HeadTailProperties
<1>3. DOMAIN Tail(b) = 1 .. Len(b) - 1
  BY <1>2, LenProperties
<1>4. 1 \in 1 .. Len(b) /\ \A i \in 1 .. Len(b) - 1 : i + 1 \in 1 .. Len(b)
  BY <1>1
<1>5. b[1] \in Message
  BY <1>4, ElementOfSeq
<1> QED
  BY <1>1, <1>2, <1>3, <1>4, <1>5

\* The front of the queue is worked off.
LEMMA LeadsToTail ==
    ASSUME NEW b \in Seq(Message), b # << >>, NEW from, NEW to, LeadsTo(b, from, to)
    PROVE  LeadsTo(Tail(b), IF b[1].kind = "user" THEN b[1].user ELSE from, to)
<1> DEFINE t == Tail(b)
           n == Len(b)
           now == IF b[1].kind = "user" THEN b[1].user ELSE from
<1>1. /\ n \in Nat \ {0} /\ DOMAIN b = 1 .. n /\ DOMAIN t = 1 .. n - 1 /\ Len(t) = n - 1
      /\ \A i \in 1 .. n - 1 : t[i] = b[i + 1] /\ i + 1 \in 1 .. n
  BY TailIs
<1> HIDE DEF t, n
<1>2. ASSUME NEW i \in Nat, NEW j \in Nat, Silent(t, i, j) PROVE Silent(b, i + 1, j + 1)
  <2>1. SUFFICES ASSUME NEW k \in 1 .. n, i + 1 < k, k < j + 1 PROVE b[k].kind # "user"
    BY <1>1 DEF Silent
  <2>2. k - 1 \in 1 .. n - 1 /\ i < k - 1 /\ k - 1 < j /\ k - 1 + 1 = k
    BY <1>1, <2>1
  <2> QED
    BY <1>1, <1>2, <2>2 DEF Silent
<1>3. ASSUME NEW j \in Nat, Silent(t, 0, j), b[1].kind # "user" PROVE Silent(b, 0, j + 1)
  <2>1. Silent(b, 1, j + 1)
    BY <1>2, <1>3
  <2>2. SUFFICES ASSUME NEW k \in 1 .. n, k < j + 1 PROVE b[k].kind # "user"
    BY <1>1 DEF Silent
  <2>3. CASE k = 1
    BY <1>3, <2>3
  <2>4. CASE k # 1
    BY <1>1, <2>1, <2>2, <2>4 DEF Silent
  <2> QED
    BY <2>3, <2>4
<1>4. ASSUME NEW j \in 1 .. n - 1, t[j].kind = "token"
      PROVE  /\ Silent(t, 0, j) => t[j].user = now
             /\ \A i \in 1 .. j - 1 : t[i].kind = "user" /\ Silent(t, i, j) => t[j].user = t[i].user
  <2>1. j + 1 \in 1 .. n /\ t[j] = b[j + 1]
    BY <1>1
  <2>2. /\ Silent(b, 0, j + 1) => b[j + 1].user = from
        /\ \A i \in 1 .. j + 1 - 1 :
              b[i].kind = "user" /\ Silent(b, i, j + 1) => b[j + 1].user = b[i].user
    <3>1. j + 1 \in DOMAIN b /\ b[j + 1].kind = "token"
      BY <1>1, <1>4, <2>1
    <3> QED
      BY <3>1 DEF LeadsTo
  <2>3. ASSUME Silent(t, 0, j) PROVE t[j].user = now
    <3>1. CASE b[1].kind = "user"
      <4>1. Silent(b, 1, j + 1) /\ 1 \in 1 .. j + 1 - 1
        BY <1>2, <2>3
      <4> QED
        BY <2>1, <2>2, <3>1, <4>1
    <3>2. CASE b[1].kind # "user"
      BY <1>3, <2>1, <2>2, <2>3, <3>2
    <3> QED
      BY <3>1, <3>2
  <2>4. ASSUME NEW i \in 1 .. j - 1, t[i].kind = "user", Silent(t, i, j)
        PROVE  t[j].user = t[i].user
    <3>1. Silent(b, i + 1, j + 1) /\ i + 1 \in 1 .. j + 1 - 1
      BY <1>2, <2>4
    <3>2. t[i] = b[i + 1]
      BY <1>1
    <3> QED
      BY <2>1, <2>2, <2>4, <3>1, <3>2
  <2> QED
    BY <2>3, <2>4
<1>5. Silent(t, 0, n) => to = now
  <2>1. SUFFICES ASSUME Silent(t, 0, n) PROVE to = now
    OBVIOUS
  <2>2. CASE b[1].kind = "user"
    <3>1. Silent(b, 1, n + 1) /\ 1 \in DOMAIN b
      BY <1>1, <1>2, <2>1
    <3> QED
      BY <2>2, <3>1 DEF LeadsTo, n
  <2>3. CASE b[1].kind # "user"
    <3>1. Silent(b, 0, n + 1)
      BY <1>1, <1>3, <2>1, <2>3
    <3> QED
      BY <2>3, <3>1 DEF LeadsTo, n
  <2> QED
    BY <2>2, <2>3
<1>6. ASSUME NEW i \in 1 .. n - 1, t[i].kind = "user", Silent(t, i, n) PROVE to = t[i].user
  <2>1. Silent(b, i + 1, n + 1) /\ i + 1 \in DOMAIN b /\ t[i] = b[i + 1]
    BY <1>1, <1>2, <1>6
  <2> QED
    BY <1>6, <2>1 DEF LeadsTo, n
<1>7. Len(t) + 1 = n
  BY <1>1
<1> QED
  BY <1>1, <1>4, <1>5, <1>6, <1>7 DEF LeadsTo, t

\* The queue with a message at its end, place by place.
LEMMA AppendIs ==
    ASSUME NEW b \in Seq(Message), NEW m \in Message
    PROVE  /\ Len(b) \in Nat /\ DOMAIN b = 1 .. Len(b)
           /\ Append(b, m) \in Seq(Message) /\ Len(Append(b, m)) = Len(b) + 1
           /\ DOMAIN Append(b, m) = 1 .. Len(b) + 1
           /\ Append(b, m)[Len(b) + 1] = m
           /\ \A i \in 1 .. Len(b) : Append(b, m)[i] = b[i] /\ i \in 1 .. Len(b) + 1
<1>1. Len(b) \in Nat /\ DOMAIN b = 1 .. Len(b)
  BY LenProperties
<1>2. Append(b, m) \in Seq(Message) /\ Len(Append(b, m)) = Len(b) + 1
  OBVIOUS
<1>3. DOMAIN Append(b, m) = 1 .. Len(b) + 1
  BY <1>2, LenProperties
<1>4. /\ Append(b, m)[Len(b) + 1] = m
      /\ \A i \in 1 .. Len(b) : Append(b, m)[i] = b[i] /\ i \in 1 .. Len(b) + 1
  BY <1>1
<1> QED
  BY <1>1, <1>2, <1>3, <1>4

\* Auth adds a token of the account signed in, or a new sign-in.
LEMMA LeadsToAppend ==
    ASSUME NEW b \in Seq(Message), NEW m \in Message, NEW from, NEW to, NEW next,
           LeadsTo(b, from, to),
           \/ m.kind = "token" /\ m.user = to /\ next = to
           \/ m.kind = "user" /\ next = m.user
    PROVE  LeadsTo(Append(b, m), from, next)
<1> DEFINE a == Append(b, m)
           n == Len(b)
<1>1. /\ n \in Nat /\ DOMAIN b = 1 .. n /\ DOMAIN a = 1 .. n + 1 /\ Len(a) = n + 1
      /\ a[n + 1] = m
      /\ \A i \in 1 .. n : a[i] = b[i] /\ i \in 1 .. n + 1
  BY AppendIs
<1> HIDE DEF a
<1>2. /\ Silent(b, 0, n + 1) => to = from
      /\ \A i \in 1 .. n : b[i].kind = "user" /\ Silent(b, i, n + 1) => to = b[i].user
      /\ \A j \in 1 .. n : b[j].kind = "token" =>
            /\ Silent(b, 0, j) => b[j].user = from
            /\ \A i \in 1 .. j - 1 :
                  b[i].kind = "user" /\ Silent(b, i, j) => b[j].user = b[i].user
  BY <1>1 DEF LeadsTo
<1> HIDE DEF n
<1>3. ASSUME NEW i \in Nat, NEW j \in 1 .. n + 1, Silent(a, i, j) PROVE Silent(b, i, j)
  <2>1. SUFFICES ASSUME NEW k \in 1 .. n, i < k, k < j PROVE b[k].kind # "user"
    BY <1>1 DEF Silent
  <2> QED
    BY <1>1, <1>3, <2>1 DEF Silent
<1>4. ASSUME NEW j \in 1 .. n + 1, a[j].kind = "token"
      PROVE  /\ Silent(a, 0, j) => a[j].user = from
             /\ \A i \in 1 .. j - 1 : a[i].kind = "user" /\ Silent(a, i, j) => a[j].user = a[i].user
  <2>1. CASE j \in 1 .. n
    <3>1. a[j] = b[j] /\ (Silent(a, 0, j) => b[j].user = from)
      BY <1>1, <1>2, <1>3, <1>4, <2>1
    <3>2. ASSUME NEW i \in 1 .. j - 1, a[i].kind = "user", Silent(a, i, j)
          PROVE  a[j].user = a[i].user
      <4>1. i \in 1 .. n /\ a[i] = b[i] /\ Silent(b, i, j)
        BY <1>1, <1>3, <2>1, <3>2
      <4> QED
        BY <1>2, <1>4, <2>1, <3>1, <3>2, <4>1
    <3> QED
      BY <3>1, <3>2
  <2>2. CASE j = n + 1
    <3>1. a[j] = m /\ m.user = to
      BY <1>1, <1>4, <2>2
    <3>2. Silent(a, 0, j) => a[j].user = from
      BY <1>1, <1>2, <1>3, <2>2, <3>1
    <3>3. ASSUME NEW i \in 1 .. j - 1, a[i].kind = "user", Silent(a, i, j)
          PROVE  a[j].user = a[i].user
      <4>1. i \in 1 .. n /\ a[i] = b[i] /\ Silent(b, i, n + 1)
        BY <1>1, <1>3, <2>2, <3>3
      <4> QED
        BY <1>2, <3>1, <3>3, <4>1
    <3> QED
      BY <3>2, <3>3
  <2> QED
    BY <1>1, <2>1, <2>2
<1>5. Silent(a, 0, n + 2) => next = from
  <2>1. SUFFICES ASSUME Silent(a, 0, n + 2) PROVE next = from
    OBVIOUS
  <2>2. m.kind # "user"
    BY <1>1, <2>1 DEF Silent
  <2>3. Silent(b, 0, n + 1)
    BY <1>1, <2>1 DEF Silent
  <2> QED
    BY <1>2, <2>2, <2>3
<1>6. ASSUME NEW i \in 1 .. n + 1, a[i].kind = "user", Silent(a, i, n + 2)
      PROVE  next = a[i].user
  <2>1. CASE i = n + 1
    BY <1>1, <1>6, <2>1
  <2>2. CASE i # n + 1
    <3>1. i \in 1 .. n /\ a[i] = b[i]
      BY <1>1, <2>2
    <3>2. m.kind # "user"
      BY <1>1, <1>6, <3>1 DEF Silent
    <3>3. Silent(b, i, n + 1)
      BY <1>1, <1>6, <3>1 DEF Silent
    <3> QED
      BY <1>2, <1>6, <3>1, <3>2, <3>3
  <2> QED
    BY <2>1, <2>2
<1>7. Len(a) + 1 = n + 2
  BY <1>1
<1> QED
  BY <1>1, <1>4, <1>5, <1>6, <1>7 DEF LeadsTo, a

\* An empty queue leads an account to itself.
LEMMA LeadsToEmpty ==
    ASSUME NEW u
    PROVE  LeadsTo(<< >>, u, u)
  BY DEF LeadsTo

\* A request or token for the start of its stream at which the close counts are c.
For(c, r) == r.closes = c[r.stream]

IsTokenFor(c, m) == m.kind = "token" /\ For(c, m)

\* The requests R are for waiting streams W, and one that a sign-in has spoiled
\* (the counter is cnt) has that sign-in in the queue b.
AskedInOrder(b, R, cnt, c, W) ==
    \A r \in R :
       /\ r.closes <= c[r.stream]
       /\ For(c, r) => r.stream \in W
       /\ For(c, r) /\ r.counter # cnt => \E j \in DOMAIN b : b[j].kind = "user"
       /\ \A q \in R : For(c, r) /\ For(c, q) /\ r.stream = q.stream => r = q

\* So are the tokens in b, no two of them for one stream.
QueuedInOrder(b, c, W) ==
    \A i \in DOMAIN b : b[i].kind = "token" =>
       /\ b[i].closes <= c[b[i].stream]
       /\ For(c, b[i]) => b[i].stream \in W
       /\ For(c, b[i]) /\ b[i].result = "aborted" => \E j \in 1 .. i - 1 : b[j].kind = "user"
       /\ \A j \in DOMAIN b :
             For(c, b[i]) /\ IsTokenFor(c, b[j]) /\ b[i].stream = b[j].stream => i = j

\* A stream that has asked has no token yet.
Apart(b, R, c) ==
    \A i \in DOMAIN b, r \in R : IsTokenFor(c, b[i]) /\ For(c, r) => r.stream # b[i].stream

Clean(b, R, cnt, c, W) ==
    AskedInOrder(b, R, cnt, c, W) /\ QueuedInOrder(b, c, W) /\ Apart(b, R, c)

Counts == [Names -> Nat]

\* The streams in N ask for a token.
Asking(N, cnt, c) == {[stream |-> n, closes |-> c[n], counter |-> cnt] : n \in N}

\* Streams move on from c, W to d, V; those in N ask for a token, which they did not
\* wait for before.
LEMMA CleanMoves ==
    ASSUME NEW b \in Seq(Message), NEW R \in SUBSET Request, NEW cnt \in Nat,
           NEW c \in Counts, NEW W, Clean(b, R, cnt, c, W),
           NEW d \in Counts, NEW V,
           \A n \in Names : c[n] <= d[n] /\ (c[n] = d[n] /\ n \in W => n \in V),
           NEW N \in SUBSET Names,
           \A n \in N : n \in V /\ (c[n] # d[n] \/ n \notin W),
           NEW Q, Q \subseteq R \cup Asking(N, cnt, d)
    PROVE  Clean(b, Q, cnt, d, V)
<1> DEFINE A == Asking(N, cnt, d)
<1>1. /\ DOMAIN b = 1 .. Len(b)
      /\ \A i \in DOMAIN b : b[i].kind = "token" => b[i].stream \in Names /\ b[i].closes \in Nat
  <2>1. DOMAIN b = 1 .. Len(b)
    BY LenProperties
  <2>2. \A i \in DOMAIN b : b[i] \in Message
    BY <2>1, ElementOfSeq
  <2> QED
    BY <2>1, <2>2, MessageIs
<1>2. \A r \in R : r.stream \in Names /\ r.closes \in Nat
  BY DEF Request
<1>3. \A a \in A : a.stream \in N /\ a.closes = d[a.stream] /\ a.counter = cnt
  BY DEF Asking
<1>4. \A x, y \in A : x.stream = y.stream => x = y
  BY DEF Asking
<1> HIDE DEF A
<1>5. \A n \in Names : c[n] \in Nat /\ d[n] \in Nat
  BY DEF Counts
\* What is for a stream now was for it before, and the stream waits.
<1>6. ASSUME NEW r, r.stream \in Names, r.closes <= c[r.stream], r.closes \in Nat,
             For(d, r), For(c, r) => r.stream \in W
      PROVE  For(c, r) /\ r.stream \in V /\ r.stream \notin N
  <2>1. c[r.stream] <= d[r.stream] /\ c[r.stream] \in Nat /\ d[r.stream] \in Nat
    BY <1>5, <1>6
  <2>2. c[r.stream] = r.closes /\ c[r.stream] = d[r.stream]
    BY <1>6, <2>1 DEF For
  <2> QED
    BY <1>6, <2>2 DEF For
<1>7. ASSUME NEW r \in R
      PROVE  r.closes <= d[r.stream] /\ (For(d, r) => For(c, r) /\ r.stream \in V /\ r.stream \notin N)
  <2>1. r.closes <= c[r.stream] /\ (For(c, r) => r.stream \in W)
    BY DEF Clean, AskedInOrder
  <2>2. c[r.stream] <= d[r.stream] /\ c[r.stream] \in Nat /\ d[r.stream] \in Nat /\ r.closes \in Nat
    BY <1>2, <1>5
  <2> QED
    BY <1>2, <1>6, <2>1, <2>2
<1>8. ASSUME NEW i \in DOMAIN b, b[i].kind = "token"
      PROVE  /\ b[i].closes <= d[b[i].stream]
             /\ For(d, b[i]) => For(c, b[i]) /\ b[i].stream \in V /\ b[i].stream \notin N
  <2>1. b[i].closes <= c[b[i].stream] /\ (For(c, b[i]) => b[i].stream \in W)
    BY <1>8 DEF Clean, QueuedInOrder
  <2>2. /\ c[b[i].stream] <= d[b[i].stream] /\ c[b[i].stream] \in Nat /\ d[b[i].stream] \in Nat
        /\ b[i].closes \in Nat
    BY <1>1, <1>5, <1>8
  <2> QED
    BY <1>1, <1>6, <1>8, <2>1, <2>2
<1>9. AskedInOrder(b, Q, cnt, d, V)
  <2>1. ASSUME NEW r \in Q
        PROVE  /\ r.closes <= d[r.stream]
               /\ For(d, r) => r.stream \in V
               /\ For(d, r) /\ r.counter # cnt => \E j \in DOMAIN b : b[j].kind = "user"
    <3>1. CASE r \in R
      BY <1>7, <3>1 DEF Clean, AskedInOrder
    <3>2. CASE r \in A
      <4>1. r.stream \in Names /\ r.closes = d[r.stream] /\ r.counter = cnt /\ r.stream \in V
        BY <1>3, <3>2
      <4>2. d[r.stream] \in Nat
        BY <1>5, <4>1
      <4> QED
        BY <4>1, <4>2
    <3> QED
      BY <2>1, <3>1, <3>2 DEF A
  <2>2. ASSUME NEW r \in Q, NEW q \in Q, For(d, r), For(d, q), r.stream = q.stream
        PROVE  r = q
    <3>1. (r \in R \/ r \in A) /\ (q \in R \/ q \in A)
      BY DEF A
    <3>2. CASE r \in R /\ q \in R
      BY <1>7, <2>2, <3>2 DEF Clean, AskedInOrder
    <3>3. CASE r \in A /\ q \in A
      BY <1>4, <2>2, <3>3
    <3>4. CASE (r \in R /\ q \in A) \/ (r \in A /\ q \in R)
      BY <1>3, <1>7, <2>2, <3>4
    <3> QED
      BY <3>1, <3>2, <3>3, <3>4
  <2> QED
    BY <2>1, <2>2 DEF AskedInOrder
<1>10. QueuedInOrder(b, d, V)
  BY <1>8 DEF Clean, QueuedInOrder, IsTokenFor
<1>11. Apart(b, Q, d)
  <2>1. SUFFICES ASSUME NEW i \in DOMAIN b, NEW r \in Q, IsTokenFor(d, b[i]), For(d, r)
                 PROVE  r.stream # b[i].stream
    BY DEF Apart
  <2>2. For(c, b[i]) /\ b[i].stream \notin N /\ IsTokenFor(c, b[i])
    BY <1>8, <2>1 DEF IsTokenFor
  <2>3. CASE r \in R
    BY <1>7, <2>1, <2>2, <2>3 DEF Clean, Apart
  <2>4. CASE r \in A
    BY <1>3, <2>2, <2>4
  <2> QED
    BY <2>3, <2>4 DEF A
<1> QED
  BY <1>9, <1>10, <1>11 DEF Clean

\* A token leaves the front of the queue; its stream does not wait any more if the
\* token was for this start.
LEMMA CleanTail ==
    ASSUME NEW b \in Seq(Message), b # << >>, b[1].kind = "token",
           NEW R \in SUBSET Request, NEW cnt \in Nat,
           NEW c \in Counts, NEW W, Clean(b, R, cnt, c, W)
    PROVE  /\ For(c, b[1]) => b[1].stream \in W /\ b[1].result # "aborted"
           /\ Clean(Tail(b), R, cnt, c, IF For(c, b[1]) THEN W \ {b[1].stream} ELSE W)
<1> DEFINE t == Tail(b)
           n == Len(b)
           V == IF For(c, b[1]) THEN W \ {b[1].stream} ELSE W
<1>1. /\ n \in Nat \ {0} /\ 1 \in 1 .. n /\ DOMAIN b = 1 .. n /\ DOMAIN t = 1 .. n - 1
      /\ \A i \in 1 .. n - 1 : t[i] = b[i + 1] /\ i + 1 \in 1 .. n
  BY TailIs
<1> HIDE DEF t, n
<1>2. For(c, b[1]) => b[1].stream \in W /\ b[1].result # "aborted"
  <2>1. SUFFICES ASSUME For(c, b[1]) PROVE b[1].stream \in W /\ b[1].result # "aborted"
    OBVIOUS
  <2>2. /\ b[1].stream \in W
        /\ b[1].result = "aborted" => \E j \in 1 .. 1 - 1 : b[j].kind = "user"
    BY <1>1, <2>1 DEF Clean, QueuedInOrder
  <2> QED
    BY <2>2
<1>3. ASSUME NEW r \in R
      PROVE  /\ r.closes <= c[r.stream]
             /\ For(c, r) => r.stream \in V
             /\ For(c, r) /\ r.counter # cnt => \E j \in DOMAIN t : t[j].kind = "user"
             /\ \A q \in R : For(c, r) /\ For(c, q) /\ r.stream = q.stream => r = q
  <2>1. /\ r.closes <= c[r.stream] /\ (For(c, r) => r.stream \in W)
        /\ For(c, r) /\ r.counter # cnt => \E j \in DOMAIN b : b[j].kind = "user"
        /\ \A q \in R : For(c, r) /\ For(c, q) /\ r.stream = q.stream => r = q
    BY DEF Clean, AskedInOrder
  <2>2. For(c, r) /\ For(c, b[1]) => r.stream # b[1].stream
    BY <1>1 DEF Clean, Apart, IsTokenFor
  <2>3. ASSUME NEW j \in DOMAIN b, b[j].kind = "user" PROVE \E k \in DOMAIN t : t[k].kind = "user"
    <3>1. j # 1
      BY <2>3
    <3>2. j - 1 \in DOMAIN t /\ t[j - 1] = b[j - 1 + 1] /\ j - 1 + 1 = j
      BY <1>1, <3>1
    <3> QED
      BY <2>3, <3>2
  <2> QED
    BY <2>1, <2>2, <2>3
<1>4. ASSUME NEW i \in DOMAIN t, t[i].kind = "token"
      PROVE  /\ t[i].closes <= c[t[i].stream]
             /\ For(c, t[i]) => t[i].stream \in V
             /\ For(c, t[i]) /\ t[i].result = "aborted" => \E j \in 1 .. i - 1 : t[j].kind = "user"
             /\ \A j \in DOMAIN t :
                   For(c, t[i]) /\ IsTokenFor(c, t[j]) /\ t[i].stream = t[j].stream => i = j
  <2>1. i + 1 \in DOMAIN b /\ t[i] = b[i + 1] /\ i \in Nat /\ i + 1 # 1 /\ i \in 1 .. n - 1
    BY <1>1
  <2>2. /\ t[i].closes <= c[t[i].stream]
        /\ For(c, t[i]) => t[i].stream \in W
        /\ For(c, t[i]) /\ t[i].result = "aborted" => \E j \in 1 .. i + 1 - 1 : b[j].kind = "user"
        /\ \A j \in DOMAIN b :
              For(c, t[i]) /\ IsTokenFor(c, b[j]) /\ t[i].stream = b[j].stream => i + 1 = j
    BY <1>4, <2>1 DEF Clean, QueuedInOrder
  <2>3. For(c, t[i]) => t[i].stream \in V
    BY <1>1, <2>1, <2>2 DEF IsTokenFor
  <2>4. For(c, t[i]) /\ t[i].result = "aborted" => \E j \in 1 .. i - 1 : t[j].kind = "user"
    <3>1. SUFFICES ASSUME For(c, t[i]), t[i].result = "aborted"
                   PROVE  \E j \in 1 .. i - 1 : t[j].kind = "user"
      OBVIOUS
    <3>2. PICK j \in 1 .. i + 1 - 1 : b[j].kind = "user"
      BY <2>2, <3>1
    <3>3. j # 1
      BY <3>2
    <3>4. j - 1 \in 1 .. i - 1 /\ j - 1 \in 1 .. n - 1 /\ j - 1 + 1 = j
      BY <1>1, <2>1, <3>3
    <3>5. t[j - 1] = b[j]
      BY <1>1, <3>4
    <3> QED
      BY <3>2, <3>4, <3>5
  <2>5. ASSUME NEW j \in DOMAIN t, For(c, t[i]), IsTokenFor(c, t[j]), t[i].stream = t[j].stream
        PROVE  i = j
    <3>1. j + 1 \in DOMAIN b /\ t[j] = b[j + 1] /\ j \in Nat
      BY <1>1
    <3>2. i + 1 = j + 1
      BY <2>2, <2>5, <3>1
    <3> QED
      BY <2>1, <3>1, <3>2
  <2> QED
    BY <2>2, <2>3, <2>4, <2>5
<1>5. Apart(t, R, c)
  BY <1>1 DEF Clean, Apart
<1> QED
  BY <1>2, <1>3, <1>4, <1>5 DEF Clean, AskedInOrder, QueuedInOrder, t

\* The front of the queue is worked off while every stream that waits for a token is
\* closed: all requests and tokens are void then.
LEMMA CleanVoid ==
    ASSUME NEW b \in Seq(Message), b # << >>,
           NEW R \in SUBSET Request, NEW cnt \in Nat,
           NEW c \in Counts, NEW W, Clean(b, R, cnt, c, W),
           NEW d \in Counts,
           \A n \in Names : c[n] <= d[n] /\ (n \in W => c[n] < d[n])
    PROVE  Clean(Tail(b), R, cnt, d, {})
<1> DEFINE t == Tail(b)
           n == Len(b)
<1>1. /\ DOMAIN b = 1 .. n /\ DOMAIN t = 1 .. n - 1
      /\ \A i \in 1 .. n - 1 : t[i] = b[i + 1] /\ i + 1 \in 1 .. n
      /\ t \in Seq(Message)
  BY TailIs
<1>2. \A i \in DOMAIN t : t[i] \in Message
  BY <1>1, ElementOfSeq
<1> HIDE DEF t, n
<1>3. ASSUME NEW r, r.stream \in Names, r.closes \in Nat, r.closes <= c[r.stream],
             For(c, r) => r.stream \in W
      PROVE  r.closes <= d[r.stream] /\ ~For(d, r)
  <2>1. c[r.stream] <= d[r.stream] /\ c[r.stream] \in Nat /\ d[r.stream] \in Nat
    BY <1>3 DEF Counts
  <2> QED
    BY <1>3, <2>1 DEF For
<1>4. ASSUME NEW r \in R PROVE r.closes <= d[r.stream] /\ ~For(d, r)
  <2>1. r.stream \in Names /\ r.closes \in Nat
    BY DEF Request
  <2>2. r.closes <= c[r.stream] /\ (For(c, r) => r.stream \in W)
    BY DEF Clean, AskedInOrder
  <2> QED
    BY <1>3, <2>1, <2>2
<1>5. ASSUME NEW i \in DOMAIN t, t[i].kind = "token"
      PROVE  t[i].closes <= d[t[i].stream] /\ ~For(d, t[i])
  <2>1. t[i].stream \in Names /\ t[i].closes \in Nat
    BY <1>2, <1>5, MessageIs
  <2>2. i + 1 \in DOMAIN b /\ t[i] = b[i + 1]
    BY <1>1
  <2>3. t[i].closes <= c[t[i].stream] /\ (For(c, t[i]) => t[i].stream \in W)
    BY <1>5, <2>2 DEF Clean, QueuedInOrder
  <2> QED
    BY <1>3, <2>1, <2>3
<1> QED
  BY <1>4, <1>5 DEF Clean, AskedInOrder, QueuedInOrder, Apart, IsTokenFor, t

\* Auth answers the request a with the token m.
LEMMA CleanAnswer ==
    ASSUME NEW b \in Seq(Message), NEW R \in SUBSET Request, NEW cnt \in Nat,
           NEW c \in Counts, NEW W, Clean(b, R, cnt, c, W),
           NEW a \in R, NEW m \in Tokens, m.stream = a.stream, m.closes = a.closes,
           m.result = "aborted" => a.counter # cnt
    PROVE  Clean(Append(b, m), R \ {a}, cnt, c, W)
<1> DEFINE t == Append(b, m)
           n == Len(b)
<1>1. m \in Message /\ m.kind = "token"
  BY DEF Message, Tokens
<1>2. /\ n \in Nat /\ DOMAIN b = 1 .. n /\ DOMAIN t = 1 .. n + 1 /\ t[n + 1] = m
      /\ \A i \in 1 .. n : t[i] = b[i] /\ i \in 1 .. n + 1
  BY <1>1, AppendIs
<1> HIDE DEF t, n
<1>3. For(c, m) <=> For(c, a)
  BY DEF For
<1>4. AskedInOrder(t, R \ {a}, cnt, c, W)
  BY <1>2 DEF Clean, AskedInOrder
<1>5. ASSUME NEW i \in 1 .. n, b[i].kind = "token"
      PROVE  For(c, b[i]) /\ For(c, m) => b[i].stream # m.stream
  BY <1>2, <1>3, <1>5 DEF Clean, Apart, IsTokenFor
<1>6. ASSUME NEW i \in DOMAIN t, t[i].kind = "token"
      PROVE  /\ t[i].closes <= c[t[i].stream]
             /\ For(c, t[i]) => t[i].stream \in W
             /\ For(c, t[i]) /\ t[i].result = "aborted" => \E j \in 1 .. i - 1 : t[j].kind = "user"
             /\ \A j \in DOMAIN t :
                   For(c, t[i]) /\ IsTokenFor(c, t[j]) /\ t[i].stream = t[j].stream => i = j
  <2>1. CASE i \in 1 .. n
    <3>1. t[i] = b[i] /\ i \in DOMAIN b
      BY <1>2, <2>1
    <3>2. /\ t[i].closes <= c[t[i].stream]
          /\ For(c, t[i]) => t[i].stream \in W
          /\ For(c, t[i]) /\ t[i].result = "aborted" => \E j \in 1 .. i - 1 : b[j].kind = "user"
          /\ \A j \in DOMAIN b :
                For(c, t[i]) /\ IsTokenFor(c, b[j]) /\ t[i].stream = b[j].stream => i = j
      BY <1>6, <3>1 DEF Clean, QueuedInOrder
    <3>3. \A j \in 1 .. i - 1 : t[j] = b[j]
      BY <1>2, <2>1
    <3>4. ASSUME NEW j \in DOMAIN t, For(c, t[i]), IsTokenFor(c, t[j]), t[i].stream = t[j].stream
          PROVE  i = j
      <4>1. j \in 1 .. n \/ j = n + 1
        BY <1>2
      <4>2. CASE j \in 1 .. n
        BY <1>2, <3>2, <3>4, <4>2
      <4>3. CASE j = n + 1
        BY <1>2, <1>5, <1>6, <2>1, <3>1, <3>4, <4>3 DEF IsTokenFor
      <4> QED
        BY <4>1, <4>2, <4>3
    <3> QED
      BY <3>2, <3>3, <3>4
  <2>2. CASE i = n + 1
    <3>1. t[i] = m
      BY <1>2, <2>2
    <3>2. /\ a.closes <= c[a.stream]
          /\ For(c, a) => a.stream \in W
          /\ For(c, a) /\ a.counter # cnt => \E j \in DOMAIN b : b[j].kind = "user"
      BY DEF Clean, AskedInOrder
    <3>3. For(c, m) /\ m.result = "aborted" => \E j \in 1 .. i - 1 : t[j].kind = "user"
      <4>1. SUFFICES ASSUME For(c, m), m.result = "aborted"
                     PROVE  \E j \in 1 .. i - 1 : t[j].kind = "user"
        OBVIOUS
      <4>2. PICK j \in DOMAIN b : b[j].kind = "user"
        BY <1>3, <3>2, <4>1
      <4> QED
        BY <1>2, <2>2, <4>2
    <3>4. ASSUME NEW j \in DOMAIN t, For(c, m), IsTokenFor(c, t[j]), m.stream = t[j].stream
          PROVE  i = j
      <4>1. j \in 1 .. n \/ j = n + 1
        BY <1>2
      <4>2. ASSUME j \in 1 .. n PROVE FALSE
        BY <1>2, <1>5, <3>4, <4>2 DEF IsTokenFor
      <4> QED
        BY <2>2, <4>1, <4>2
    <3> QED
      BY <1>3, <3>1, <3>2, <3>3, <3>4
  <2> QED
    BY <1>2, <2>1, <2>2
<1>7. Apart(t, R \ {a}, c)
  <2>1. SUFFICES ASSUME NEW i \in DOMAIN t, NEW r \in R \ {a}, IsTokenFor(c, t[i]), For(c, r)
                 PROVE  r.stream # t[i].stream
    BY DEF Apart
  <2>2. CASE i \in 1 .. n
    BY <1>2, <2>1, <2>2 DEF Clean, Apart
  <2>3. CASE i = n + 1
    <3>1. t[i] = m /\ For(c, a)
      BY <1>2, <1>3, <2>1, <2>3 DEF IsTokenFor
    <3> QED
      BY <2>1, <3>1 DEF Clean, AskedInOrder
  <2> QED
    BY <1>2, <2>2, <2>3
<1> QED
  BY <1>4, <1>6, <1>7 DEF Clean, QueuedInOrder, t

\* A sign-in spoils every request, and is in the queue behind it.
LEMMA CleanSpoiled ==
    ASSUME NEW b \in Seq(Message), NEW R \in SUBSET Request, NEW cnt \in Nat, NEW new \in Nat,
           NEW c \in Counts, NEW W, Clean(b, R, cnt, c, W),
           NEW m \in SignIns
    PROVE  Clean(Append(b, m), R, new, c, W)
<1> DEFINE t == Append(b, m)
           n == Len(b)
<1>1. m \in Message /\ m.kind = "user"
  BY DEF Message, SignIns
<1>2. /\ n \in Nat /\ DOMAIN b = 1 .. n /\ DOMAIN t = 1 .. n + 1 /\ t[n + 1] = m
      /\ \A i \in 1 .. n : t[i] = b[i] /\ i \in 1 .. n + 1
  BY <1>1, AppendIs
<1> HIDE DEF t, n
<1>3. AskedInOrder(t, R, new, c, W)
  <2>1. n + 1 \in DOMAIN t /\ t[n + 1].kind = "user"
    BY <1>1, <1>2
  <2> QED
    BY <2>1 DEF Clean, AskedInOrder
<1>4. ASSUME NEW i \in DOMAIN t, t[i].kind = "token"
      PROVE  /\ t[i].closes <= c[t[i].stream]
             /\ For(c, t[i]) => t[i].stream \in W
             /\ For(c, t[i]) /\ t[i].result = "aborted" => \E j \in 1 .. i - 1 : t[j].kind = "user"
             /\ \A j \in DOMAIN t :
                   For(c, t[i]) /\ IsTokenFor(c, t[j]) /\ t[i].stream = t[j].stream => i = j
  <2>1. i \in 1 .. n /\ t[i] = b[i]
    BY <1>1, <1>2, <1>4
  <2>2. /\ t[i].closes <= c[t[i].stream]
        /\ For(c, t[i]) => t[i].stream \in W
        /\ For(c, t[i]) /\ t[i].result = "aborted" => \E j \in 1 .. i - 1 : b[j].kind = "user"
        /\ \A j \in DOMAIN b :
              For(c, t[i]) /\ IsTokenFor(c, b[j]) /\ t[i].stream = b[j].stream => i = j
    BY <1>2, <1>4, <2>1 DEF Clean, QueuedInOrder
  <2>3. \A j \in 1 .. i - 1 : t[j] = b[j]
    BY <1>2, <2>1
  <2>4. ASSUME NEW j \in DOMAIN t, IsTokenFor(c, t[j]) PROVE j \in DOMAIN b /\ t[j] = b[j]
    BY <1>1, <1>2, <2>4 DEF IsTokenFor
  <2> QED
    BY <2>2, <2>3, <2>4
<1>5. Apart(t, R, c)
  <2>1. ASSUME NEW j \in DOMAIN t, IsTokenFor(c, t[j]) PROVE j \in DOMAIN b /\ t[j] = b[j]
    BY <1>1, <1>2, <2>1 DEF IsTokenFor
  <2> QED
    BY <2>1 DEF Clean, Apart
<1> QED
  BY <1>3, <1>4, <1>5 DEF Clean, QueuedInOrder, t

\* An empty queue without requests is clean.
LEMMA CleanEmpty ==
    ASSUME NEW cnt, NEW c, NEW W
    PROVE  Clean(<< >>, {}, cnt, c, W)
  BY DEF Clean, AskedInOrder, QueuedInOrder, Apart

-----------------------------------------------------------------------------
(* What Auth and the worker queue know of the accounts *)

Closes == [n \in Names |-> StreamOf(n).closes]

Waiting == {n \in Names : StreamOf(n).state = "Starting"}

AuthTypes ==
    /\ authUser \in Users /\ counter \in Nat
    /\ requests \in SUBSET Request /\ inbox \in Seq(Message)
    /\ left \in [{"writes", "listens", "faults", "changes"} -> Nat]

AuthInv ==
    /\ AuthTypes
    /\ Clean(inbox, requests, counter, Closes, Waiting)
    /\ LeadsTo(inbox, storeUser, authUser)
    /\ StreamsOfUser

Inv == WatchInv /\ WriteInv /\ AuthInv

\* The streams as the tokens see them.
LEMMA StreamsAre ==
    ASSUME watch \in Streams, write \in Streams
    PROVE  /\ Closes \in Counts /\ Names = {"watch", "write"}
           /\ Closes["watch"] = watch.closes /\ Closes["write"] = write.closes
           /\ "watch" \in Waiting <=> watch.state = "Starting"
           /\ "write" \in Waiting <=> write.state = "Starting"
           /\ Waiting \in SUBSET Names
           /\ watch.closes \in Nat /\ write.closes \in Nat
<1>1. watch.closes \in Nat /\ write.closes \in Nat
  BY StreamFields
<1> QED
  BY <1>1 DEF Closes, Counts, Names, StreamOf, Waiting

\* The close counts and the waiting streams after a step, stream by stream.
LEMMA StreamsWillBe ==
    ASSUME watch' \in Streams, write' \in Streams
    PROVE  /\ Closes' \in Counts
           /\ Closes'["watch"] = watch'.closes /\ Closes'["write"] = write'.closes
           /\ "watch" \in Waiting' <=> watch'.state = "Starting"
           /\ "write" \in Waiting' <=> write'.state = "Starting"
           /\ watch'.closes \in Nat /\ write'.closes \in Nat
<1>1. watch'.closes \in Nat /\ write'.closes \in Nat
  BY StreamFields
<1> QED
  BY <1>1 DEF Closes, Counts, Names, StreamOf, Waiting

\* The streams that ask for a token in this step.
Askers == {n \in Names : AsksForToken(StreamOf(n), StreamOf(n)')}

\* A step adds no requests but those of the streams that begin to wait in it.
LEMMA RequestsAre ==
    ASSUME watch' \in Streams, write' \in Streams, NEW R, counter \in Nat,
           R \in SUBSET Request, RequestTokens(R) \/ requests' = R
    PROVE  requests' \subseteq R \cup Asking(Askers, counter, Closes') /\ requests' \in SUBSET Request
<1>1. /\ Closes'["watch"] = watch'.closes /\ Closes'["write"] = write'.closes
      /\ watch'.closes \in Nat /\ write'.closes \in Nat
  BY StreamsWillBe
<1>2. ASSUME NEW r \in requests', r \notin R
      PROVE  r \in Asking(Askers, counter, Closes') /\ r \in Request
  <2>1. \/ /\ AsksForToken(watch, watch')
           /\ r = [stream |-> "watch", closes |-> watch'.closes, counter |-> counter]
        \/ /\ AsksForToken(write, write')
           /\ r = [stream |-> "write", closes |-> write'.closes, counter |-> counter]
    BY <1>2 DEF RequestTokens
  <2>2. CASE /\ AsksForToken(watch, watch')
             /\ r = [stream |-> "watch", closes |-> watch'.closes, counter |-> counter]
    <3>1. "watch" \in Askers /\ "watch" \in Names
      BY <2>2 DEF Askers, Names, StreamOf
    <3> QED
      BY <1>1, <2>2, <3>1 DEF Asking, Request
  <2>3. CASE /\ AsksForToken(write, write')
             /\ r = [stream |-> "write", closes |-> write'.closes, counter |-> counter]
    <3>1. "write" \in Askers /\ "write" \in Names
      BY <2>3 DEF Askers, Names, StreamOf
    <3> QED
      BY <1>1, <2>3, <3>1 DEF Asking, Request
  <2> QED
    BY <2>1, <2>2, <2>3
<1> QED
  BY <1>2

\* A step of the streams keeps requests and tokens in order.
LEMMA CleanStep ==
    ASSUME watch \in Streams, write \in Streams, watch' \in Streams, write' \in Streams,
           Moves(watch, watch'), Moves(write, write'),
           NEW b \in Seq(Message), NEW R \in SUBSET Request, counter \in Nat,
           NEW W \in SUBSET Waiting, Clean(b, R, counter, Closes, W),
           RequestTokens(R) \/ requests' = R
    PROVE  Clean(b, requests', counter, Closes', Waiting') /\ requests' \in SUBSET Request
<1> DEFINE c == Closes
           d == Closes'
           V == Waiting'
           Q == requests'
           cnt == counter
           N == Askers
<1>1. c \in Counts /\ d \in Counts /\ cnt \in Nat
  BY StreamsAre, StreamsWillBe
<1>2. ASSUME NEW n \in Names PROVE c[n] <= d[n] /\ (c[n] = d[n] /\ n \in W => n \in V)
  <2>1. CASE n = "watch"
    BY <2>1, StreamsAre, StreamsWillBe DEF Moves
  <2>2. CASE n = "write"
    BY <2>2, StreamsAre, StreamsWillBe DEF Moves
  <2> QED
    BY <2>1, <2>2 DEF Names
<1>3. N \in SUBSET Names
  BY DEF Askers
<1>4. ASSUME NEW n \in N PROVE n \in V /\ (c[n] # d[n] \/ n \notin W)
  <2>1. AsksForToken(StreamOf(n), StreamOf(n)') /\ n \in Names
    BY DEF Askers
  <2>2. CASE n = "watch"
    BY <2>1, <2>2, StreamsAre, StreamsWillBe DEF AsksForToken, StreamOf
  <2>3. CASE n = "write"
    BY <2>1, <2>3, StreamsAre, StreamsWillBe DEF AsksForToken, StreamOf
  <2> QED
    BY <2>1, <2>2, <2>3 DEF Names
<1>5. Q \subseteq R \cup Asking(N, cnt, d) /\ Q \in SUBSET Request
  BY RequestsAre
<1>6. Clean(b, R, cnt, c, W)
  OBVIOUS
<1> HIDE DEF c, d, V, Q, cnt, N
<1>7. Clean(b, Q, cnt, d, V)
  BY <1>1, <1>2, <1>3, <1>4, <1>5, <1>6, CleanMoves
<1> QED
  BY <1>5, <1>7 DEF d, V, Q, cnt

\* New requests where everything before is void.
LEMMA CleanStart ==
    ASSUME watch' \in Streams, write' \in Streams,
           NEW b \in Seq(Message), NEW R \in SUBSET Request, NEW cnt \in Nat,
           Clean(b, R, cnt, Closes', {}),
           NEW N \in SUBSET Names, N \subseteq Waiting',
           requests' \subseteq R \cup Asking(N, cnt, Closes')
    PROVE  Clean(b, requests', cnt, Closes', Waiting')
<1> DEFINE d == Closes'
           V == Waiting'
           Q == requests'
           W == {}
<1>1. d \in Counts /\ Clean(b, R, cnt, d, W)
  BY StreamsWillBe
<1>2. Q \subseteq R \cup Asking(N, cnt, d)
  OBVIOUS
<1>3. \A n \in N : n \in V /\ (d[n] # d[n] \/ n \notin W)
  OBVIOUS
<1>4. \A n \in Names : d[n] <= d[n] /\ (d[n] = d[n] /\ n \in W => n \in V)
  <2>1. \A n \in Names : d[n] \in Nat
    BY <1>1 DEF Counts
  <2> QED
    BY <2>1
<1> HIDE DEF d, V, Q, W
<1>5. Clean(b, Q, cnt, d, V)
  BY <1>1, <1>2, <1>3, <1>4, CleanMoves
<1> QED
  BY <1>5 DEF d, V, Q

\* A stream that asks for a token waits for it.
LEMMA AskersWait ==
    ASSUME watch' \in Streams, write' \in Streams
    PROVE  Askers \in SUBSET Names /\ Askers \subseteq Waiting'
  BY StreamsWillBe DEF Askers, AsksForToken, StreamOf, Names

\* What the worker queue finds at its front.
LEMMA FrontIs ==
    ASSUME Inv
    PROVE  /\ authUser \in Users /\ HeadIsToken /\ HeadIsSignIn
           /\ inbox # << >> => Head(inbox) = inbox[1] /\ Head(inbox) \in Message
           /\ inbox # << >> /\ Head(inbox).kind = "token" =>
                 /\ For(Closes, Head(inbox)) <=> FreshToken(Head(inbox))
                 /\ Head(inbox).user = storeUser
                 /\ FreshToken(Head(inbox)) => Head(inbox).result # "aborted"
<1>1. /\ authUser \in Users /\ inbox \in Seq(Message) /\ counter \in Nat
      /\ requests \in SUBSET Request
      /\ watch \in Streams /\ write \in Streams
  BY DEF Inv, AuthInv, AuthTypes, WatchInv, WriteInv, WriteStreamInv
<1>2. CASE inbox = << >>
  BY <1>1, <1>2 DEF HeadIsToken, HeadIsSignIn
<1>3. CASE inbox # << >>
  <2> DEFINE m == Head(inbox)
  <2>1. m = inbox[1] /\ m \in Message /\ 1 \in DOMAIN inbox
    BY <1>1, <1>3, TailIs
  <2>2. HeadIsSignIn
    BY <2>1, MessageIs DEF HeadIsSignIn
  <2>3. CASE m.kind # "token"
    BY <1>1, <2>1, <2>2, <2>3 DEF HeadIsToken
  <2>4. CASE m.kind = "token"
    <3>1. m \in Tokens /\ m.stream \in Names
      BY <2>1, <2>4, MessageIs
    <3>2. For(Closes, m) <=> FreshToken(m)
      BY <3>1 DEF For, FreshToken, Closes
    <3>3. For(Closes, m) => m.stream \in Waiting /\ m.result # "aborted"
      <4> DEFINE c == Closes
                 W == Waiting
      <4>1. c \in Counts /\ Clean(inbox, requests, counter, c, W)
        BY <1>1, StreamsAre DEF Inv, AuthInv
      <4> HIDE DEF c, W
      <4>2. For(c, inbox[1]) => inbox[1].stream \in W /\ inbox[1].result # "aborted"
        BY <1>1, <1>3, <2>1, <2>4, <4>1, CleanTail
      <4> QED
        BY <2>1, <4>2 DEF c, W
    <3>4. m.user = storeUser
      <4>1. Silent(inbox, 0, 1)
        BY <1>1, <1>3, TailIs DEF Silent
      <4> QED
        BY <2>1, <2>4, <4>1 DEF Inv, AuthInv, LeadsTo
    <3>5. FreshToken(m) => StreamOf(m.stream).state = "Starting"
      BY <3>2, <3>3 DEF Waiting
    <3> QED
      BY <1>1, <2>1, <2>2, <3>1, <3>2, <3>3, <3>4, <3>5 DEF HeadIsToken
  <2> QED
    BY <2>3, <2>4
<1> QED
  BY <1>2, <1>3

\* The bounds are only spent.
LEMMA LeftStep ==
    ASSUME left \in [{"writes", "listens", "faults", "changes"} -> Nat], [Next]_vars
    PROVE  left' \in [{"writes", "listens", "faults", "changes"} -> Nat]
<1> DEFINE kinds == {"writes", "listens", "faults", "changes"}
<1>1. ASSUME NEW what \in kinds, Spend(what) PROVE left' \in [kinds -> Nat]
  <2>1. left[what] - 1 \in Nat
    BY <1>1 DEF Spend
  <2> QED
    BY <1>1, <2>1 DEF Spend
<1>2. \/ \E what \in kinds : Spend(what)
      \/ left' = left
  BY DEF Next, vars, SignIn, AuthAnswers, Listen, StopListening, TargetRejected, WatchAnswers,
         WatchIdle, WatchFails, OnlineTimeout, WriteMutations, HandshakeComplete,
         BackendApplies, MutationResult, WriteIdle, WriteFails,
         WriteRefused, BackoffEnds, ProcessToken, ProcessSignIn, DisableNetwork,
         EnableNetwork, Restart
<1> QED
  BY <1>1, <1>2

\* Streams that only move stay streams of the account in use.
LEMMA StreamsOfUserKept ==
    ASSUME StreamsOfUser, storeUser' = storeUser, Moves(watch, watch'), Moves(write, write')
    PROVE  StreamsOfUser'
  BY DEF StreamsOfUser, Moves

\* The following lemmas go through the steps that Auth and its queue see: each keeps
\* AuthInv.
LEMMA SignInStep ==
    ASSUME Inv, NEW u \in Users, SignIn(u), left' \in [{"writes", "listens", "faults", "changes"} -> Nat]
    PROVE  AuthInv'
<1> DEFINE m == [kind |-> "user", user |-> u]
<1>1. /\ authUser' = u /\ counter' = counter + 1 /\ inbox' = Append(inbox, m)
      /\ requests' = requests /\ watch' = watch /\ write' = write /\ storeUser' = storeUser
  BY DEF SignIn, netVars, watchVars, writeVars
<1>2. m \in SignIns /\ m \in Message /\ m.kind = "user" /\ m.user = u
  BY DEF SignIns, Message
<1> HIDE DEF m
<1>3. /\ inbox \in Seq(Message) /\ requests \in SUBSET Request /\ counter \in Nat
      /\ watch \in Streams /\ write \in Streams
      /\ LeadsTo(inbox, storeUser, authUser)
  BY DEF Inv, AuthInv, AuthTypes, WatchInv, WriteInv, WriteStreamInv
<1>4. AuthTypes'
  BY <1>1, <1>2, <1>3 DEF AuthTypes
<1>5. Clean(inbox, requests, counter, Closes, Waiting)'
  <2> DEFINE c == Closes
             W == Waiting
             new == counter + 1
  <2>1. c \in Counts /\ Clean(inbox, requests, counter, c, W) /\ new \in Nat
    BY <1>3, StreamsAre DEF Inv, AuthInv
  <2>2. Closes' = c /\ Waiting' = W
    BY <1>1 DEF Closes, Waiting, StreamOf
  <2> HIDE DEF c, W, new
  <2>3. Clean(Append(inbox, m), requests, new, c, W)
    BY <1>2, <1>3, <2>1, CleanSpoiled
  <2> QED
    BY <1>1, <2>2, <2>3 DEF new
<1>6. LeadsTo(inbox, storeUser, authUser)'
  BY <1>1, <1>2, <1>3, LeadsToAppend
<1>7. StreamsOfUser'
  BY <1>1 DEF Inv, AuthInv, StreamsOfUser
<1> QED
  BY <1>4, <1>5, <1>6, <1>7 DEF AuthInv

LEMMA AuthAnswersStep ==
    ASSUME Inv, NEW r \in requests, NEW result \in Results, AuthAnswers(r, result),
           left' \in [{"writes", "listens", "faults", "changes"} -> Nat]
    PROVE  AuthInv'
<1> DEFINE m == [kind |-> "token", stream |-> r.stream, closes |-> r.closes,
                 user |-> authUser, result |-> result]
<1>1. /\ authUser' = authUser /\ counter' = counter /\ inbox' = Append(inbox, m)
      /\ requests' = requests \ {r} /\ watch' = watch /\ write' = write
      /\ storeUser' = storeUser
      /\ result = "aborted" <=> r.counter # counter
  BY DEF AuthAnswers, netVars, authVars, watchVars, writeVars
<1>2. /\ inbox \in Seq(Message) /\ requests \in SUBSET Request /\ counter \in Nat
      /\ watch \in Streams /\ write \in Streams /\ authUser \in Users
      /\ LeadsTo(inbox, storeUser, authUser)
  BY DEF Inv, AuthInv, AuthTypes, WatchInv, WriteInv, WriteStreamInv
<1>3. r.stream \in Names /\ r.closes \in Nat
  BY <1>2 DEF Request
<1>4. /\ m \in Tokens /\ m \in Message /\ m.kind = "token" /\ m.user = authUser
      /\ m.stream = r.stream /\ m.closes = r.closes /\ m.result = result
  BY <1>2, <1>3 DEF Tokens, Message
<1> HIDE DEF m
<1>5. AuthTypes'
  BY <1>1, <1>2, <1>4 DEF AuthTypes
<1>6. Clean(inbox, requests, counter, Closes, Waiting)'
  <2> DEFINE c == Closes
             W == Waiting
             cnt == counter
  <2>1. c \in Counts /\ Clean(inbox, requests, cnt, c, W) /\ cnt \in Nat
    BY <1>2, StreamsAre DEF Inv, AuthInv
  <2>2. Closes' = c /\ Waiting' = W
    BY <1>1 DEF Closes, Waiting, StreamOf
  <2>3. m.result = "aborted" => r.counter # cnt
    BY <1>1, <1>4
  <2> HIDE DEF c, W, cnt
  <2>4. Clean(Append(inbox, m), requests \ {r}, cnt, c, W)
    BY <1>2, <1>4, <2>1, <2>3, CleanAnswer
  <2> QED
    BY <1>1, <2>2, <2>4 DEF cnt
<1>7. LeadsTo(inbox, storeUser, authUser)'
  BY <1>1, <1>2, <1>4, LeadsToAppend
<1>8. StreamsOfUser'
  BY <1>1 DEF Inv, AuthInv, StreamsOfUser
<1> QED
  BY <1>5, <1>6, <1>7, <1>8 DEF AuthInv

\* A token of u opens the stream s.
OpensFor(s, t, u) == t.closes = s.closes /\ IsOpen(t) /\ t.as = u

\* What processing a token does to the streams and the requests.
LEMMA TokenUse ==
    ASSUME Inv, ProcessToken
    PROVE  LET m == Head(inbox)
           IN  \/ /\ Moves(watch, watch') /\ Moves(write, write')
                  /\ RequestTokens(requests) \/ requests' = requests
               \/ /\ FreshToken(m) /\ m.stream = "watch" /\ requests' = requests
                  /\ OpensFor(watch, watch', m.user) /\ write' = write
               \/ /\ FreshToken(m) /\ m.stream = "write" /\ requests' = requests
                  /\ OpensFor(write, write', m.user) /\ watch' = watch
<1> DEFINE m == Head(inbox)
<1>1. /\ inbox # << >> /\ m.kind = "token" /\ enabled' = enabled /\ storeUser' = storeUser
      /\ written' = written /\ settled' = settled
  BY DEF ProcessToken
<1>2. HeadIsToken /\ m \in Tokens /\ m.user \in Users /\ m.stream \in Names
  BY <1>1, FrontIs, MessageIs
<1>3. /\ WatchInv /\ WriteInv /\ watch \in Streams /\ write \in Streams
      /\ Moves(watch, watch) /\ Moves(write, write)
  BY StreamFields DEF Inv, WatchInv, WriteInv, WriteStreamInv
<1>4. FreshToken(m) => StreamOf(m.stream).state = "Starting"
  BY <1>1, <1>2 DEF HeadIsToken
<1> HIDE DEF m
<1>5. CASE UNCHANGED <<requests, watchVars, writeVars, decided>>
  BY <1>3, <1>5 DEF watchVars, writeVars
<1>6. CASE /\ FreshToken(m) /\ m.stream = "watch" /\ m.result = "ok" /\ WatchOpens(m.user)
           /\ UNCHANGED writeVars /\ RequestTokens(requests)
  <2>1. watch.state = "Starting"
    BY <1>4, <1>6 DEF StreamOf
  <2>2. watch'.closes = watch.closes /\ IsOpen(watch)' /\ watch'.as = m.user
    BY <1>1, <1>2, <1>3, <1>6, <2>1, WatchOpensStep
  <2>3. write' = write
    BY <1>6 DEF writeVars
  <2>4. requests' = requests
    BY <1>6, <2>2, <2>3 DEF RequestTokens, AsksForToken, IsOpen
  <2> QED
    BY <1>6, <2>2, <2>3, <2>4 DEF OpensFor, m, IsOpen
<1>7. CASE /\ listens' = listens /\ WatchCloses(FALSE)
           /\ UNCHANGED writeVars /\ RequestTokens(requests)
  <2>1. Moves(watch, watch')
    BY <1>1, <1>3, <1>7, WatchClosesStep
  <2>2. write' = write
    BY <1>7 DEF writeVars
  <2> QED
    BY <1>3, <1>7, <2>1, <2>2
<1>8. CASE /\ FreshToken(m) /\ m.stream = "write" /\ m.result = "ok"
           /\ write' = Write(Opened(write, m.user))
           /\ UNCHANGED <<handshake, pipeline, wire, answers>> /\ decided' = decided
           /\ UNCHANGED watchVars /\ RequestTokens(requests)
  <2>1. write.state = "Starting"
    BY <1>4, <1>8 DEF StreamOf
  <2>2. UNCHANGED <<enabled, storeUser, handshake, pipeline, wire, answers, queueVars>>
    BY <1>1, <1>8 DEF queueVars
  <2>3. write'.closes = write.closes /\ IsOpen(write)' /\ write'.as = m.user
    BY <1>2, <1>3, <1>8, <2>1, <2>2, WriteOpensStep
  <2>4. watch' = watch
    BY <1>8 DEF watchVars
  <2>5. requests' = requests
    BY <1>8, <2>3, <2>4 DEF RequestTokens, AsksForToken, IsOpen
  <2> QED
    BY <1>8, <2>3, <2>4, <2>5 DEF OpensFor, m, IsOpen
<1>9. CASE /\ WriteCloses(FALSE)
           /\ UNCHANGED watchVars /\ RequestTokens(requests)
  <2>1. Moves(write, write')
    BY <1>1, <1>3, <1>9, WriteClosesStep
  <2>2. watch' = watch
    BY <1>9 DEF watchVars
  <2> QED
    BY <1>3, <1>9, <2>1, <2>2
<1> QED
  BY <1>5, <1>6, <1>7, <1>8, <1>9 DEF ProcessToken, m

LEMMA ProcessTokenStep ==
    ASSUME Inv, ProcessToken, WatchInv', WriteInv',
           left' \in [{"writes", "listens", "faults", "changes"} -> Nat]
    PROVE  AuthInv'
<1> DEFINE m == Head(inbox)
           b == Tail(inbox)
           W2 == IF For(Closes, inbox[1]) THEN Waiting \ {inbox[1].stream} ELSE Waiting
<1>1. /\ inbox # << >> /\ m.kind = "token" /\ inbox' = b
      /\ authUser' = authUser /\ counter' = counter /\ storeUser' = storeUser
  BY DEF ProcessToken, authVars
<1>2. /\ m = inbox[1] /\ m.user = storeUser /\ m.stream \in Names
      /\ For(Closes, m) <=> FreshToken(m)
  BY <1>1, FrontIs, MessageIs
<1>3. /\ inbox \in Seq(Message) /\ requests \in SUBSET Request /\ counter \in Nat
      /\ watch \in Streams /\ write \in Streams /\ authUser \in Users
      /\ LeadsTo(inbox, storeUser, authUser) /\ StreamsOfUser
      /\ watch' \in Streams /\ write' \in Streams
  BY DEF Inv, AuthInv, AuthTypes, WatchInv, WriteInv, WriteStreamInv
<1>4. b \in Seq(Message)
  BY <1>1, <1>3, TailIs
<1>5. Clean(b, requests, counter, Closes, W2) /\ W2 \in SUBSET Waiting
  <2> DEFINE c == Closes
             W == Waiting
             cnt == counter
             R == requests
  <2>1. c \in Counts /\ Clean(inbox, R, cnt, c, W) /\ cnt \in Nat /\ R \in SUBSET Request
    BY <1>3, StreamsAre DEF Inv, AuthInv
  <2>2. inbox[1].kind = "token"
    BY <1>1, <1>2
  <2> HIDE DEF c, W, cnt, R
  <2>3. Clean(Tail(inbox), R, cnt, c, IF For(c, inbox[1]) THEN W \ {inbox[1].stream} ELSE W)
    BY <1>1, <1>3, <2>1, <2>2, CleanTail
  <2> QED
    BY <2>3 DEF c, W, cnt, R
<1>6. LeadsTo(inbox, storeUser, authUser)'
  <2>1. LeadsTo(b, IF inbox[1].kind = "user" THEN inbox[1].user ELSE storeUser, authUser)
    BY <1>1, <1>3, LeadsToTail
  <2>2. inbox[1].kind # "user"
    BY <1>1, <1>2
  <2> HIDE DEF b
  <2> QED
    BY <1>1, <2>1, <2>2
<1> HIDE DEF m, b, W2
<1>7. CASE /\ Moves(watch, watch') /\ Moves(write, write')
           /\ RequestTokens(requests) \/ requests' = requests
  <2>1. Clean(b, requests', counter, Closes', Waiting') /\ requests' \in SUBSET Request
    BY <1>3, <1>4, <1>5, <1>7, CleanStep
  <2>2. StreamsOfUser'
    BY <1>1, <1>3, <1>7, StreamsOfUserKept
  <2> QED
    BY <1>1, <1>3, <1>4, <1>6, <2>1, <2>2 DEF AuthInv, AuthTypes
<1>8. CASE /\ FreshToken(m) /\ m.stream = "watch" /\ requests' = requests
           /\ OpensFor(watch, watch', m.user) /\ write' = write
  <2>1. W2 = Waiting \ {"watch"}
    BY <1>2, <1>8 DEF W2
  <2>2. Closes' = Closes
    BY <1>8 DEF Closes, StreamOf, OpensFor
  <2>3. Waiting' = Waiting \ {"watch"}
    BY <1>8 DEF Waiting, StreamOf, OpensFor, IsOpen, Names
  <2>4. Clean(inbox, requests, counter, Closes, Waiting)'
    BY <1>1, <1>5, <1>8, <2>1, <2>2, <2>3
  <2>5. StreamsOfUser'
    BY <1>1, <1>2, <1>3, <1>8 DEF StreamsOfUser, OpensFor, IsOpen
  <2> QED
    BY <1>1, <1>3, <1>4, <1>6, <1>8, <2>4, <2>5 DEF AuthInv, AuthTypes
<1>9. CASE /\ FreshToken(m) /\ m.stream = "write" /\ requests' = requests
           /\ OpensFor(write, write', m.user) /\ watch' = watch
  <2>1. W2 = Waiting \ {"write"}
    BY <1>2, <1>9 DEF W2
  <2>2. Closes' = Closes
    BY <1>9 DEF Closes, StreamOf, OpensFor
  <2>3. Waiting' = Waiting \ {"write"}
    BY <1>9 DEF Waiting, StreamOf, OpensFor, IsOpen, Names
  <2>4. Clean(inbox, requests, counter, Closes, Waiting)'
    BY <1>1, <1>5, <1>9, <2>1, <2>2, <2>3
  <2>5. StreamsOfUser'
    BY <1>1, <1>2, <1>3, <1>9 DEF StreamsOfUser, OpensFor, IsOpen
  <2> QED
    BY <1>1, <1>3, <1>4, <1>6, <1>9, <2>4, <2>5 DEF AuthInv, AuthTypes
<1> QED
  BY <1>7, <1>8, <1>9, TokenUse DEF m

LEMMA ProcessSignInStep ==
    ASSUME Inv, ProcessSignIn, WatchInv', WriteInv',
           left' \in [{"writes", "listens", "faults", "changes"} -> Nat]
    PROVE  AuthInv'
<1> DEFINE m == Head(inbox)
           b == Tail(inbox)
<1>1. /\ inbox # << >> /\ m.kind = "user" /\ inbox' = b /\ storeUser' = m.user
      /\ authUser' = authUser /\ counter' = counter /\ RequestTokens(requests)
      /\ enabled' = enabled /\ UNCHANGED <<written, settled>>
  BY DEF ProcessSignIn, authVars
<1>2. m = inbox[1] /\ m.user \in Users
  BY <1>1, FrontIs DEF HeadIsSignIn
<1>3. /\ inbox \in Seq(Message) /\ requests \in SUBSET Request /\ counter \in Nat
      /\ watch \in Streams /\ write \in Streams /\ authUser \in Users
      /\ LeadsTo(inbox, storeUser, authUser)
      /\ watch' \in Streams /\ write' \in Streams /\ enabled \in BOOLEAN
      /\ WatchInv /\ WriteInv
  BY DEF Inv, AuthInv, AuthTypes, WatchInv, WriteInv, WriteStreamInv
<1>4. b \in Seq(Message)
  BY <1>1, <1>3, TailIs
<1>5. LeadsTo(inbox, storeUser, authUser)'
  <2>1. LeadsTo(b, IF inbox[1].kind = "user" THEN inbox[1].user ELSE storeUser, authUser)
    BY <1>1, <1>3, LeadsToTail
  <2>2. inbox[1].kind = "user" /\ inbox[1].user = storeUser'
    BY <1>1, <1>2
  <2> HIDE DEF b
  <2> QED
    BY <1>1, <2>1, <2>2
<1>6. /\ Moves(watch, watch') /\ (IsStarted(watch) => watch.closes < watch'.closes)
      /\ Moves(write, write') /\ (IsStarted(write) => write.closes < write'.closes)
  <2>1. storeUser' \in Users /\ enabled' \in BOOLEAN
    BY <1>1, <1>2, <1>3
  <2>2. CASE enabled
    <3>1. /\ watched' = {} /\ answers' = << >> /\ listens' = listens
          /\ StartWatchIfNeeded(Stop(watch), UpdateState("Unknown"), UpdateState("Unknown"))
          /\ FillWritePipeline(Stop(write), FALSE, << >>, << >>, storeUser')
          /\ decided' = Forgotten(storeUser)
      BY <2>2 DEF ProcessSignIn
    <3>2. Moves(watch, watch') /\ (IsStarted(watch) => watch.closes < watch'.closes)
      BY <1>3, <2>1, <3>1, WatchRestartsStep
    <3>3. Moves(write, write') /\ (IsStarted(write) => write.closes < write'.closes)
      BY <1>1, <1>3, <2>1, <3>1, WriteRestartsStep
    <3> QED
      BY <3>2, <3>3
  <2>3. CASE ~enabled
    <3>1. watch' = watch /\ write' = write
      BY <2>3 DEF ProcessSignIn, writeVars
    <3>2. ~IsStarted(watch) /\ ~IsStarted(write)
      BY <1>3, <2>3 DEF WatchInv, WriteInv, WriteStreamInv
    <3> QED
      BY <1>3, <3>1, <3>2, StreamFields
  <2> QED
    BY <2>2, <2>3
<1> HIDE DEF m, b
<1>7. Clean(b, requests, counter, Closes', {})
  <2> DEFINE c == Closes
             d == Closes'
             W == Waiting
             cnt == counter
             R == requests
  <2>1. /\ c \in Counts /\ d \in Counts /\ Clean(inbox, R, cnt, c, W)
        /\ cnt \in Nat /\ R \in SUBSET Request
    BY <1>3, StreamsAre, StreamsWillBe DEF Inv, AuthInv
  <2>2. ASSUME NEW n \in Names PROVE c[n] <= d[n] /\ (n \in W => c[n] < d[n])
    <3>1. CASE n = "watch"
      BY <1>3, <1>6, <3>1, StreamsAre, StreamsWillBe, StreamFields DEF Moves
    <3>2. CASE n = "write"
      BY <1>3, <1>6, <3>2, StreamsAre, StreamsWillBe, StreamFields DEF Moves
    <3> QED
      BY <3>1, <3>2 DEF Names
  <2> HIDE DEF c, d, W, cnt, R
  <2>3. Clean(Tail(inbox), R, cnt, d, {})
    BY <1>1, <1>3, <2>1, <2>2, CleanVoid
  <2> QED
    BY <2>3 DEF R, cnt, d, b
<1>8. requests' \subseteq requests \cup Asking(Askers, counter, Closes') /\ requests' \in SUBSET Request
  BY <1>1, <1>3, RequestsAre
<1>9. Clean(b, requests', counter, Closes', Waiting')
  BY <1>3, <1>4, <1>7, <1>8, AskersWait, CleanStart
<1>10. StreamsOfUser'
  <2>1. ASSUME NEW s \in Streams, NEW t \in Streams, Moves(s, t),
               IsStarted(s) => s.closes < t.closes
        PROVE  ~IsOpen(t)
    <3>1. s.closes \in Nat /\ t.closes \in Nat /\ (IsOpen(s) => IsStarted(s))
      BY StreamFields
    <3> QED
      BY <2>1, <3>1 DEF Moves
  <2>2. ~IsOpen(watch') /\ ~IsOpen(write')
    BY <1>3, <1>6, <2>1
  <2> QED
    BY <2>2 DEF StreamsOfUser
<1> QED
  BY <1>1, <1>3, <1>4, <1>5, <1>8, <1>9, <1>10 DEF AuthInv, AuthTypes

LEMMA RestartStep ==
    ASSUME Inv, Restart, WatchInv', WriteInv',
           left' \in [{"writes", "listens", "faults", "changes"} -> Nat]
    PROVE  AuthInv'
<1> DEFINE s == NewStream(authUser)
           r == [stream |-> "write", closes |-> 0, counter |-> 0]
<1>1. /\ authUser' = authUser /\ counter' = 0 /\ inbox' = << >> /\ storeUser' = authUser
      /\ watch' = s
      /\ requests' = IF AsksForToken(s, write') THEN {r} ELSE {}
  BY DEF Restart
<1>2. authUser \in Users /\ watch' \in Streams /\ write' \in Streams
  BY DEF Inv, AuthInv, AuthTypes, WatchInv, WriteInv, WriteStreamInv
<1>3. /\ s \in Streams /\ Fits(s) /\ ~IsStarted(s) /\ s.closes = 0 /\ s.state = "Initial"
      /\ ~IsOpen(s)
  BY <1>2, NewStreamIs DEF IsOpen, IsStarted
<1>4. write' \in {s, Start(s)}
  BY <1>2, WriteNewStep DEF Inv
<1> HIDE DEF s
<1>5. write'.closes = 0 /\ ~IsOpen(write')
  BY <1>3, <1>4, StartIs
<1>6. requests' \in SUBSET Request
  BY <1>1 DEF Request, Names
<1>7. AuthTypes'
  BY <1>1, <1>2, <1>6 DEF AuthTypes
<1>8. Clean(inbox, requests, counter, Closes, Waiting)'
  <2> DEFINE N == {n \in {"write"} : AsksForToken(s, write')}
             b == << >>
             R == {}
             cnt == 0
  <2>1. b \in Seq(Message) /\ R \in SUBSET Request /\ cnt \in Nat /\ N \in SUBSET Names
    BY DEF Names
  <2>2. Clean(b, R, cnt, Closes', {})
    BY CleanEmpty
  <2>3. N \subseteq Waiting'
    BY <1>2, StreamsWillBe DEF AsksForToken
  <2>4. requests' \subseteq R \cup Asking(N, cnt, Closes')
    <3>1. Closes'["write"] = 0
      BY <1>2, <1>5, StreamsWillBe
    <3> QED
      BY <1>1, <3>1 DEF Asking
  <2> HIDE DEF b, R, cnt, N
  <2>5. Clean(b, requests', cnt, Closes', Waiting')
    BY <1>2, <2>1, <2>2, <2>3, <2>4, CleanStart
  <2> QED
    BY <1>1, <2>5 DEF b, cnt
<1>9. LeadsTo(inbox, storeUser, authUser)'
  BY <1>1, LeadsToEmpty
<1>10. StreamsOfUser'
  BY <1>1, <1>3, <1>5 DEF StreamsOfUser
<1> QED
  BY <1>7, <1>8, <1>9, <1>10 DEF AuthInv

\* Every other step only moves the streams.
LEMMA OtherStep ==
    ASSUME Inv, WatchInv', WriteInv', Moves(watch, watch'), Moves(write, write'),
           UNCHANGED <<authUser, counter, inbox, storeUser>>,
           RequestTokens(requests) \/ requests' = requests,
           left' \in [{"writes", "listens", "faults", "changes"} -> Nat]
    PROVE  AuthInv'
<1>1. /\ inbox \in Seq(Message) /\ requests \in SUBSET Request /\ counter \in Nat
      /\ watch \in Streams /\ write \in Streams /\ watch' \in Streams /\ write' \in Streams
      /\ AuthTypes /\ LeadsTo(inbox, storeUser, authUser) /\ StreamsOfUser
      /\ Clean(inbox, requests, counter, Closes, Waiting)
  BY DEF Inv, AuthInv, AuthTypes, WatchInv, WriteInv, WriteStreamInv
<1>2. Waiting \in SUBSET Waiting
  OBVIOUS
<1>3. Clean(inbox, requests', counter, Closes', Waiting') /\ requests' \in SUBSET Request
  BY <1>1, <1>2, CleanStep
<1>4. StreamsOfUser'
  BY <1>1, StreamsOfUserKept
<1> QED
  BY <1>1, <1>3, <1>4 DEF AuthInv, AuthTypes

LEMMA AuthInit == Init => AuthInv
<1> SUFFICES ASSUME Init PROVE AuthInv
  OBVIOUS
<1>1. /\ authUser \in Users /\ storeUser = authUser /\ counter = 0 /\ requests = {}
      /\ inbox = << >> /\ left = Bounds
      /\ watch = NewStream(authUser) /\ write = NewStream(authUser)
  BY DEF Init
<1>2. AuthTypes
  <2>1. left \in [{"writes", "listens", "faults", "changes"} -> Nat]
    BY <1>1, BoundsAssumption DEF Bounds
  <2> QED
    BY <1>1, <2>1 DEF AuthTypes
<1>3. StreamsOfUser
  BY <1>1, NewStreamIs DEF StreamsOfUser, IsOpen
<1> QED
  BY <1>1, <1>2, <1>3, CleanEmpty, LeadsToEmpty DEF AuthInv

LEMMA InvInit == Init => Inv
  BY WatchInit, WriteInit, AuthInit DEF Inv

\* Every step keeps the invariant and is a step of the write queue.
LEMMA InvStep == Inv /\ [Next]_vars => Inv' /\ QueueStep
<1> SUFFICES ASSUME Inv, [Next]_vars PROVE Inv' /\ QueueStep
  OBVIOUS
<1>1. authUser \in Users /\ HeadIsToken /\ HeadIsSignIn
  BY FrontIs
<1>2. WatchInv' /\ (Moves(watch, watch') \/ ProcessToken \/ Restart)
  BY <1>1, WatchStep DEF Inv
<1>3. WriteInv' /\ QueueStep /\ (Moves(write, write') \/ ProcessToken \/ Restart)
  BY <1>1, WriteStep DEF Inv
<1>4. left' \in [{"writes", "listens", "faults", "changes"} -> Nat]
  BY LeftStep DEF Inv, AuthInv, AuthTypes
<1>5. CASE ProcessToken
  BY <1>2, <1>3, <1>4, <1>5, ProcessTokenStep DEF Inv
<1>6. CASE Restart
  BY <1>2, <1>3, <1>4, <1>6, RestartStep DEF Inv
<1>7. CASE ProcessSignIn
  BY <1>2, <1>3, <1>4, <1>7, ProcessSignInStep DEF Inv
<1>8. CASE \E u \in Users : SignIn(u)
  BY <1>2, <1>3, <1>4, <1>8, SignInStep DEF Inv
<1>9. CASE \E r \in requests, result \in Results : AuthAnswers(r, result)
  BY <1>2, <1>3, <1>4, <1>9, AuthAnswersStep DEF Inv
<1>10. CASE /\ UNCHANGED <<authUser, counter, inbox, storeUser>>
            /\ RequestTokens(requests) \/ requests' = requests
            /\ ~ProcessToken /\ ~Restart
  BY <1>2, <1>3, <1>4, <1>10, OtherStep DEF Inv
<1>11. \/ ProcessToken \/ Restart \/ ProcessSignIn
       \/ \E u \in Users : SignIn(u)
       \/ \E r \in requests, result \in Results : AuthAnswers(r, result)
       \/ /\ UNCHANGED <<authUser, counter, inbox, storeUser>>
          /\ RequestTokens(requests) \/ requests' = requests
  <2> USE DEF netVars, authVars, tokenVars
  <2>1. CASE UNCHANGED vars
    BY <2>1 DEF vars
  <2>2. CASE \E q \in Targets : Listen(q) \/ StopListening(q) \/ TargetRejected(q)
    BY <2>2 DEF Listen, StopListening, TargetRejected
  <2>3. CASE WatchAnswers \/ WatchIdle \/ WatchFails \/ OnlineTimeout
    BY <2>3 DEF WatchAnswers, WatchIdle, WatchFails, OnlineTimeout
  <2>4. CASE WriteMutations \/ HandshakeComplete \/ BackendApplies \/ MutationResult
    BY <2>4 DEF WriteMutations, HandshakeComplete, BackendApplies, MutationResult
  <2>5. CASE WriteIdle \/ WriteFails \/ WriteRefused
    BY <2>5 DEF WriteIdle, WriteFails, WriteRefused
  <2>6. CASE \E name \in Names : BackoffEnds(name)
    BY <2>6 DEF BackoffEnds
  <2>7. CASE DisableNetwork \/ EnableNetwork
    BY <2>7 DEF DisableNetwork, EnableNetwork
  <2> QED
    BY <2>1, <2>2, <2>3, <2>4, <2>5, <2>6, <2>7 DEF Next
<1> QED
  BY <1>5, <1>6, <1>7, <1>8, <1>9, <1>10, <1>11

\* Whatever streams, accounts, timers and tokens do, and in whatever order: the watch
\* side, the write side and the queue between Auth and the streams stay as the
\* invariant says.
THEOREM InvCorrect == Spec => []Inv
<1>1. Inv /\ [Next]_vars => Inv'
  BY InvStep
<1> QED
  BY InvInit, <1>1, PTL DEF Spec

-----------------------------------------------------------------------------
(* The theorems *)

\* The state of the remote store is well typed, and the write pipeline never holds
\* more than kMaxPendingWrites batches.
THEOREM RemoteTypeCorrect == Spec => []RemoteTypeOK
<1>1. Inv => RemoteTypeOK
  <2> SUFFICES ASSUME Inv PROVE RemoteTypeOK
    OBVIOUS
  <2>1. Len(pipeline) = Due /\ Due <= Room(storeUser) /\ pipeline \in Seq(Batch) /\ Due \in Nat
    BY WriteFacts DEF Inv
  <2>2. Room(storeUser) \in Nat /\ Room(storeUser) <= MaxPendingWrites
    BY WriteFacts, RoomIs DEF Inv
  <2>3. Len(pipeline) <= MaxPendingWrites
    BY <2>1, <2>2, BoundsAssumption
  <2> QED
    BY <2>1, <2>3
       DEF Inv, RemoteTypeOK, WatchInv, WriteInv, QueueTypes, WriteStreamInv, PipelineInv,
           AuthInv, AuthTypes, Message
<1> QED
  BY InvCorrect, <1>1, PTL

\* No timer of the streams or of the online state outlives the state it was set for:
\* the assertions of the code hold.
THEOREM TimersCorrect == Spec => []TimersMatchState
<1>1. Inv => TimersMatchState
  BY DEF Inv, WatchInv, WriteInv, WriteStreamInv, TimersMatchState, Fits, Consistent
<1> QED
  BY InvCorrect, <1>1, PTL

\* A listener or a batch that needs a stream has one that is started.
THEOREM NeededCorrect == Spec => []NeededIsStarted
<1>1. Inv => NeededIsStarted
  BY DEF Inv, WatchInv, WriteInv, WriteStreamInv, NeededIsStarted
<1> QED
  BY InvCorrect, <1>1, PTL

\* The open watch stream has been asked for exactly what is listened to.
THEOREM WatchesCorrect == Spec => []WatchesWhatIsListened
<1>1. Inv => WatchesWhatIsListened
  BY DEF Inv, WatchInv
<1> QED
  BY InvCorrect, <1>1, PTL

\* The client counts as online only over an open watch stream.
THEOREM OnlineIsOpenCorrect == Spec => []OnlineIsOpen
<1>1. Inv => OnlineIsOpen
  BY DEF Inv, WatchInv
<1> QED
  BY InvCorrect, <1>1, PTL

\* A token that is still good finds its stream waiting for it, and is the only one.
THEOREM FreshTokensCorrect == Spec => []FreshTokens
<1>1. Inv => FreshTokens
  <2> SUFFICES ASSUME Inv PROVE FreshTokens
    OBVIOUS
  <2>1. /\ Clean(inbox, requests, counter, Closes, Waiting)
        /\ inbox \in Seq(Message) /\ requests \in SUBSET Request
    BY DEF Inv, AuthInv, AuthTypes
  <2>2. \A i \in DOMAIN inbox : inbox[i].kind = "token" => inbox[i].stream \in Names
    BY <2>1, LenProperties, ElementOfSeq, MessageIs
  <2>3. \A i \in DOMAIN inbox :
           inbox[i].kind = "token" /\ FreshToken(inbox[i]) => IsTokenFor(Closes, inbox[i])
    BY <2>2 DEF IsTokenFor, For, FreshToken, Closes
  <2>4. \A r \in requests : r.closes = StreamOf(r.stream).closes => For(Closes, r)
    BY <2>1 DEF For, Closes, Request
  <2>5. ASSUME NEW r \in requests, r.closes = StreamOf(r.stream).closes
        PROVE  StreamOf(r.stream).state = "Starting"
    BY <2>1, <2>4, <2>5 DEF Clean, AskedInOrder, Waiting
  <2>6. ASSUME NEW i \in DOMAIN inbox, inbox[i].kind = "token", FreshToken(inbox[i])
        PROVE  /\ StreamOf(inbox[i].stream).state = "Starting"
               /\ \A j \in DOMAIN inbox :
                     inbox[j].kind = "token" /\ FreshToken(inbox[j])
                        => (inbox[i].stream = inbox[j].stream => i = j)
               /\ \A r \in requests :
                     r.closes = StreamOf(r.stream).closes => r.stream # inbox[i].stream
    BY <2>1, <2>3, <2>4, <2>6 DEF Clean, QueuedInOrder, Apart, Waiting, IsTokenFor
  <2> QED
    BY <2>5, <2>6 DEF FreshTokens
<1> QED
  BY InvCorrect, <1>1, PTL

\* A request that failed because the account may have changed finds its stream gone.
THEOREM AbortedCorrect == Spec => []AbortedIsStale
<1>1. Inv => AbortedIsStale
  BY FrontIs DEF AbortedIsStale
<1> QED
  BY InvCorrect, <1>1, PTL

\* The pipeline is the front of the mutation queue in use, and what is answered and
\* what is on the wire are, in this order, what it holds.
THEOREM PipelineCorrect == Spec => []PipelineInStep
<1>1. Inv => PipelineInStep
  BY DEF Inv, WriteInv, PipelineInv, PipelineInStep, Due, Segment
<1> QED
  BY InvCorrect, <1>1, PTL

\* No stream is open under the token of another account than the one in use.
THEOREM StreamsOfUserCorrect == Spec => []StreamsOfUser
<1>1. Inv => StreamsOfUser
  BY DEF Inv, AuthInv
<1> QED
  BY InvCorrect, <1>1, PTL

\* The write path with its streams, tokens, restarts and changes of account implements
\* WriteQueue: whatever is lost and sent again, the backend applies batches in the order in
\* which they were written and never one that has left the queue, and a batch leaves the
\* queue as acknowledged only for a result of its own.
THEOREM QueueRefinement == Spec => ImplementsWriteQueue
<1>1. Init => Queue!Init
  BY WriteInit
<1>2. Inv /\ [Next]_vars => [Queue!Next]_<<written, decided, settled>>
  <2>1. QueueStep => [Queue!Next]_<<written, decided, settled>>
    BY DEF QueueStep
  <2> QED
    BY InvStep, <2>1
<1> QED
  BY InvCorrect, <1>1, <1>2, PTL DEF Spec, ImplementsWriteQueue, Queue!QueueSpec
=============================================================================
