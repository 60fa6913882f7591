# PetIT in TLA+

A verification project for **PetIT**, the iOS app under `src/PetIT/PetIT`, whose
users post pet-sitting jobs and book those of others. The app is a handful of view
controllers over Firebase (Auth, Firestore, Cloud Storage); it has no server code of
its own and no tests. What makes it hard is not any one handler but what lies between
them: closures that run seconds after the tap that created them, a Firestore SDK that
queues writes per account and survives a restart, four places that hold a user's data
and no transaction over any of them, and several phones doing this at once.

Paths below are relative to `src/PetIT/PetIT` unless they start with `src/`; `SDK/`
stands for `src/PetIT/Pods/FirebaseFirestore/Firestore`, the vendored Firestore 1.1.0.

## 1. Inventory

| Component | Code | State | Operations | Status |
|---|---|---|---|---|
| Posting and booking | `AddJobPostViewController`, `JobPostDetailViewController`, `DBService+JobPost`, `StorageService`, `JobPost` | the form, uploads in flight, photos, the copy of a post on the detail screen, what the user was told | press Post, upload ends or fails, `postJob`, open a post, owner loaded, press Book, answers to writes | modelled: `JobPosts` |
| Firestore SDK and backend | `SDK/Source/Core/FSTSyncEngine.mm`, `Local/FSTLocalStore.mm`, `Local/FSTLocalDocumentsView.mm`, `Model/FSTMutation.mm`, `core/.../remote_store.mm` | mutation queue per account, pipeline, answers on their way, cached documents, listeners, watch snapshots | write locally, commit, acknowledge, reject, stream breaks, snapshot, change of user, restart | partly: `Firestore` |
| Remote store of the SDK | `SDK/core/.../remote/`: `remote_store.mm`, `stream.mm`, `watch_stream.mm`, `write_stream.mm`, `online_state_tracker.cc`, `exponential_backoff.cc`; `auth/firebase_credentials_provider_apple.mm` | two streams with their timers and close counts, listen targets, pipeline, handshake, online state, token counter, requests to Auth | listen, stop, write, token, open, handshake, result, close, back off, idle, time out, change of account, network off and on, restart | partly: `RemoteStore` |
| Accounts and sessions | `AuthService`, `DBService+User`, `CreateAccountViewController`, `LoginViewController`, `AppDelegate`, `UIViewController+Navigation`, `+Alert` | account, Auth profile, `users` document, session, screen, alert, requests out | create account, sign in, sign out, launch, the answers | modelled: `AccountSession` |
| Profile and its editor | `ProfileViewController`, `EditOwnerProfileTableViewController`, `ProfileHeaderView`, `UserModel` | owner, editor, its Save button, saves in flight, photo, Auth profile, `users` document | fetch owner, Edit, pick and type, Save, Cancel, the answers | partly: `ProfileEdit` |
| Job list | `JobListViewController`, `PostCell` | listeners, `jobPosts`, rows, refresh control | fetch user, listen, snapshot, reload, pull to refresh, scroll, tap | partly: `JobFeed`; its start and end with the session in `AccountSession` |
| Job map | `JobPostMapViewController` | `jobPosts`, annotations with tags, location | snapshot, `setupAnnotations`, tap | partly: `JobFeed` |
| SDK listeners | `SDK/Source/Core/FSTEventManager.mm`, `Util/FSTAsyncQueryListener.mm` | listeners of a query, what they were told | listen, view changes, in sync or offline, error | partly: `JobFeed` |
| Add Job form | `AddJobPostViewController`, `AddLocationViewController`, `Constants` | text views and their placeholders, fields, picked location | typing, return, placeholder rules, location picker, field checks | partly: `PostForm` (after the checks: `JobPosts`) |
| Layout and helpers | `IBADesignableViews`, `TabBarViewController`, dates, storyboards | none that matters | – | not modelled |

**Interaction.** Screens call `AuthService`, `DBService` and `StorageService`
directly; answers come back as delegates (`AuthService`, held weakly, the last screen
to load wins) or as closures that hold their screen weakly. Screens hand each other
copies (`prepare(for:sender:)`). Everything shared between phones is a Firestore
document or a Storage object; everything shared between accounts on one phone is in
the SDK: one cache, one queue of writes per account.

**What is hard, and what must hold.**

* *Posting* is photo first, document second, with the account and the document id
  captured at the press. A stored post must belong to whoever pressed Post
  (`OwnerIsPoster`), must have its photo (`ImageBeforePost`), must be stored as a new
  document only while its own phone waits for an answer (`ImplementsJobBoard`), and
  "Job Posted" must be true (`PostedAlertTrue`).
* *Booking* announces "Job Booked" before it writes, from a copy that may be old, and
  ignores the result. The announced booking must not get lost in offline queues,
  account changes and restarts (`BookingKept`, `BookingResolved`); the status a user
  sees must not flicker back (`NoFlicker`).
* *Writes are delivered at least once.* What the backend applied and the phone has not
  heard of is sent again as new, and the writes of this app are unconditional: a repeated
  `setData` puts a booked job back to PENDING. How far that can go is in
  `ImplementsJobBoard`, `BookingKept`, `NoFlicker` and `ProfileWrittenOnce`.
* *The caches* of all phones must converge on the backend (`CacheAgrees`,
  `EveryPhoneSees`).
* *Creating an account* is three writes in two services. A user must not be let in
  without a document (`WelcomedHaveProfile`), nor be let in without a session
  (`TabsNeedSession`), nor have his document queued twice (`ProfileWrittenOnce`), which
  would wipe an edited profile.
* *Saving a profile* is three writes in three places, from a closure that outlives its
  screen and its session (`OwnProfile`, `PhotoStored`, `SavesAgree`).

* *Showing posts.* The list replaces its array in one block of the main queue and reloads
  its table in a later one. No snapshot may get lost between SDK and rows
  (`ShownOrOnItsWay`, `TableCatchesUp`), a tap before the reload must not open an older
  post than the row shows (`TapNeverOpensOlder`), no row may be looked up beyond the end
  (`RowsInRange`), and the refresh control must stop (`RefreshEnds`).
* *The two streams to the backend* are each a state machine with timers, closed and
  started again by errors, idleness, changes of account, refusals and the network, while
  the tokens they need are fetched on another thread. A late token must not open a later
  stream, nor one of another account (`FreshTokens`, `StreamsOfUser`, `AbortedIsStale`);
  results without names must be matched with the right batch (`PipelineInStep`,
  `ImplementsWriteQueue`); nothing that is needed may be left without a stream
  (`NeededIsStarted`, `WatchesWhatIsListened`, `WritesSettle`); timers must not outlive
  what they were set for (`TimersMatchState`); and the client must know whether it is
  online (`OnlineIsOpen`, `OnlineKnown`).
* *Filling in the form.* Placeholders are ordinary text (`RequiresDescriptions`).

`PROJECT.json` lists each hazard with its line.

## 2. Modules

```
JobBoard            what the shared list promises            (abstract)
   ^ implemented by
JobPosts            the app's screens and closures     <- JobPostsProofs <- CacheProofs
   | EXTENDS
Firestore           SDK queues, caches, backend
MCJobPosts          instances for TLC

WriteQueue          what the write path promises       (abstract)
   ^ implemented by
RemoteStore         streams, tokens, pipeline          <- RemoteStoreProofs
   | EXTENDS
StreamState, OnlineState    one stream; the online state
MCRemoteStore       instances

AccountSession      accounts, sessions, screens        <- AccountSessionProofs
MCAccountSession    instances

ProfileEdit         profile editor and its saves       <- ProfileEditProofs
MCProfileEdit       instances

JobFeed             snapshots to list and map, taps    <- JobFeedProofs
MCJobFeed           instance

PostForm            fields of the Add Job form
MCPostForm          instance

LeastNumbers        least and greatest elements of sets of numbers,
                    for CacheProofs and JobFeedProofs
```

### JobBoard
The README's promise (`src/README.md:7`): a post appears as pending until it is
booked. `board[p]` is a listing or nothing, `phase[p]` how far the one write that posts
under `p` has come: `unused`, `sent` (a phone sends it until it has an answer) and
`answered`. While it is `sent` the job appears and, if it was booked meanwhile, may be put
back to pending (`Reopen`); after that it can only be booked.

### Firestore
What the app relies on, and only that. `jobPost` is the backend's collection with a
version that grows with every write (the SDK's snapshot version). For each phone:
`uid` (the credential), `queue[d][u]` (the mutation queue of each account, on disk),
`acks[d][u]` (results on their way over the write stream in use), `cache` (remote
documents), `snapshot` (the watch change on its way) and `listening`. Actions are
`WriteMutation`, `Commit`, `Acknowledge`, `RejectWrite`, `StreamBreaks`, `SendSnapshot`,
`ApplySnapshot` and `CredentialChange`. `LoseAnswers` is part of everything that ends a
stream: what was answered and not read is sent again, and `Commit` applies it again,
since the handshake of the next stream carries no token by which the backend could know
it (`write_stream.mm:64-65`). A refusal ends the call as well: the front of the queue is
dropped, which is another write than the refused one if answers were lost
(`remote_store.mm:503`). A document is its owner, status, version and the SDK's flag
"has committed mutations"; the other fields of a post never change after `setData`.
What a screen shows is the cached document under the queued writes (`LocalStatus`,
`Visible`), as `FSTLocalDocumentsView` computes it.

### JobPosts
The app on top: `form`, `upload` (what became of each press of Post; the id of the
press is the document id it draws), `images`, `detail`, and what users were told:
`toldPosted`, `toldBooked`. Each handler is one action: `PostButtonPressed`,
`ImageStored`, `UploadFailed`, `DownloadURLFailed`, `PostJob`, `OpenDetail`,
`OwnerLoaded`, `BookJobButtonPressed`, `WriteSucceeded`, `WriteFailed`, `SignIn`,
`SignOut`, `Restart`, `Listen` (the job list, after `fetchUser` has found its user), and the
screens' own open and close. `SignOut` removes the last listener of the list, and leaves
others that the screens have added before; a restart leaves none. `live` marks closures whose
`[weak self]` still has a self; a form that goes away silences its queued completion
blocks. `Restart` loses uploads and completion blocks and keeps what the SDK has on
disk.

### WriteQueue
Per account three numbers: batches `written`, `decided` (how far the backend has come) and
`settled`, that is, gone from the device. Batches are applied in order; when a stream is
lost (`Forget`) the backend stands again where the device does, and applies once more what
had not left the queue, but never a batch that has. One leaves as acknowledged only if it
was applied over the stream that told of it; at the refusal of a batch the front leaves,
which is that batch unless results were lost.

### StreamState and OnlineState
Operators, one per method: the stream (or the tracker) that the method leaves behind.
A stream is its `state`, its close count (`closes`, by which `stream.mm:117` knows late
tokens), the account of its gRPC call and its two timers.

### RemoteStore
`RemoteStore` with both streams, the credentials provider and the backend. A step is one
operation of the SDK's worker queue, with everything it calls: `MutationResult`, for
instance, settles the batch and refills the pipeline, which may send, start the stream or
mark it idle (`FillWritePipeline`); `WatchCloses` and `WriteCloses` start the stream again
from inside the callback. Three things come from outside: `SignIn` and `AuthAnswers`, on
the thread of Auth, put their messages on the worker queue (`inbox`), and the backend
answers or ends a stream. Batches are an account and a number; `wire` and `answers` are
the two directions of the write stream. `ProcessSignIn` swaps the queue before the streams
start, as `FSTSyncEngine` does. `Restart` keeps `written`, `settled` and the account.
Where `Firestore` has a queue that delivers, this module has why it delivers: what it
proves of the write path is what `Firestore` assumes in `Commit`, `Acknowledge`,
`RejectWrite` and `LoseAnswers`.

### AccountSession
`screen` and `alert` per phone with UIKit's rule that a screen which presents
something presents nothing else; requests `create`, `login`, `naming` (commitChanges)
and `write` (the queued `setData` of the users document); `answer` (the backend has applied
it and the result is on its way), so that a document may be stored while its `setData` is
queued, restored after a restart, or sent again; `cached` (the users documents that the
phone has); `fetch` (the users whose document the job list has asked for and not yet got)
and `listener` of the job list. `fetchUser` is answered by the backend, or offline from
cache and queue, which may hold nothing: then its completion is never called. A request
may be answered after the screen, the session or the process has changed.

### ProfileEdit
`save[s]` is what became of the press `s` of Save; `photo`, `auth` and `users` say which
press the three places hold the values of. `naming` are Auth requests, which may
overtake each other; `updates[d][u]` is the `updateData` queue of the session that was
current when the upload ended, which need not be the session of the user who pressed
Save. `smooth` remembers the users none of whose saves overlapped or failed.

### JobFeed
The list and the map of one session over one query. `view` is what the SDK has for it
(`Visible` of `Firestore`, here any change that `Firestore` can make). `silent` and `loud`
count the listeners of each screen: a listener hears nothing of an empty view until that
is known to be true (`ready`). `main` is the main queue: callbacks in the order of the
view's changes, and the blocks that `didSet` and the callback put behind them (the reload
and `endRefreshing`, which are always neighbours, are one). Taps and scrolling
(`CellForRow`, `TapRow`, `TapPin`) come between any two blocks. `astray` remembers that a
tap, before or after a reload, opened an older post than the row or pin showed; `vanished`
that a post left the view, which happens when a `setData` is refused.

### PostForm
The text of the two text views as a user and the delegate methods leave it, the fields
and the photo (filled in or not), and the location picker with its `center`.

### Choices and abstractions
* One detail screen and one form per phone at a time, one snapshot in flight per phone
  (a newer one replaces it: the streams are ordered). Leaked listeners deliver the same
  snapshots and are not told apart.
* A phone is sent snapshots of the collection while it listens; the query has no user in
  it. Listening starts some time after a sign-in or never, as `fetchUser` may find nothing.
  Snapshots are of the whole collection; the profile's query for one's own posts brings
  nothing else.
* In `JobPosts` a user signs out before another signs in, as the screens force; a direct
  change of user (an answer to an old request) is in `AccountSession`.
* The change of credential in the SDK is atomic with the sign-in or sign-out.
* `JobPosts` presses Post with a form that passes the field checks, and does not keep
  alerts: no state depends on them. In `AccountSession` they matter and are kept.
* `AccountSession` has at most one create and one sign-in request out per address and
  phone, and at most `MaxOut` requests to Auth at a time. The answer of Auth and its
  callback are one step. The users documents of others, which the detail screens also
  fetch, are not in `cached`. A tab bar presented from a screen that has left the window may or may not
  appear; both are allowed.
* A crashed app does nothing until it is launched again; the Firestore queue waits.
* In `ProfileEdit`, an answer that dismisses while the image picker is up closes the
  picker, not the editor; both outcomes are allowed.
* In `JobFeed` a post is a number in the order of `createdDate`, and the map's order,
  by a comparison that is not a strict order, is any. The table is laid out with its
  reload. Names, photos and distances in cells are left out.
* In `RemoteStore` the main queue and the worker queue between Auth and the streams are
  one (`inbox`): what passes through both keeps its order. Delays are left out, a timer
  fires some time after it was set; so is the length of the backoff.
* Of the backend `RemoteStore` assumes: requests of a closed stream that it has not begun
  are abandoned, and it does not end a stream with status OK. It is not assumed to know a
  batch that is sent again. Permanent and other errors of a handshake or a token are one
  (`WriteFails`, `WriteCloses`): the stream token that a permanent one drops is never sent.
* `TargetRejected` does not keep rejections that cross a request to stop listening.
  `EnableNetwork` is the counterpart of a `DisableNetwork` before it, as the client calls
  them. `Shutdown` is left out, since nothing follows it.
* Cache garbage collection, limbo resolution, existence filters and transactions of the
  SDK do not touch what the app does (it never deletes, and its queries have no limits).

## 3. Runs

Every cfg gives each bound a name and value. `CHECK_DEADLOCK FALSE` is in all of them
since a phone with nothing left to do may stop: presses are finite in an instance.
Symmetry is used in safety runs only, over values that nothing distinguishes.

| Run | Instance | Shows |
|---|---|---|
| `two_phones` | 2 phones, 1 account each, both post, one books, 1 post, queues of 1, 1 loss of answers, fair | `ImplementsJobBoard`, `CacheAgrees`, `NoFlicker`, `TypeOK` under lost answers, restarts and sign-outs; every phone that goes on listening sees posts and bookings (`EveryPhoneSees`) |
| `shared_phone` | 1 phone, 2 accounts, 1 post, queues and pipeline of 2, 1 refusal, 1 loss of answers, fair | an upload that ends in another session writes for the right owner, with its photo (`Provenance`); what is announced is lost only to a refusal or a post that is stored again (`BookingKept`, `PostedAlertTrue`) and every press comes to an end (`BookingResolved`, `PostResolved`) |
| `watch_stream` | 2 queries, 3 calls of listen, 2 faults, 2 changes, fair | `TimersMatchState`, `NeededIsStarted`, `WatchesWhatIsListened`, `OnlineIsOpen`, `OnlineKnown` |
| `write_stream` | 2 accounts, 3 batches, pipeline of 2, 1 fault, 2 changes, fair | `ImplementsWriteQueue`, `PipelineInStep`, `FreshTokens`, `AbortedIsStale`, `StreamsOfUser`, `RemoteTypeOK`, `WritesSettle` |
| `account_one_phone` | 1 phone, 2 addresses, 2 requests out, fair | `WelcomedHaveProfile`, `TabsNeedSession`, `ProfileWrittenOnce`, `SessionTypeOK`, `CreateEnds`, `ListStarts` |
| `profile_two_phones` | 2 phones, 2 users, 2 saves, symmetry | `OwnProfile`, `PhotoStored`, `SavesAgree`, `ProfileTypeOK` |
| `job_feed` | 2 posts, any first view, 1 change, list asks twice, 1 failed `fetchUser`, 1 refused query, 4 blocks, fair | `ShownOrOnItsWay`, `TapNeverOpensOlder`, `RowsInRange`, `TableCatchesUp`, `RefreshEnds`, `FeedTypeOK` |
| `one_sitter`, `sign_out_crash`, `jobs_visible`, `requires_descriptions`, `unknown_forever` | smallest that do | violated; see section 5 |

The passing runs take between a few seconds and about two and a half minutes with two
workers. Distinct states: `two_phones` 81 thousand, `shared_phone` 110 thousand,
`watch_stream` 397 thousand, `write_stream` 178 thousand, `account_one_phone` 59 thousand,
`job_feed` 200 thousand, `profile_two_phones` 1.07 million after symmetry.

Runs are few and each has several questions, so that all of them, and the mutants of each
property, can be repeated after every change; where the state space forces a choice,
the safety properties have the smaller instance and a theorem, and the liveness
properties have the run.

**Why the bounds are enough.** Documents do not interact except through the order of
one queue, so one post shows the races between phones. A form posted twice needs two
ids; `Provenance` and the refinement are proved for any number of them. Two phones give every
race between a writer and an observer, and two accounts on a phone every race with a
change of session; for accounts, one phone with two addresses has the changes of session,
and that two phones create an address once is in `ProfileWrittenOnceCorrect`. A queue of
two holds a post and a booking of the same document, or two bookings. One loss of
answers (`MaxLosses`) loses all that is unread, up to two results; it is enough for a post
to be applied before and after a booking, and for a refusal to drop another write than the
refused one. In `two_phones` both phones post and the second books (`Posters`, `Sitters`),
so that the setData and the booking come from one phone or from two. In the account run
two requests may be out at once (`MaxOut`), which is what it takes for an answer of one
kind to come after one of the other.

In `write_stream` three batches go through a pipeline of two, so that it fills up and is
refilled, from the queues of two accounts between which two changes (sign-ins, restarts,
the network) go back and forth, with one fault at any point. No query is needed: the two
streams share nothing but the network switch, the account and the queue of tokens, and
none of these depends on whether the other stream is in use. `watch_stream` has no writes,
for the same reason, and three listens of two queries: one can be dropped and asked for
again while another stays. Two faults are a failure after a failure, which is what the
online state and the backoff distinguish (`MaxWatchStreamFailures` is 1 in the code, and
here). In `job_feed` the first view and one change give two different snapshots in the
queue at once, for two listeners of the list and one of the map; a view of two posts that
loses one gives a row beyond the end. For the safety properties that are also proved, the
bounds do not matter.

**Writes that are sent again.** The comment of the write stream says that its handshake
contains "whatever stream token is on hand" (`write_stream.h:91-92`); the code leaves it out
on purpose (`write_stream.mm:64-65`). A batch whose result was lost with its stream, by an
error, an idle timer, a sign-out or a restart, therefore reaches the backend as a new one.
`GrpcStream` adds to it, as it drops completed reads when an operation fails
(`grpc_stream.cc:216-247`, `306-317`). `Firestore` and `AccountSession` lose answers whenever
a stream ends, `RemoteStore` as often as its faults and changes allow. What follows for the
app: the `setData` of `postJob` puts a job that was booked meanwhile back to PENDING. No
property excludes it, and four say what is left: only by the job's own `setData` and only
until its phone has had the answer (`ImplementsJobBoard`), a booking is lost to that or to
a refusal and to nothing else (`BookingKept`), a phone takes the booking back only when
the backend has (`NoFlicker`), and the caches still agree (`CacheAgrees`). All four are
proved for any number of losses. Since a post turns from pending to booked and back one
version at a time, `Reopened` can be read off the document: pending, and not in its first
version. The `setData` of a users document likewise replaces a profile that was edited
before its result was read; `ProfileWrittenOnce` says that no other one does.

**Fairness.** Assumed only of what the SDK and the services schedule themselves, never
of a user. Write stream: weak fairness of `Deliver`, since `RemoteStore` retries with
backoff for as long as the session lasts, and `losses` are bounded. Watch: weak fairness of
sending or receiving a snapshot, and `EveryPhoneSees` is about phones whose session and
listener last: nothing makes a phone listen, a restart or a sign-out throws the snapshot
away, and the stream resumes from its token afterwards. Uploads: weak fairness, since Cloud
Storage ends an upload by success or by its retry time. Auth and `fetchUser` requests:
weak fairness per request; reading the result of the users document: *strong* fairness,
since a stream may break any number of times with the result unread. The main queue is served; the SDK finds out within its time
limit whether it is online, so a view becomes ready. In `RemoteStore`, `QueueRuns` says
that the worker queue runs what is on it, its timers fire and Auth answers every token
request; `Answers` adds that the backend answers what it was sent. Faults and changes
are bounded, so a network that breaks for ever is not among the runs; what holds if
the backend never answers is `unknown_forever`. `WritesSettle` and `OnlineKnown` are what
the fairness of `Deliver` in `JobPosts` and of `ViewReady` in `JobFeed` takes for granted.
A session that ends takes its
guarantee with it, so the liveness properties end in "or is left behind in the queue of
a session that ended" (`Stranded`).

## 4. Proofs

Checked by TLAPS for any phones, accounts, documents, saves and bounds, from the
assumptions on constants named in the modules: the null values are not ordinary ones,
limits are natural numbers, and the posts of `JobFeed` are finitely many natural numbers
(without an end, a newest-first list could not hold them). Every invariant, action
property and refinement of the passing runs is stated by a theorem.

| Theorem | Says | Needs |
|---|---|---|
| `JobPostsProofs!InductiveInvariant` | `[]IInv` | – |
| `TypeCorrect`, `ProvenanceCorrect`, `OwnerCorrect`, `ImageCorrect`, `PostedAlertCorrect` | `[]TypeOK`, `[]Provenance`, `[]OwnerIsPoster`, `[]ImageBeforePost`, `[]PostedAlertTrue` | `IInv` |
| `Refinement` | the app over the SDK implements `JobBoard` | `IInv` |
| `CacheProofs!TrailsCorrect`, `CacheAgreesCorrect` | `[]AllTrail`, `[]CacheAgrees` | `IInv` |
| `DatedCorrect` | `[]AllDated` | `IInv`, `AllTrail` |
| `BookingKeptCorrect` | `[]BookingKept` | these |
| `NoFlickerCorrect` | `NoFlicker` | these, `WatchGoesOn` |
| `RemoteStoreProofs!InvCorrect` | `[]Inv` | – |
| `RemoteTypeCorrect`, `TimersCorrect`, `NeededCorrect`, `WatchesCorrect`, `OnlineIsOpenCorrect` | `[]RemoteTypeOK`, `[]TimersMatchState`, `[]NeededIsStarted`, `[]WatchesWhatIsListened`, `[]OnlineIsOpen` | `Inv` |
| `FreshTokensCorrect`, `AbortedCorrect`, `StreamsOfUserCorrect` | `[]FreshTokens`, `[]AbortedIsStale`, `[]StreamsOfUser` | `Inv` |
| `PipelineCorrect`, `QueueRefinement` | `[]PipelineInStep`; the write path implements `WriteQueue` | `Inv` |
| `AccountSessionProofs!SessionTypeCorrect`, `TabsCorrect`, `WelcomedCorrect` | `[]SessionTypeOK`, `[]TabsNeedSession`, `[]WelcomedHaveProfile` | – |
| `CreatedOnceCorrect`, `ProfileWrittenOnceCorrect` | `[]CreatedOnce`, `[]ProfileWrittenOnce` | the second from the first |
| `ProfileEditProofs!ProfileInvariant` | `[]ProfileInv` | – |
| `ProfileTypeCorrect`, `OwnProfileCorrect`, `PhotoStoredCorrect` | its parts | `ProfileInv` |
| `SavesAgreeCorrect` | `[]SavesAgree` | `ProfileInv`, `InStep` |
| `JobFeedProofs!FeedTypeCorrect` | `[]FeedTypeOK`, with the list in order | – |
| `ShownCorrect` | `[]ShownOrOnItsWay` | `FeedTypeOK` |
| `TapsCorrect` | `[]TapNeverOpensOlder` | `FeedTypeOK`, `PinsMatch`, `Growing` |
| `RowsCorrect` | `[]RowsInRange` | `FeedTypeOK`, `PinsMatch`, `Growing`, `MapStops` |

**The argument for posts.** `OwnerIsPoster` relates a stored document to a press of Post that
may be three queues away. It is not inductive: the step that stores the document takes
it from a queue about which `OwnerIsPoster` says nothing. `Provenance` says it of every
place a post passes through: a queued set belongs to the press that drew the id, with its
account and its photo stored, and so does the stored document. `AnsweredIsApplied` ties
results to the backend (a write whose result is on its way was applied), which
`PostedAlertTrue` needs at the moment the alert is shown. `IInv` is their conjunction with
`TypeOK`.

The refinement needs no more than that, since the board says what the queues do: a `setData`
is applied while it is queued, hence while its `phase` is `sent` (`CommitStep`). The phase
of a post counts its `setData` over all queues of all phones; it goes up once, as the id is
drawn once (`SendStep`), and down when the write leaves its queue (`AnswerStep`).

**The argument for what a phone shows.** `CacheAgrees` compares a cache with the backend
of the moment. A cache changes in two places, `ApplySnapshot` and `WriteSucceeded`, and what
they put there was made earlier, of an older backend; so the invariant is about what is on
its way. `AllTrail` says that the cache, the snapshot in flight and every answer in `acks`
tell of a version that the backend has or has had: never a later one, and at the same
version the same status and owner. The one step that is not a copy is an acknowledged
update, which puts its own version on whatever document was cached; the status is then
the one the write leaves behind (`StatusBy`), which is why answers carry it.

More is known of the versions. A post has two states and a write that changes nothing leaves
its version alone, so pending posts have odd versions and booked ones even versions, in
all four places (`AllDated`), however often writes are applied. With it an announced
booking goes one way: queued, answered (the backend then has at least the second version,
lemma `AnsweredIsBooked`), and from there on the post is booked or `Reopened`; or it was
dropped for a refusal. That is `BookingKept`.

`NoFlicker` is about what a screen computes: the cached document under the last of the
queued writes to it. Lemma `ShowsBookedWhen` says it without `CHOOSE`: either no queued
write touches the post and the cache says booked, or the last one that does is a booking
and there is a document to book. A step takes the front of the queue, appends to its back
or changes the cache. If the front goes, acknowledged, the cache takes over what it said
(`StillShownWithoutFront`); what is appended to it for a post that is
shown is a booking, since the set was queued before (`ShownIsPosted`); and a cache that says booked goes on saying it
(`BookedStaysCached`), unless what it says is a later, reopened version. The last rests on the version guard, and where the guard does not
hold on `WatchGoesOn`: while a document has no committed mutation of its own, the snapshot
on its way is not older than the cache.

**The argument for the remote store.** `Inv` has three parts that hardly see each other.
`WatchInv` ties the watch stream to what is listened to, to what it was asked for and to the
online state. `WriteInv` ties the write stream to its pipeline, the pipeline to a
segment of the queue, and what is on its way to the pipeline; with it every step of the
module is a step of `WriteQueue` (`QueueStep`). Two facts in it are needed and not
obvious: a write stream that waits for its handshake has something to send
(`HandshakeFirst`; else it could sit open and never become idle), and what is answered has
been decided (`DecidedInOrder`). `FillWritePipeline` is proved once (lemma `Fill`), for any
stream, pipeline and account, and cited by the steps that fill it.

`AuthInv` is about what Auth and the worker queue know of the accounts. `StreamsOfUser` is not
inductive: the token that opens a stream was made on another thread, for whoever was signed
in then. `LeadsTo(inbox, storeUser, authUser)` says that the sign-ins in `inbox`, worked
off in order, bring `storeUser` to the account of each token by the time the token is at
the front. `Clean(inbox, requests, counter, Closes, Waiting)` says that each stream that
waits has at most one request or token of its current start, older ones are void, and
a sign-in that spoiled one is in front of it: when that sign-in is processed, the stream
is stopped, and the token becomes void. Both are operators of the queue and not of the state, so
that what appending and removing a message does to them is proved about sequences. Of
what the streams do in between, `AuthInv` needs only that they `Move`: a stream does not
open by itself, its close count does not fall, and it does not stop waiting for its token
unless the count grows.

**The argument for accounts.** `setData` replaces the whole users document. That it is queued
once rests on Auth creating an address once: `CreatedOnce` extends `ProfileWrittenOnce`
back to the answer of Auth that will queue the write, and says that until then nothing
is stored; from then on the document may be stored and queued at the same time.
`WelcomedCorrect` needs that `answer` is only ever of a write that was applied for the
session in use.

**The argument for profiles.** Every step that puts something into one of the three places
takes it from a press that captured its user. `ProfileInv` adds to the properties that
the requests on their way (`naming`, `updates`) are of saves whose photo is stored and
whose user stays fixed.

`SavesAgree` says nothing while a save is on its way, and all that makes it true happens
then. `InStep` says how far each save of a smooth user has got: no two are on their way,
the places agree when there is none, and at each stage of one it is known which places
have its values (`Reached`). A step of one user's save leaves the others `Undisturbed`.

**The argument for the list and the map.** The main queue is a sequence that grows at its
end and is worked off at its front. Each step of `JobFeed` is of one of three kinds (lemma
`FeedStepKinds`): it `Arrives` (blocks are put at the end, those for the list with the
view of now), `Takes` the first block, or touches neither queue nor list. That the last
snapshot in the queue is of the view (`OnItsWay`) is then proved once about sequences
(`PutKeeps`, `TakenKeeps`, `TakenByList`), and so is that the list, the snapshots in their
order and the view have more and more posts (`Rising`), as long as none vanishes. Two or
more snapshots of different views may be queued; `Rising` is needed since the rows,
which are behind the list, must not be more than it holds at any time (`Growing`). "More
posts" is `NoOlder`: at each place of the shorter list the longer one has a post that is at
least as late. That a view which has gained posts is sorted into such a list is
`MorePostsNoOlder`, by counting: the posts up to a place of the old list are all in the new
one, at least as late as its last, and cannot all be before that place. `Growing` says it
of rows and list, and `TapNeverOpensOlder` follows from it for the list, and from
`PinsMatch` (a pin's tag finds the entry it shows in `mapPosts`) for the map.

`ListOf` chooses a sequence in order, and about it nothing is known until one exists.
`CanBeSorted` proves that for any finite set of posts, without induction over data: a set
that cannot be put in order has a smallest such subset (`LeastNumber`), and that subset
without its oldest post can. `GreatestIndex` likewise finds the last write to a post in a
queue.

**Checked before they were proved.** TLC found the strengthened invariants true on the
instances of the runs: those of `CacheProofs` on `shared_phone` and `two_phones`, `InStep` on
`profile_two_phones`, and `PinsMatch`, `Growing` and `MapStops` on `job_feed`.

**Only model-checked:** liveness, since TLAPS does not reason about fairness or `ENABLED`:
`EveryPhoneSees`, `BookingResolved`, `PostResolved`, `CreateEnds`, `ListStarts`,
`TableCatchesUp`, `RefreshEnds`, `OnlineKnown`, `WritesSettle`; and the five runs of section
5, which are counterexamples. `PostForm` has no property that holds and is worth a proof
(see the plan).

## 5. What the code does not keep

Each is a run that TLC ends with a counterexample.

* `one_sitter`: Two accounts are told "Job Booked" for one job.
  `bookJobButtonPressed` writes BOOKED unconditionally, from a copy, and no `sitterId`
  is ever stored. The README says the job is pending "until a sitter books the job".
  (Nor does anything keep the owner from booking his own job.)
* `sign_out_crash`: `didSignOut` uses `listener`, declared non-optional, which is nil until
  `fetchUser` has answered.
* `jobs_visible`: a user whose account was made but whose users document never was, since
  the app was killed before the answer of Auth or since the write was refused, sees an
  empty list for ever: `fetchUser` does not call its completion when nothing matches. An
  offline phone that has never held the document waits in the same way.
* `requires_descriptions`: a job is posted with "Set Tasks..." and "Tell me about your
  pets..." as its descriptions. These are texts of the storyboard, not placeholders of the
  text views, and Post only checks that they are not empty; so is "Blog text...", which a
  return in an empty view puts there. The README requires "a job description, a pet
  description".

* `unknown_forever`: A query is removed and another added while the watch stream waits for
  its token: `StopListening` has cleared the timer of the online state and the stream, being
  started already, does not set it again. If the backend then says nothing, the client
  waits for ever, and with it the first snapshot of every listener on an empty cache.
  A comment of the tracker says that it goes Offline "rather than waiting indefinitely"
  (`online_state_tracker.cc:44`).

`RemoteStore` has more that no line of the documentation forbids. `Stop` of a stream in
`Error` leaves it there, although the diagram in `stream.h` has an arrow to `Initial`; it only
backs off once more. A target that the backend rejects, being the last, leaves the watch
stream open without an idle timer. The comment at `write_stream.h:91-92` and the handshake
without a token at `write_stream.mm:64-65` contradict each other; the second is intended,
as its own comment says, and section 3 says what it means for the app.

The other models contain more steps of this kind that no line of the documentation speaks of:
the editor opened on a nil `owner` (`WillEditProfile`), Save that disables itself before
it checks the fields (`SaveIncomplete`), the map that stops on an empty snapshot
(`MapSnapshot`), a row looked up beyond the end after a post vanished (`CellForRow`,
`TapRow`), a tap that opens a later post than the row shows while the reload waits, a login
view for a user who is still signed in after `signOut` has thrown (`SignOutAccount`), two
saves of a profile that overtake each other, and a refresh control that spins on after a failed `fetchUser` (`FetchFails`).

## 6. Plan

1. *Done:* `JobBoard`, `Firestore`, `JobPosts` with the refinement; `AccountSession`;
   `ProfileEdit`; `StreamState`, `OnlineState`, `RemoteStore`, `WriteQueue` with the
   refinement; `JobFeed` and `PostForm`; the proofs of all invariants, action properties
   and refinements that the runs check.
2. The aggregation of watch changes into snapshots (`watch_change.mm`): target ids,
   pending responses and existence filters, between `RemoteStore` and the `SendSnapshot` of
   `Firestore`.
3. `JobFeed` against an abstract specification of a table that follows a view, with the
   refinement; the profile's own list of posts, which listens the same way.
4. `PostForm` composed with the press of Post of `JobPosts`: that a stored post says what
   the form showed at the press, whatever is typed during the upload.
5. Proofs: that `Firestore`'s pipeline is what `WriteQueue` promises, so that `RemoteStore`
   and `JobPosts` meet in a theorem; the refinement of item 3.

**Not modelled, and not planned.** Layout, image resizing, date formatting, the keyboard's
shift of two text fields, colours; names and photos in reused cells (nothing keeps a late
answer from a cell that has been reused, so no property of them holds); code without
callers (`deleteJobPost`, `confirmDeletionActionSheet`, `generateDocumentId`,
`formatISODateString`). Most of the files under `src/` are vendored libraries: BoringSSL,
gRPC, LevelDB, Protobuf, nanopb, Kingfisher and others. They are not this program's
logic, and the share of lines that the map covers is small for that reason; of the pods,
only the part of Firestore on which the app's promises rest is modelled.

## 7. Running

    tlc -config two_phones.cfg MCJobPosts.tla
    tlc -config account_one_phone.cfg MCAccountSession.tla
    tlc -config profile_two_phones.cfg MCProfileEdit.tla
    tlc -config write_stream.cfg MCRemoteStore.tla
    tlapm CacheProofs.tla
    tlapm JobFeedProofs.tla
    tlapm JobPostsProofs.tla
    tlapm RemoteStoreProofs.tla

Each property of a passing run has a mutant beside the definition it changes ("Mutant
of ..."): a form of the handler with a plausible slip, under which TLC refutes the
property. No specification uses them.
