----------------------------- MODULE Firestore -----------------------------
(***************************************************************************)
(* The `jobPost` collection as the app sees it through the Firestore SDK   *)
(* pinned in its Podfile (FirebaseFirestore 1.1, persistence on, which is  *)
(* the default): one backend, and on every device a remote-document cache, *)
(* one persistent mutation queue per signed-in user, a write stream and a  *)
(* watch stream.                                                           *)
(*                                                                         *)
(* The module holds the steps of the SDK and of the backend; JobPosts      *)
(* composes them with the screens that issue the writes.  The app makes    *)
(* two kinds of write: setData of a whole new post (DBService.postJob) and *)
(* updateData of its status (bookJobButtonPressed).                        *)
(***************************************************************************)
EXTENDS Naturals, Sequences

CONSTANTS Devices,           \* phones running the app
          Users,             \* accounts
          Posts,             \* document ids of the collection
          NoUser,            \* nobody signed in: Auth.auth().currentUser is nil
          NoDoc,             \* no document under an id
          NoSnapshot,        \* no watch snapshot on its way to a device
          MaxPendingWrites,  \* kMaxPendingWrites: writes sent and not answered
          MaxLosses          \* bound: times that unread answers are lost

VARIABLES jobPost,      \* backend: the documents of the collection
          uid,          \* uid[d]: the user of device d's Firebase session
          queue,        \* queue[d][u]: mutation batches not acknowledged yet
          acks,         \* acks[d][u]: commit versions of the prefix of queue[d][u]
                        \* that the backend applied and d has not processed
          cache,        \* cache[d]: the remote-document cache
          snapshot,     \* snapshot[d]: watch snapshot in flight to d
          listening,    \* the devices with a listener on the collection
          losses        \* times that answers were lost with their stream

ASSUME ConstantsAssumption ==
    /\ NoUser \notin Users
    /\ MaxPendingWrites \in Nat \ {0}
    /\ MaxLosses \in Nat

fsVars == <<jobPost, uid, queue, acks, cache, snapshot, listening, losses>>

-----------------------------------------------------------------------------
Statuses == {"PENDING", "BOOKED"}

\* The document fields that matter; version is the update time, which only
\* ever gets compared with that of the same document.
Doc == [ownerId : Users, status : Statuses, version : Nat]

\* A cached document: committed tells a state computed from an acknowledged
\* write (FSTDocumentStateCommittedMutations) from one received from watch.
CachedDoc == [ownerId : Users, status : Statuses, version : Nat, committed : BOOLEAN]

ASSUME NoDocAssumption ==
    /\ NoDoc \notin Doc
    /\ NoDoc \notin CachedDoc
    /\ NoDoc \notin [ownerId : Users, status : Statuses]
ASSUME NoSnapshotAssumption == NoSnapshot \notin [Posts -> Doc \cup {NoDoc}]

Sessions == Users \cup {NoUser}

\* A queued write of one document: setData of a new post or updateData of its
\* status.  by is the user whose screen made it: the ownerId in the data of a
\* setData; an updateData does not carry it (the app never writes sitterId).
\* live: the completion block is registered and the screen it holds weakly is
\* still there.
Mutation == [op : {"set", "update"}, id : Posts, by : Users, live : BOOLEAN]

FirestoreTypeOK ==
    /\ jobPost \in [Posts -> Doc \cup {NoDoc}]
    /\ uid \in [Devices -> Sessions]
    /\ queue \in [Devices -> [Sessions -> Seq(Mutation)]]
    /\ acks \in [Devices -> [Sessions -> Seq(Nat)]]
    /\ cache \in [Devices -> [Posts -> CachedDoc \cup {NoDoc}]]
    /\ snapshot \in [Devices -> [Posts -> Doc \cup {NoDoc}] \cup {NoSnapshot}]
    /\ listening \subseteq Devices
    /\ losses \in 0 .. MaxLosses

FirestoreInit ==
    /\ jobPost = [p \in Posts |-> NoDoc]
    /\ uid = [d \in Devices |-> NoUser]
    /\ queue = [d \in Devices |-> [u \in Sessions |-> << >>]]
    /\ acks = [d \in Devices |-> [u \in Sessions |-> << >>]]
    /\ cache = [d \in Devices |-> [p \in Posts |-> NoDoc]]
    /\ snapshot = [d \in Devices |-> NoSnapshot]
    /\ listening = {}
    /\ losses = 0

-----------------------------------------------------------------------------
(* What a device shows: the cached document under the pending mutations of *)
(* the current user.  A set replaces the document whatever it was; an      *)
(* update changes the status of a document that exists and is a no-op      *)
(* otherwise.  The order of the queue matters only through its last entry. *)

Writes(d, p) == {i \in DOMAIN queue[d][uid[d]] : queue[d][uid[d]][i].id = p}

Sets(d, p) == {i \in Writes(d, p) : queue[d][uid[d]][i].op = "set"}

Visible(d, p) == cache[d][p] # NoDoc \/ Sets(d, p) # {}

LastWrite(d, p) ==
    LET i == CHOOSE j \in Writes(d, p) : \A k \in Writes(d, p) : k <= j
    IN  queue[d][uid[d]][i]

\* The status of a visible document in the local view.
LocalStatus(d, p) ==
    IF Writes(d, p) = {} THEN cache[d][p].status
    ELSE IF LastWrite(d, p).op = "set" THEN "PENDING" ELSE "BOOKED"

-----------------------------------------------------------------------------
(* The write path *)

\* A write enters the queue of the user signed in NOW; the view changes and
\* the caller continues at once.
WriteMutation(d, m) ==
    /\ queue' = [queue EXCEPT ![d][uid[d]] = Append(@, m)]
    /\ UNCHANGED <<jobPost, uid, acks, cache, snapshot, listening, losses>>

\* The backend's document after it applies m to old.  A write that leaves the
\* document as it was keeps its update time.
Applied(m, old) ==
    LET new == IF m.op = "set" THEN [ownerId |-> m.by, status |-> "PENDING"]
                               ELSE [ownerId |-> old.ownerId, status |-> "BOOKED"]
        age == IF old = NoDoc THEN 0 ELSE old.version
        same == old # NoDoc /\ old.ownerId = new.ownerId /\ old.status = new.status
    IN  [ownerId |-> new.ownerId, status |-> new.status,
         version |-> IF same THEN age ELSE age + 1]

\* The next write of the pipeline that the backend has not applied.
NextUnsent(d) == Len(acks[d][uid[d]]) + 1

\* The backend applies the next write of d's stream.  updateData requires the
\* document to exist.  Nothing that is sent tells a write that was applied before
\* from a new one: no handshake carries a stream token.
Commit(d) ==
    LET u == uid[d]
        m == queue[d][u][NextUnsent(d)]
    IN  /\ NextUnsent(d) <= Len(queue[d][u])
        /\ NextUnsent(d) <= MaxPendingWrites
        /\ m.op = "update" => jobPost[m.id] # NoDoc
        /\ jobPost' = [jobPost EXCEPT ![m.id] = Applied(m, @)]
        /\ acks' = [acks EXCEPT ![d][u] = Append(@, Applied(m, jobPost[m.id]).version)]
        /\ UNCHANGED <<uid, queue, cache, snapshot, listening, losses>>

\* Mutant of Acknowledged: the version of an update is recorded, not its effect.
AcknowledgedWithoutPatch(m, v, old) ==
    IF old # NoDoc /\ old.version >= v THEN old
    ELSE IF m.op = "set"
    THEN [ownerId |-> m.by, status |-> "PENDING", version |-> v, committed |-> TRUE]
    ELSE IF old = NoDoc THEN NoDoc
    ELSE [old EXCEPT !.version = v, !.committed = TRUE]

\* The cached document after the acknowledgement of m at version v.  (An update with
\* nothing cached leaves a marker without content in the SDK; it does not arise here,
\* where only posts that are listed are updated.)
Acknowledged(m, v, old) ==
    IF old # NoDoc /\ old.version >= v THEN old
    ELSE IF m.op = "set"
    THEN [ownerId |-> m.by, status |-> "PENDING", version |-> v, committed |-> TRUE]
    ELSE IF old = NoDoc THEN NoDoc
    ELSE [old EXCEPT !.status = "BOOKED", !.version = v, !.committed = TRUE]

\* d processes the result of the front of its pipeline: the cache takes the
\* acknowledged document and the batch leaves the queue, in one transaction.
Acknowledge(d) ==
    LET u == uid[d]
        m == Head(queue[d][u])
    IN  /\ acks[d][u] # << >>
        /\ cache' = [cache EXCEPT ![d][m.id] = Acknowledged(m, Head(acks[d][u]), @)]
        /\ queue' = [queue EXCEPT ![d][u] = Tail(@)]
        /\ acks' = [acks EXCEPT ![d][u] = Tail(@)]
        /\ UNCHANGED <<jobPost, uid, snapshot, listening, losses>>

\* The write stream of d closes: the results that d has not read are gone, and
\* what they answered is sent again, as new, over the next stream.
LoseAnswers(d) ==
    LET unread == acks[d][uid[d]] # << >>
    IN  /\ unread => losses < MaxLosses
        /\ acks' = [acks EXCEPT ![d][uid[d]] = << >>]
        /\ losses' = IF unread THEN losses + 1 ELSE losses

StreamBreaks(d) ==
    /\ acks[d][uid[d]] # << >>
    /\ LoseAnswers(d)
    /\ UNCHANGED <<jobPost, uid, queue, cache, snapshot, listening>>

\* The backend refuses the next write for good (a security rule, or an update of a
\* document that does not exist).  The error ends the call, with whatever results
\* d has not read; d drops the FRONT of its pipeline, which is another write than
\* the refused one if results were lost.
RejectWrite(d) ==
    LET u == uid[d]
    IN  /\ NextUnsent(d) <= Len(queue[d][u])
        /\ NextUnsent(d) <= MaxPendingWrites
        /\ queue' = [queue EXCEPT ![d][u] = Tail(@)]
        /\ LoseAnswers(d)
        /\ UNCHANGED <<jobPost, uid, cache, snapshot, listening>>

-----------------------------------------------------------------------------
(* The watch path *)

FromWatch(doc) == [ownerId |-> doc.ownerId, status |-> doc.status,
                   version |-> doc.version, committed |-> FALSE]

\* Mutant of SendSnapshot: watch tells of new documents, not of changed ones.
SendSnapshotOfNew(d) ==
    /\ d \in listening
    /\ snapshot[d] = NoSnapshot
    /\ \E p \in Posts : jobPost[p] # NoDoc /\ cache[d][p] = NoDoc
    /\ snapshot' = [snapshot EXCEPT ![d] = jobPost]
    /\ UNCHANGED <<jobPost, uid, queue, acks, cache, listening, losses>>

\* The backend sends a consistent snapshot of the collection to a phone that
\* listens, when it has something that watch has not told d yet.
SendSnapshot(d) ==
    /\ d \in listening
    /\ snapshot[d] = NoSnapshot
    /\ \E p \in Posts : jobPost[p] # NoDoc /\ cache[d][p] # FromWatch(jobPost[p])
    /\ snapshot' = [snapshot EXCEPT ![d] = jobPost]
    /\ UNCHANGED <<jobPost, uid, queue, acks, cache, listening, losses>>

\* Mutant of Accepts: the last document to arrive wins.
AcceptsAny(old, new) == TRUE

\* Whether a document of a snapshot replaces the cached one: an older version
\* does not replace the state of an acknowledged write.
Accepts(old, new) ==
    \/ old = NoDoc
    \/ ~old.committed
    \/ new.version >= old.version

ApplySnapshot(d) ==
    /\ snapshot[d] # NoSnapshot
    /\ cache' = [cache EXCEPT ![d] =
           [p \in Posts |-> IF snapshot[d][p] # NoDoc /\ Accepts(cache[d][p], snapshot[d][p])
                            THEN FromWatch(snapshot[d][p])
                            ELSE cache[d][p]]]
    /\ snapshot' = [snapshot EXCEPT ![d] = NoSnapshot]
    /\ UNCHANGED <<jobPost, uid, queue, acks, listening, losses>>

-----------------------------------------------------------------------------
(* Sessions *)

\* A queue whose completion blocks reach no screen any more.
Silenced(q) == [i \in DOMAIN q |-> [q[i] EXCEPT !.live = FALSE]]

\* The user changes: the mutation queue is swapped, the streams restart.
CredentialChange(d, u) ==
    /\ uid' = [uid EXCEPT ![d] = u]
    /\ snapshot' = [snapshot EXCEPT ![d] = NoSnapshot]
    /\ LoseAnswers(d)
    /\ UNCHANGED <<jobPost, cache>>
=============================================================================
