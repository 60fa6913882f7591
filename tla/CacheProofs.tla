---------------------------- MODULE CacheProofs ----------------------------
(***************************************************************************)
(* Theorems about what a phone shows (CacheAgrees, NoFlicker) and what it  *)
(* has promised (BookingKept), for any number of phones, accounts and      *)
(* posts.  They share one argument: the cache of a phone, the snapshot on  *)
(* its way to it and the answers to its writes all tell of a version of    *)
(* the post that the backend has or has had.                               *)
(***************************************************************************)
EXTENDS JobPostsProofs, LeastNumbers

-----------------------------------------------------------------------------
(* Versions *)

\* What is said of p, a status at a version, is of the past or true.
Trails(p, status, version) ==
    /\ jobPost[p] # NoDoc
    /\ version <= jobPost[p].version
    /\ version = jobPost[p].version => status = jobPost[p].status

OwnedAlike(p, doc) == doc.ownerId = jobPost[p].ownerId

\* The status that the write at a position leaves behind.
StatusBy(d, s, i) == IF SetIn(d, s, i) THEN "PENDING" ELSE "BOOKED"

CacheTrails ==
    \A d \in Devices, p \in Posts : cache[d][p] # NoDoc =>
        Trails(p, cache[d][p].status, cache[d][p].version) /\ OwnedAlike(p, cache[d][p])

SnapshotTrails ==
    \A d \in Devices, p \in Posts : snapshot[d] # NoSnapshot /\ snapshot[d][p] # NoDoc =>
        Trails(p, snapshot[d][p].status, snapshot[d][p].version) /\ OwnedAlike(p, snapshot[d][p])

AnswersTrail ==
    \A d \in Devices, s \in Sessions : \A i \in 1 .. Len(acks[d][s]) :
        Trails(QueuedId(d, s, i), StatusBy(d, s, i), acks[d][s][i])

AllTrail == CacheTrails /\ SnapshotTrails /\ AnswersTrail

-----------------------------------------------------------------------------
(* Versions and statuses *)

\* A write that changes a post turns its status over, and counts.
Dated(status, version) == version > 0 /\ (status = "PENDING" <=> version % 2 = 1)

\* Whoever tells of a post tells by its status whether its version is odd.
AllDated ==
    /\ \A p \in Posts : jobPost[p] # NoDoc => Dated(jobPost[p].status, jobPost[p].version)
    /\ \A d \in Devices, p \in Posts : cache[d][p] # NoDoc =>
           Dated(cache[d][p].status, cache[d][p].version)
    /\ \A d \in Devices, p \in Posts : snapshot[d] # NoSnapshot /\ snapshot[d][p] # NoDoc =>
           Dated(snapshot[d][p].status, snapshot[d][p].version)
    /\ \A d \in Devices, s \in Sessions : \A i \in 1 .. Len(acks[d][s]) :
           Dated(StatusBy(d, s, i), acks[d][s][i])

\* A snapshot on its way has all that watch has told before.
WatchGoesOn ==
    \A d \in Devices, p \in Posts :
        snapshot[d] # NoSnapshot /\ cache[d][p] # NoDoc /\ ~cache[d][p].committed =>
            snapshot[d][p] # NoDoc /\ snapshot[d][p].version >= cache[d][p].version

-----------------------------------------------------------------------------
(* Who changes what *)

LEMMA CacheSteps ==
    ASSUME [Next]_vars
    PROVE  \/ cache' = cache
           \/ \E d \in Devices : WriteSucceeded(d)
           \/ \E d \in Devices : ApplySnapshot(d) /\ UNCHANGED appVars
<1>1. ASSUME NEW d \in Devices, Background(d), ~ApplySnapshot(d) PROVE cache' = cache
  BY <1>1 DEF Background, Commit, StreamBreaks, SendSnapshot
<1>2. ASSUME NEW d \in Devices, DeviceStep(d), ~WriteSucceeded(d) PROVE cache' = cache
  BY <1>2 DEF DeviceStep, OpenForm, CloseForm, OwnerLoaded, BookJobButtonPressed, CloseDetail,
     WriteFailed, Listen, SignOut, Restart, SignIn, PostButtonPressed, OpenDetail, WriteMutation,
     RejectWrite, CredentialChange, fsVars
<1>3. ASSUME NEW p \in Posts, UploadStep(p) PROVE cache' = cache
  BY <1>3 DEF UploadStep, ImageStored, UploadFailed, DownloadURLFailed, PostJob, WriteMutation,
     fsVars
<1> QED
  BY <1>1, <1>2, <1>3 DEF Next, vars, fsVars, Background

\* The front of a queue and its answer reach the cache.
LEMMA AcknowledgedFront ==
    ASSUME TypeOK, AnsweredIsApplied, NEW d \in Devices, WriteSucceeded(d)
    PROVE  /\ uid[d] \in Sessions
           /\ 1 \in 1 .. Len(acks[d][uid[d]])
           /\ 1 \in 1 .. Len(queue[d][uid[d]])
           /\ queue[d][uid[d]][1] \in Mutation
           /\ acks[d][uid[d]][1] \in Nat
           /\ jobPost' = jobPost /\ snapshot' = snapshot /\ uid' = uid
           /\ cache' = [cache EXCEPT ![d][queue[d][uid[d]][1].id] =
                  Acknowledged(queue[d][uid[d]][1], acks[d][uid[d]][1], @)]
<1>1. Acknowledge(d) /\ acks[d][uid[d]] # << >>
  BY DEF WriteSucceeded, Acknowledge
<1>2. uid[d] \in Sessions /\ Len(acks[d][uid[d]]) > 0
  BY <1>1, AnsweredFront
<1>3. /\ Len(acks[d][uid[d]]) \in Nat /\ Len(queue[d][uid[d]]) \in Nat
      /\ acks[d][uid[d]] \in Seq(Nat)
  BY <1>2, Lengths DEF TypeOK, FirestoreTypeOK
<1>4. 1 \in 1 .. Len(acks[d][uid[d]]) /\ 1 \in 1 .. Len(queue[d][uid[d]])
  BY <1>2, <1>3 DEF AnsweredIsApplied
<1>5. queue[d][uid[d]][1] \in Mutation
  BY <1>2, <1>4, Lengths
<1>6. Head(queue[d][uid[d]]) = queue[d][uid[d]][1]
  BY <1>1, AnswersWrite
<1>7. Head(acks[d][uid[d]]) = acks[d][uid[d]][1] /\ acks[d][uid[d]][1] \in Nat
  BY <1>3, <1>4
<1> QED
  BY <1>1, <1>2, <1>4, <1>5, <1>6, <1>7 DEF Acknowledge

\* How the cached document of p moves on the phone d.
LEMMA CacheMoves ==
    ASSUME TypeOK, AnsweredIsApplied, [Next]_vars, NEW d \in Devices, NEW p \in Posts
    PROVE  \/ cache'[d][p] = cache[d][p]
           \/ /\ WriteSucceeded(d)
              /\ p = queue[d][uid[d]][1].id
              /\ cache'[d][p] = Acknowledged(queue[d][uid[d]][1], acks[d][uid[d]][1], cache[d][p])
           \/ /\ ApplySnapshot(d) /\ UNCHANGED appVars
              /\ snapshot[d][p] # NoDoc
              /\ Accepts(cache[d][p], snapshot[d][p])
              /\ cache'[d][p] = FromWatch(snapshot[d][p])
<1>1. cache \in [Devices -> [Posts -> CachedDoc \cup {NoDoc}]]
  BY DEF TypeOK, FirestoreTypeOK
<1>2. ASSUME NEW e \in Devices, WriteSucceeded(e), cache'[d][p] # cache[d][p]
      PROVE  /\ e = d /\ p = queue[d][uid[d]][1].id
             /\ cache'[d][p] = Acknowledged(queue[d][uid[d]][1], acks[d][uid[d]][1], cache[d][p])
  <2>1. cache' = [cache EXCEPT ![e][queue[e][uid[e]][1].id] =
                      Acknowledged(queue[e][uid[e]][1], acks[e][uid[e]][1], @)]
    BY <1>2, AcknowledgedFront
  <2> QED
    BY <1>1, <1>2, <2>1
<1>3. ASSUME NEW e \in Devices, ApplySnapshot(e), cache'[d][p] # cache[d][p]
      PROVE  /\ e = d /\ snapshot[d][p] # NoDoc
             /\ Accepts(cache[d][p], snapshot[d][p])
             /\ cache'[d][p] = FromWatch(snapshot[d][p])
  BY <1>1, <1>3 DEF ApplySnapshot
<1> QED
  BY <1>2, <1>3, CacheSteps

LEMMA SnapshotMoves ==
    ASSUME TypeOK, [Next]_vars, NEW d \in Devices
    PROVE  \/ snapshot'[d] = NoSnapshot
           \/ snapshot'[d] = snapshot[d] /\ ~ApplySnapshot(d)
           \/ /\ SendSnapshot(d) /\ UNCHANGED appVars
              /\ snapshot'[d] = jobPost /\ jobPost' = jobPost /\ cache' = cache
<1>1. snapshot \in [Devices -> [Posts -> Doc \cup {NoDoc}] \cup {NoSnapshot}]
  BY DEF TypeOK, FirestoreTypeOK
<1>2. CASE ApplySnapshot(d)
  BY <1>1, <1>2 DEF ApplySnapshot
<1>3. ASSUME NEW e \in Devices, Background(e), ~ApplySnapshot(d)
      PROVE  \/ snapshot'[d] = snapshot[d]
             \/ /\ SendSnapshot(d) /\ UNCHANGED appVars
                /\ snapshot'[d] = jobPost /\ jobPost' = jobPost /\ cache' = cache
  BY <1>1, <1>3 DEF Background, Commit, StreamBreaks, SendSnapshot, ApplySnapshot
<1>4. ASSUME NEW e \in Devices, DeviceStep(e)
      PROVE  snapshot'[d] = snapshot[d] \/ snapshot'[d] = NoSnapshot
  BY <1>1, <1>4 DEF DeviceStep, OpenForm, CloseForm, OwnerLoaded, BookJobButtonPressed, CloseDetail,
     WriteSucceeded, WriteFailed, Listen, SignOut, Restart, SignIn, PostButtonPressed, OpenDetail,
     WriteMutation, Acknowledge, RejectWrite, CredentialChange, fsVars
<1>5. ASSUME NEW p \in Posts, UploadStep(p) PROVE snapshot' = snapshot
  BY <1>5 DEF UploadStep, ImageStored, UploadFailed, DownloadURLFailed, PostJob, WriteMutation,
     fsVars
<1> QED
  BY <1>2, <1>3, <1>4, <1>5 DEF Next, vars, fsVars

\* An answer was one before, of the same write, or is that of a commit.
LEMMA AnswersMove ==
    ASSUME TypeOK, AnsweredIsApplied, [Next]_vars,
           NEW e \in Devices, NEW s \in Sessions, NEW i \in 1 .. Len(acks'[e][s])
    PROVE  \/ \E j \in 1 .. Len(acks[e][s]) : /\ j \in 1 .. Len(queue[e][s])
                                              /\ acks'[e][s][i] = acks[e][s][j]
                                              /\ SetIn(e, s, i)' <=> SetIn(e, s, j)
                                              /\ QueuedId(e, s, i)' = QueuedId(e, s, j)
           \/ /\ Commit(e) /\ UNCHANGED appVars
              /\ s = uid[e] /\ i = NextUnsent(e) /\ queue' = queue
              /\ acks'[e][s][i] = Applied(queue[e][s][i], jobPost[queue[e][s][i].id]).version
<1> DEFINE Old == \E j \in 1 .. Len(acks[e][s]) : /\ j \in 1 .. Len(queue[e][s])
                                                  /\ acks'[e][s][i] = acks[e][s][j]
                                                  /\ SetIn(e, s, i)' <=> SetIn(e, s, j)
                                                  /\ QueuedId(e, s, i)' = QueuedId(e, s, j)
<1>f. /\ Len(acks[e][s]) \in Nat /\ Len(queue[e][s]) \in Nat
      /\ Len(acks[e][s]) <= Len(queue[e][s])
      /\ acks \in [Devices -> [Sessions -> Seq(Nat)]]
      /\ acks[e][s] \in Seq(Nat)
      /\ \A d \in Devices : uid[d] \in Sessions
  BY Lengths, AnsweredFacts DEF TypeOK, FirestoreTypeOK
<1>0. ASSUME acks'[e][s] = acks[e][s],
             \A j \in 1 .. Len(queue[e][s]) : /\ queue'[e][s][j].op = queue[e][s][j].op
                                              /\ queue'[e][s][j].id = queue[e][s][j].id
      PROVE  Old
  <2>1. i \in 1 .. Len(acks[e][s]) /\ i \in 1 .. Len(queue[e][s])
    BY <1>0, <1>f
  <2> QED
    BY <1>0, <2>1 DEF SetIn, QueuedId
<1>1. CASE Kept
  BY <1>0, <1>1 DEF Kept, SameWrites
<1>2. ASSUME NEW d \in Devices, NEW m \in Mutation, Appended(d, m) PROVE Old
  BY <1>0, <1>2 DEF Appended
<1>3. ASSUME NEW p \in Posts, PostJob(p) PROVE Old
  <2>1. SetPost(p) \in Mutation /\ upload[p].dev \in Devices
    BY <1>3, SetPostType DEF PostJob
  <2>2. Appended(upload[p].dev, SetPost(p))
    BY <1>3, <2>1, AppendsWrite DEF PostJob
  <2> QED
    BY <1>2, <2>1, <2>2
<1>4. ASSUME NEW d \in Devices, BookJobButtonPressed(d) PROVE Old
  <2>1. BookPost(d) \in Mutation
    BY <1>4, BookPostType DEF BookJobButtonPressed
  <2>2. Appended(d, BookPost(d))
    BY <1>4, <2>1, AppendsWrite DEF BookJobButtonPressed
  <2> QED
    BY <1>2, <2>1, <2>2
<1>5. ASSUME NEW d \in Devices, WriteSucceeded(d) PROVE Old
  <2>1. Answered(d) /\ acks' = [acks EXCEPT ![d][uid[d]] = Tail(@)]
    BY <1>5, AnswersWrite DEF WriteSucceeded, Acknowledge
  <2>2. CASE e = d /\ s = uid[d]
    <3>1. PICK a \in Seq(Nat) : a = acks[e][s]
      BY <1>f
    <3>2. Len(a) > 0 /\ acks'[e][s] = Tail(a)
      BY <1>f, <2>1, <2>2, <3>1 DEF Answered
    <3>3. Len(Tail(a)) = Len(a) - 1 /\ \A k \in 1 .. Len(a) - 1 : Tail(a)[k] = a[k + 1]
      BY <3>2
    <3>4. i \in 1 .. Len(a) - 1 /\ i + 1 \in 1 .. Len(a) /\ acks'[e][s][i] = acks[e][s][i + 1]
      BY <1>f, <3>1, <3>2, <3>3
    <3>5. i + 1 \in 1 .. Len(queue[e][s]) /\ i \in 1 .. Len(queue[e][s]) - 1
      BY <1>f, <3>1, <3>4
    <3>6. queue'[e][s][i] = queue[e][s][i + 1]
      BY <2>1, <2>2, <3>5 DEF Answered, Popped
    <3> QED
      BY <3>1, <3>4, <3>5, <3>6 DEF SetIn, QueuedId
  <2>3. CASE ~(e = d /\ s = uid[d])
    <3>1. acks'[e][s] = acks[e][s] /\ queue'[e][s] = queue[e][s]
      BY <1>f, <2>1, <2>3 DEF Answered, Popped
    <3> QED
      BY <1>0, <3>1
  <2> QED
    BY <2>2, <2>3
\* Answers that are lost are no answers; those of the other queues stay.
<1>6. ASSUME NEW d \in Devices, Cleared(d),
             \A t \in Sessions, f \in Devices : ~(f = d /\ t = uid[d]) =>
                 \A j \in 1 .. Len(queue[f][t]) : /\ queue'[f][t][j].op = queue[f][t][j].op
                                                  /\ queue'[f][t][j].id = queue[f][t][j].id
      PROVE  Old
  <2>1. CASE e = d /\ s = uid[d]
    <3>1. acks'[e][s] = << >>
      BY <1>6, <2>1 DEF Cleared
    <3> QED
      BY <3>1
  <2>2. CASE ~(e = d /\ s = uid[d])
    BY <1>0, <1>6, <2>2 DEF Cleared
  <2> QED
    BY <2>1, <2>2
<1>7. ASSUME NEW d \in Devices, WriteFailed(d) \/ Forgets(d) PROVE Old
  <2>1. CASE WriteFailed(d)
    BY <1>6, <2>1, RefusesWrite DEF WriteFailed, Popped
  <2>2. CASE Forgets(d)
    BY <1>6, <2>2 DEF Forgets, SameWrites
  <2> QED
    BY <1>7, <2>1, <2>2
<1>8. ASSUME NEW d \in Devices, Commit(d), UNCHANGED appVars
      PROVE  \/ Old
             \/ /\ d = e
                /\ s = uid[e] /\ i = NextUnsent(e) /\ queue' = queue
                /\ acks'[e][s][i] = Applied(queue[e][s][i], jobPost[queue[e][s][i].id]).version
  <2> DEFINE m == queue[d][uid[d]][NextUnsent(d)]
  <2>1. /\ queue' = queue
        /\ acks' = [acks EXCEPT ![d][uid[d]] = Append(@, Applied(m, jobPost[m.id]).version)]
    BY <1>8 DEF Commit
  <2>2. Applied(m, jobPost[m.id]).version \in Nat
    BY <1>8, CommitsWrite DEF Committed, Doc
  <2>3. CASE e = d /\ s = uid[d]
    <3>1. PICK a \in Seq(Nat) : a = acks[e][s]
      BY <1>f
    <3>2. PICK v \in Nat : v = Applied(m, jobPost[m.id]).version
      BY <2>2
    <3>3. acks'[e][s] = Append(a, v)
      BY <1>f, <2>1, <2>3, <3>1, <3>2
    <3>4. /\ Len(Append(a, v)) = Len(a) + 1 /\ Append(a, v)[Len(a) + 1] = v
          /\ \A k \in 1 .. Len(a) : Append(a, v)[k] = a[k]
      OBVIOUS
    <3>5. CASE i = Len(a) + 1
      BY <2>1, <2>3, <3>1, <3>2, <3>3, <3>4, <3>5 DEF NextUnsent
    <3>6. CASE i # Len(a) + 1
      <4>1. i \in 1 .. Len(acks[e][s]) /\ i \in 1 .. Len(queue[e][s]) /\ acks'[e][s][i] = acks[e][s][i]
        BY <1>f, <3>1, <3>3, <3>4, <3>6
      <4> QED
        BY <2>1, <4>1 DEF SetIn, QueuedId
    <3> QED
      BY <3>5, <3>6
  <2>4. CASE ~(e = d /\ s = uid[d])
    BY <1>0, <1>f, <2>1, <2>4
  <2> QED
    BY <2>3, <2>4
<1> QED
  BY <1>1, <1>3, <1>4, <1>5, <1>7, <1>8, StepKinds DEF QueueStep

-----------------------------------------------------------------------------
(* CacheAgrees *)

\* A stored post keeps its owner, and its version tells when it changed.
LEMMA VersionsGrow ==
    ASSUME IInv, [Next]_vars, NEW p \in Posts, jobPost[p] # NoDoc
    PROVE  /\ jobPost[p] \in Doc /\ jobPost'[p] # NoDoc /\ jobPost'[p] \in Doc
           /\ jobPost'[p].ownerId = jobPost[p].ownerId
           /\ \/ /\ jobPost'[p].version = jobPost[p].version
                 /\ jobPost'[p].status = jobPost[p].status
              \/ jobPost'[p].version = jobPost[p].version + 1
<1>1. jobPost[p] \in Doc /\ jobPost'[p] # NoDoc /\ jobPost'[p] \in Doc
  <2>1. TypeOK'
    BY TypeStep DEF IInv
  <2> QED
    BY <2>1, DocumentsStay DEF IInv, TypeOK, FirestoreTypeOK
<1>2. jobPost'[p].ownerId = jobPost[p].ownerId
  <2>1. Provenance' /\ UploadsKept
    BY ProvenanceStep, UploadsAreKept DEF IInv
  <2>2. InStage(p, "posted") /\ jobPost[p].ownerId = upload[p].uid
    BY DEF IInv, Provenance
  <2> QED
    BY <1>1, <2>1, <2>2 DEF Provenance, UploadsKept
<1>3. ASSUME NEW d \in Devices, Commit(d), UNCHANGED appVars
      PROVE  \/ /\ jobPost'[p].version = jobPost[p].version
                /\ jobPost'[p].status = jobPost[p].status
             \/ jobPost'[p].version = jobPost[p].version + 1
  <2>1. PICK m : Committed(d, m)
    BY <1>3, CommitsWrite DEF IInv
  <2>2. jobPost'[p] = IF m.id = p THEN Applied(m, jobPost[p]) ELSE jobPost[p]
    BY <2>1 DEF Committed, IInv, TypeOK, FirestoreTypeOK
  <2>3. CASE m.id = p
    BY <2>2, <2>3 DEF Applied
  <2> QED
    BY <2>2, <2>3
<1> QED
  BY <1>1, <1>2, <1>3, OnlyCommits DEF IInv

\* What trails the backend goes on trailing it.
LEMMA TrailsKept ==
    ASSUME IInv, [Next]_vars, NEW p \in Posts, NEW status, NEW version \in Nat,
           Trails(p, status, version)
    PROVE  Trails(p, status, version)'
<1>1. jobPost[p] # NoDoc
  BY DEF Trails
<1>2. jobPost[p].version \in Nat /\ jobPost'[p].version \in Nat
  BY <1>1, VersionsGrow DEF Doc
<1> QED
  BY <1>1, <1>2, VersionsGrow DEF Trails

LEMMA AnswersTrailStep ==
    ASSUME IInv, AnswersTrail, [Next]_vars
    PROVE  AnswersTrail'
<1> SUFFICES ASSUME NEW e \in Devices, NEW s \in Sessions, NEW i \in 1 .. Len(acks'[e][s])
             PROVE  Trails(QueuedId(e, s, i), StatusBy(e, s, i), acks[e][s][i])'
  BY DEF AnswersTrail
<1>1. ASSUME NEW j \in 1 .. Len(acks[e][s]), j \in 1 .. Len(queue[e][s]),
             acks'[e][s][i] = acks[e][s][j],
             SetIn(e, s, i)' <=> SetIn(e, s, j),
             QueuedId(e, s, i)' = QueuedId(e, s, j)
      PROVE  Trails(QueuedId(e, s, i), StatusBy(e, s, i), acks[e][s][i])'
  <2>1. PICK p \in Posts : p = QueuedId(e, s, j)
    BY <1>1, Lengths DEF IInv, QueuedId, Mutation
  <2>2. PICK v \in Nat : v = acks[e][s][j]
    BY DEF IInv, TypeOK, FirestoreTypeOK
  <2>3. PICK st \in Statuses : st = StatusBy(e, s, j)
    BY DEF StatusBy, Statuses
  <2>4. Trails(p, st, v)
    BY <2>1, <2>2, <2>3 DEF AnswersTrail
  <2>5. Trails(p, st, v)'
    BY <2>4, TrailsKept
  <2>6. p = QueuedId(e, s, i)' /\ st = StatusBy(e, s, i)' /\ v = acks[e][s][i]'
    BY <1>1, <2>1, <2>2, <2>3 DEF StatusBy
  <2> QED
    BY <2>5, <2>6
<1>2. ASSUME Commit(e), UNCHANGED appVars, s = uid[e], i = NextUnsent(e), queue' = queue,
             acks'[e][s][i] = Applied(queue[e][s][i], jobPost[queue[e][s][i].id]).version
      PROVE  Trails(QueuedId(e, s, i), StatusBy(e, s, i), acks[e][s][i])'
  <2>1. PICK m : m = queue[e][s][i] /\ Committed(e, m)
    BY <1>2, CommitsWrite DEF IInv
  <2>2. PICK p \in Posts : p = m.id
    BY <2>1 DEF Committed, Mutation
  <2>3. PICK doc \in Doc : doc = Applied(m, jobPost[p])
    BY <2>1, <2>2 DEF Committed
  <2>4. jobPost'[p] = doc /\ doc # NoDoc
    BY <2>1, <2>2, <2>3, NoDocAssumption DEF Committed, IInv, TypeOK, FirestoreTypeOK
  <2>5. doc.status = IF m.op = "set" THEN "PENDING" ELSE "BOOKED"
    BY <2>3 DEF Applied
  <2>6. p = QueuedId(e, s, i)' /\ doc.status = StatusBy(e, s, i)' /\ doc.version = acks[e][s][i]'
    BY <1>2, <2>1, <2>2, <2>3, <2>5 DEF StatusBy, SetIn, QueuedId
  <2>7. Trails(p, doc.status, doc.version)'
    BY <2>4 DEF Trails, Doc
  <2> QED
    BY <2>6, <2>7
<1> QED
  BY <1>1, <1>2, AnswersMove DEF IInv

\* The fields of a cached document and of one in a snapshot.
LEMMA DocFields ==
    ASSUME TypeOK, NEW d \in Devices, NEW p \in Posts
    PROVE  /\ cache[d][p] # NoDoc => cache[d][p] \in CachedDoc /\ cache[d][p].version \in Nat
           /\ snapshot[d] # NoSnapshot /\ snapshot[d][p] # NoDoc =>
                  snapshot[d][p] \in Doc /\ snapshot[d][p].version \in Nat
  BY DEF TypeOK, FirestoreTypeOK, Doc, CachedDoc

LEMMA SnapshotTrailsStep ==
    ASSUME IInv, SnapshotTrails, [Next]_vars
    PROVE  SnapshotTrails'
<1> SUFFICES ASSUME NEW d \in Devices, NEW p \in Posts,
                    snapshot'[d] # NoSnapshot, snapshot'[d][p] # NoDoc
             PROVE  /\ Trails(p, snapshot[d][p].status, snapshot[d][p].version)'
                    /\ OwnedAlike(p, snapshot[d][p])'
  BY DEF SnapshotTrails
<1>1. CASE snapshot'[d] = snapshot[d]
  <2>1. PICK doc \in Doc : doc = snapshot[d][p] /\ doc = snapshot'[d][p]
    BY <1>1, DocFields DEF IInv
  <2>2. Trails(p, doc.status, doc.version) /\ OwnedAlike(p, doc) /\ doc.version \in Nat
    BY <1>1, <2>1 DEF SnapshotTrails, Doc
  <2>3. Trails(p, doc.status, doc.version)'
    BY <2>2, TrailsKept
  <2>4. OwnedAlike(p, doc)'
    BY <2>2, VersionsGrow DEF OwnedAlike, Trails
  <2> QED
    BY <2>1, <2>3, <2>4 DEF OwnedAlike
<1>2. CASE snapshot'[d] = jobPost /\ jobPost' = jobPost
  <2>1. snapshot'[d][p] = jobPost'[p] /\ jobPost'[p] # NoDoc /\ jobPost'[p].version \in Nat
    BY <1>2 DEF IInv, TypeOK, FirestoreTypeOK, Doc
  <2> QED
    BY <2>1 DEF Trails, OwnedAlike
<1> QED
  BY <1>1, <1>2, SnapshotMoves DEF IInv

LEMMA CacheTrailsStep ==
    ASSUME IInv, AllTrail, [Next]_vars
    PROVE  CacheTrails'
<1> SUFFICES ASSUME NEW d \in Devices, NEW p \in Posts, cache'[d][p] # NoDoc
             PROVE  /\ Trails(p, cache[d][p].status, cache[d][p].version)'
                    /\ OwnedAlike(p, cache[d][p])'
  BY DEF CacheTrails
<1> USE DEF AllTrail
\* It is enough that the new document trails the backend before the step.
<1>0. ASSUME NEW status, NEW version \in Nat, NEW ownerId,
             Trails(p, status, version), ownerId = jobPost[p].ownerId,
             cache'[d][p].status = status, cache'[d][p].version = version,
             cache'[d][p].ownerId = ownerId
      PROVE  /\ Trails(p, cache[d][p].status, cache[d][p].version)'
             /\ OwnedAlike(p, cache[d][p])'
  <2>1. Trails(p, status, version)'
    BY <1>0, TrailsKept
  <2>2. jobPost'[p].ownerId = jobPost[p].ownerId
    BY <1>0, VersionsGrow DEF Trails
  <2> QED
    BY <1>0, <2>1, <2>2 DEF OwnedAlike
<1>1. CASE cache'[d][p] = cache[d][p]
  BY <1>0, <1>1, DocFields DEF IInv, CacheTrails, OwnedAlike
<1>2. CASE /\ WriteSucceeded(d)
           /\ p = queue[d][uid[d]][1].id
           /\ cache'[d][p] = Acknowledged(queue[d][uid[d]][1], acks[d][uid[d]][1], cache[d][p])
  <2>1. PICK m \in Mutation, v \in Nat : m = queue[d][uid[d]][1] /\ v = acks[d][uid[d]][1]
    BY <1>2, AcknowledgedFront DEF IInv
  <2>2. /\ uid[d] \in Sessions /\ 1 \in 1 .. Len(acks[d][uid[d]]) /\ 1 \in 1 .. Len(queue[d][uid[d]])
        /\ p = QueuedId(d, uid[d], 1) /\ (SetIn(d, uid[d], 1) <=> m.op = "set")
    BY <1>2, <2>1, AcknowledgedFront DEF IInv, QueuedId, SetIn
  <2>3. Trails(p, StatusBy(d, uid[d], 1), v)
    BY <2>1, <2>2 DEF AnswersTrail
  <2>4. cache'[d][p] = Acknowledged(m, v, cache[d][p])
    BY <1>2, <2>1
  <2>5. CASE cache[d][p] # NoDoc /\ cache[d][p].version >= v
    <3>1. cache'[d][p] = cache[d][p]
      BY <2>4, <2>5 DEF Acknowledged
    <3> QED
      BY <1>1, <3>1
  <2>6. CASE ~(cache[d][p] # NoDoc /\ cache[d][p].version >= v) /\ m.op = "set"
    <3>1. cache'[d][p] = [ownerId |-> m.by, status |-> "PENDING", version |-> v, committed |-> TRUE]
      BY <2>4, <2>6 DEF Acknowledged
    <3>2. Trails(p, "PENDING", v)
      BY <2>2, <2>3, <2>6 DEF StatusBy
    <3>3. m.by = jobPost[p].ownerId
      <4>1. m.by = upload[p].uid
        BY <2>1, <2>2, <2>6 DEF IInv, Provenance
      <4> QED
        BY <3>2, <4>1 DEF IInv, Provenance, Trails
    <3>4. /\ cache'[d][p].status = "PENDING" /\ cache'[d][p].version = v
          /\ cache'[d][p].ownerId = m.by
      BY <3>1
    <3> QED
      BY <1>0, <3>2, <3>3, <3>4
  <2>7. CASE ~(cache[d][p] # NoDoc /\ cache[d][p].version >= v) /\ m.op = "update"
    <3>1. cache[d][p] # NoDoc
      BY <2>4, <2>7 DEF Acknowledged
    <3>2. cache'[d][p] = [cache[d][p] EXCEPT !.status = "BOOKED", !.version = v, !.committed = TRUE]
      BY <2>4, <2>7, <3>1 DEF Acknowledged
    <3>3. /\ cache'[d][p].status = "BOOKED" /\ cache'[d][p].version = v
          /\ cache'[d][p].ownerId = cache[d][p].ownerId
      <4>1. cache[d][p] \in CachedDoc
        BY <3>1, DocFields DEF IInv
      <4> QED
        BY <3>2, <4>1 DEF CachedDoc
    <3>4. Trails(p, "BOOKED", v)
      BY <2>2, <2>3, <2>7 DEF StatusBy
    <3>5. cache[d][p].ownerId = jobPost[p].ownerId
      BY <3>1 DEF CacheTrails, OwnedAlike
    <3> QED
      BY <1>0, <3>3, <3>4, <3>5
  <2> QED
    BY <2>5, <2>6, <2>7 DEF Mutation
<1>3. CASE /\ ApplySnapshot(d)
           /\ snapshot[d][p] # NoDoc
           /\ cache'[d][p] = FromWatch(snapshot[d][p])
  <2>1. snapshot[d] # NoSnapshot
    BY <1>3 DEF ApplySnapshot
  <2>2. PICK doc \in Doc : doc = snapshot[d][p]
    BY <1>3, <2>1, DocFields DEF IInv
  <2>3. Trails(p, doc.status, doc.version) /\ OwnedAlike(p, doc) /\ doc.version \in Nat
    BY <1>3, <2>1, <2>2 DEF SnapshotTrails, Doc
  <2>4. /\ cache'[d][p].status = doc.status /\ cache'[d][p].version = doc.version
        /\ cache'[d][p].ownerId = doc.ownerId
    BY <1>3, <2>2 DEF FromWatch
  <2> QED
    BY <1>0, <2>3, <2>4 DEF OwnedAlike
<1> QED
  BY <1>1, <1>2, <1>3, CacheMoves DEF IInv

\* Everything that tells of a post tells of its past or of its present, however often
\* answers were lost and writes were sent again.
THEOREM TrailsCorrect == Spec => []AllTrail
<1>1. Init => AllTrail
  <2> SUFFICES ASSUME Init PROVE AllTrail
    OBVIOUS
  <2>1. \A d \in Devices, s \in Sessions : Len(acks[d][s]) = 0
    BY DEF Init, FirestoreInit
  <2>2. CacheTrails /\ SnapshotTrails
    BY DEF Init, FirestoreInit, CacheTrails, SnapshotTrails
  <2> QED
    BY <2>1, <2>2 DEF AllTrail, AnswersTrail
<1>2. IInv /\ AllTrail /\ [Next]_vars => AllTrail'
  BY CacheTrailsStep, SnapshotTrailsStep, AnswersTrailStep DEF AllTrail
<1> QED
  BY <1>1, <1>2, InductiveInvariant, PTL DEF Spec

\* LocalDocumentsView and ApplyRemoteEvent: a phone's cache is never ahead of the backend, and
\* agrees with it at the same version.
THEOREM CacheAgreesCorrect == Spec => []CacheAgrees
<1>1. AllTrail => CacheAgrees
  BY DEF AllTrail, CacheTrails, Trails, OwnedAlike, CacheAgrees
<1> QED
  BY <1>1, TrailsCorrect, PTL

-----------------------------------------------------------------------------
(* Versions by status *)

\* A post was booked once it has a second version; it may be pending again since.
LEMMA BookedBefore ==
    ASSUME NEW doc, doc # NoDoc, doc.status \in Statuses, doc.version \in Nat,
           Dated(doc.status, doc.version)
    PROVE  doc.version >= 2 <=> doc.status = "BOOKED" \/ Reopened(doc)
<1>1. CASE doc.status = "BOOKED"
  <2>1. doc.version # 1
    BY <1>1 DEF Dated
  <2> QED
    BY <1>1, <2>1 DEF Dated
<1>2. CASE doc.status = "PENDING"
  <2>1. doc.version # 2
    BY <1>2 DEF Dated
  <2> QED
    BY <1>2, <2>1 DEF Reopened
<1> QED
  BY <1>1, <1>2 DEF Statuses

\* The backend's document after a write of its poster or a booking.
LEMMA DatedApplied ==
    ASSUME NEW m \in Mutation, NEW old \in Doc \cup {NoDoc},
           m.op = "update" => old # NoDoc,
           m.op = "set" /\ old # NoDoc => old.ownerId = m.by,
           old # NoDoc => Dated(old.status, old.version)
    PROVE  Dated(Applied(m, old).status, Applied(m, old).version)
<1>1. CASE old = NoDoc
  <2>1. Applied(m, old) = [ownerId |-> m.by, status |-> "PENDING", version |-> 1]
    BY <1>1 DEF Applied, Mutation
  <2>2. Applied(m, old).status = "PENDING" /\ Applied(m, old).version = 1
    BY <2>1
  <2> QED
    BY <2>2 DEF Dated
<1>2. CASE old # NoDoc
  <2>1. PICK v \in Nat, st \in Statuses : v = old.version /\ st = old.status /\ Dated(st, v)
    BY <1>2 DEF Doc
  <2>2. PICK new \in Statuses : new = IF m.op = "set" THEN "PENDING" ELSE "BOOKED"
    BY DEF Statuses
  <2>3. /\ Applied(m, old).status = new
        /\ Applied(m, old).version = IF st = new THEN v ELSE v + 1
    BY <1>2, <2>1, <2>2 DEF Applied
  <2>4. CASE st = new
    BY <2>1, <2>3, <2>4
  <2>5. CASE st # new
    <3>1. v + 1 > 0 /\ (v % 2 = 1 <=> (v + 1) % 2 # 1)
      BY <2>1
    <3>2. st = "PENDING" <=> new # "PENDING"
      BY <2>5 DEF Statuses
    <3> QED
      BY <2>1, <2>3, <2>5, <3>1, <3>2 DEF Dated
  <2> QED
    BY <2>4, <2>5
<1> QED
  BY <1>1, <1>2

LEMMA DatedPosts ==
    ASSUME IInv, AllDated, [Next]_vars, NEW p \in Posts, jobPost'[p] # NoDoc
    PROVE  Dated(jobPost'[p].status, jobPost'[p].version)
<1>1. CASE jobPost'[p] = jobPost[p]
  BY <1>1 DEF AllDated
<1>2. ASSUME NEW d \in Devices, Commit(d), UNCHANGED appVars, jobPost'[p] # jobPost[p]
      PROVE  Dated(jobPost'[p].status, jobPost'[p].version)
  <2>1. PICK m \in Mutation : m = queue[d][uid[d]][NextUnsent(d)] /\ Committed(d, m)
    BY <1>2, CommitsWrite DEF IInv, Committed
  <2>2. p = m.id /\ jobPost'[p] = Applied(m, jobPost[p]) /\ jobPost[p] \in Doc \cup {NoDoc}
    BY <1>2, <2>1 DEF Committed, IInv, TypeOK, FirestoreTypeOK
  <2>3. ASSUME m.op = "set", jobPost[p] # NoDoc PROVE jobPost[p].ownerId = m.by
    <3>1. NextUnsent(d) \in 1 .. Len(queue[d][uid[d]]) /\ uid[d] \in Sessions
      BY <2>1 DEF Committed, IInv, TypeOK, FirestoreTypeOK
    <3>2. SetIn(d, uid[d], NextUnsent(d)) /\ QueuedId(d, uid[d], NextUnsent(d)) = p
      BY <2>1, <2>2, <2>3 DEF SetIn, QueuedId
    <3> QED
      BY <2>1, <2>3, <3>1, <3>2 DEF IInv, Provenance
  <2>4. m.op = "update" => jobPost[p] # NoDoc
    BY <2>1, <2>2 DEF Committed
  <2> QED
    BY <2>2, <2>3, <2>4, DatedApplied DEF AllDated
<1>3. jobPost'[p] = jobPost[p] \/ \E d \in Devices : Commit(d) /\ UNCHANGED appVars
  BY OnlyCommits DEF IInv
<1> QED
  BY <1>1, <1>2, <1>3

\* A post that was booked is booked, or pending again.
LEMMA BookedOrReopened ==
    ASSUME IInv, AllDated, [Next]_vars, NEW p \in Posts, jobPost[p] # NoDoc,
           jobPost[p].status = "BOOKED" \/ Reopened(jobPost[p])
    PROVE  jobPost'[p] # NoDoc /\ (jobPost'[p].status = "BOOKED" \/ Reopened(jobPost'[p]))
<1>1. /\ jobPost[p] \in Doc /\ jobPost'[p] # NoDoc /\ jobPost'[p] \in Doc
      /\ jobPost'[p].version >= jobPost[p].version
  BY VersionsGrow DEF Doc
<1>2. Dated(jobPost[p].status, jobPost[p].version)
  BY DEF AllDated
<1>3. Dated(jobPost'[p].status, jobPost'[p].version)
  BY <1>1, DatedPosts
<1>4. /\ jobPost[p].version \in Nat /\ jobPost[p].status \in Statuses
      /\ jobPost'[p].version \in Nat /\ jobPost'[p].status \in Statuses
  BY <1>1 DEF Doc
<1>5. jobPost[p].version >= 2
  BY <1>2, <1>4, BookedBefore
<1>6. jobPost'[p].version >= 2
  BY <1>1, <1>4, <1>5
<1> QED
  BY <1>1, <1>3, <1>4, <1>6, BookedBefore

LEMMA DatedStep ==
    ASSUME IInv, AllDated, [Next]_vars
    PROVE  AllDated'
<1>1. ASSUME NEW p \in Posts, jobPost'[p] # NoDoc
      PROVE  Dated(jobPost'[p].status, jobPost'[p].version)
  BY <1>1, DatedPosts
<1>2. ASSUME NEW d \in Devices, NEW p \in Posts, cache'[d][p] # NoDoc
      PROVE  Dated(cache'[d][p].status, cache'[d][p].version)
  <2>1. CASE cache'[d][p] = cache[d][p]
    BY <1>2, <2>1 DEF AllDated
  <2>2. CASE /\ WriteSucceeded(d)
             /\ p = queue[d][uid[d]][1].id
             /\ cache'[d][p] = Acknowledged(queue[d][uid[d]][1], acks[d][uid[d]][1], cache[d][p])
    <3>1. PICK m \in Mutation, v \in Nat : m = queue[d][uid[d]][1] /\ v = acks[d][uid[d]][1]
      BY <2>2, AcknowledgedFront DEF IInv
    <3>2. /\ uid[d] \in Sessions /\ 1 \in 1 .. Len(acks[d][uid[d]])
          /\ SetIn(d, uid[d], 1) <=> m.op = "set"
      BY <2>2, <3>1, AcknowledgedFront DEF IInv, SetIn
    <3>3. Dated(IF m.op = "set" THEN "PENDING" ELSE "BOOKED", v)
      BY <3>1, <3>2 DEF AllDated, StatusBy
    <3>4. cache'[d][p] = Acknowledged(m, v, cache[d][p])
      BY <2>2, <3>1
    <3>5. CASE cache[d][p] # NoDoc /\ cache[d][p].version >= v
      <4>1. cache'[d][p] = cache[d][p]
        BY <3>4, <3>5 DEF Acknowledged
      <4> QED
        BY <2>1, <4>1
    <3>6. CASE ~(cache[d][p] # NoDoc /\ cache[d][p].version >= v) /\ m.op = "set"
      <4>1. cache'[d][p] = [ownerId |-> m.by, status |-> "PENDING", version |-> v, committed |-> TRUE]
        BY <3>4, <3>6 DEF Acknowledged
      <4>2. cache'[d][p].status = "PENDING" /\ cache'[d][p].version = v
        BY <4>1
      <4> QED
        BY <3>3, <3>6, <4>2
    <3>7. CASE ~(cache[d][p] # NoDoc /\ cache[d][p].version >= v) /\ m.op = "update"
      <4>1. cache[d][p] \in CachedDoc /\ cache[d][p] # NoDoc
        BY <1>2, <3>4, <3>7 DEF Acknowledged, IInv, TypeOK, FirestoreTypeOK
      <4>2. cache'[d][p] = [cache[d][p] EXCEPT !.status = "BOOKED", !.version = v, !.committed = TRUE]
        BY <3>4, <3>7, <4>1 DEF Acknowledged
      <4>3. cache'[d][p].status = "BOOKED" /\ cache'[d][p].version = v
        BY <4>1, <4>2 DEF CachedDoc
      <4> QED
        BY <3>3, <3>7, <4>3
    <3> QED
      BY <3>5, <3>6, <3>7 DEF Mutation
  <2>3. CASE /\ ApplySnapshot(d)
             /\ snapshot[d][p] # NoDoc
             /\ cache'[d][p] = FromWatch(snapshot[d][p])
    BY <2>3 DEF ApplySnapshot, AllDated, FromWatch
  <2> QED
    BY <2>1, <2>2, <2>3, CacheMoves DEF IInv
<1>3. ASSUME NEW d \in Devices, NEW p \in Posts, snapshot'[d] # NoSnapshot, snapshot'[d][p] # NoDoc
      PROVE  Dated(snapshot'[d][p].status, snapshot'[d][p].version)
  <2>1. snapshot'[d] = snapshot[d] \/ snapshot'[d] = jobPost
    BY <1>3, SnapshotMoves DEF IInv
  <2> QED
    BY <1>3, <2>1 DEF AllDated
<1>4. ASSUME NEW e \in Devices, NEW s \in Sessions, NEW i \in 1 .. Len(acks'[e][s])
      PROVE  Dated(StatusBy(e, s, i), acks[e][s][i])'
  <2>1. ASSUME NEW j \in 1 .. Len(acks[e][s]), acks'[e][s][i] = acks[e][s][j],
               SetIn(e, s, i)' <=> SetIn(e, s, j)
        PROVE  Dated(StatusBy(e, s, i), acks[e][s][i])'
    <3>1. Dated(StatusBy(e, s, j), acks[e][s][j])
      BY DEF AllDated
    <3> QED
      BY <2>1, <3>1 DEF StatusBy, Dated
  <2>2. ASSUME Commit(e), UNCHANGED appVars, s = uid[e], i = NextUnsent(e), queue' = queue,
               acks'[e][s][i] = Applied(queue[e][s][i], jobPost[queue[e][s][i].id]).version
        PROVE  Dated(StatusBy(e, s, i), acks[e][s][i])'
    <3>1. PICK m : m = queue[e][s][i] /\ Committed(e, m)
      BY <2>2, CommitsWrite DEF IInv
    <3>2. PICK p \in Posts : p = m.id
      BY <3>1 DEF Committed, Mutation
    <3>3. jobPost'[p] = Applied(m, jobPost[p]) /\ jobPost'[p] # NoDoc
      BY <3>1, <3>2, NoDocAssumption DEF Committed, IInv, TypeOK, FirestoreTypeOK
    <3>4. jobPost'[p].status = IF m.op = "set" THEN "PENDING" ELSE "BOOKED"
      BY <3>3 DEF Applied
    <3>5. Dated(jobPost'[p].status, jobPost'[p].version)
      BY <1>1, <3>3
    <3> QED
      BY <2>2, <3>1, <3>2, <3>3, <3>4, <3>5 DEF StatusBy, SetIn, Dated
  <2> QED
    BY <2>1, <2>2, AnswersMove DEF IInv
<1> QED
  BY <1>1, <1>2, <1>3, <1>4 DEF AllDated

\* Applied and Acknowledged: a post changes by turning from pending to booked or back, however
\* often its writes are sent again, and the version tells which, wherever it is told of.
THEOREM DatedCorrect == Spec => []AllDated
<1>1. Init => AllDated
  <2> SUFFICES ASSUME Init PROVE AllDated
    OBVIOUS
  <2>1. \A d \in Devices, s \in Sessions : Len(acks[d][s]) = 0
    BY DEF Init, FirestoreInit
  <2> QED
    BY <2>1 DEF Init, FirestoreInit, AllDated
<1>2. IInv /\ AllDated /\ [Next]_vars => AllDated'
  BY DatedStep
<1> QED
  BY <1>1, <1>2, InductiveInvariant, PTL DEF Spec

-----------------------------------------------------------------------------
(* BookingKept *)

LEMMA RefusalsStay ==
    ASSUME [Next]_vars
    PROVE  refusals \subseteq refusals'
<1>1. ASSUME NEW d \in Devices, DeviceStep(d) PROVE refusals \subseteq refusals'
  BY <1>1 DEF DeviceStep, OpenForm, CloseForm, OwnerLoaded, BookJobButtonPressed, CloseDetail,
     WriteSucceeded, WriteFailed, Listen, SignOut, Restart, SignIn, PostButtonPressed, OpenDetail, appVars
<1>2. ASSUME NEW p \in Posts, UploadStep(p) PROVE refusals' = refusals
  BY <1>2 DEF UploadStep, ImageStored, UploadFailed, DownloadURLFailed, PostJob
<1> QED
  BY <1>1, <1>2 DEF Next, Background, vars, appVars

\* Only Book says "Job Booked".
LEMMA ToldBookedSteps ==
    ASSUME [Next]_vars
    PROVE  toldBooked' = toldBooked \/ \E d \in Devices : BookJobButtonPressed(d)
<1>1. ASSUME NEW d \in Devices, DeviceStep(d), ~BookJobButtonPressed(d)
      PROVE  toldBooked' = toldBooked
  BY <1>1 DEF DeviceStep, OpenForm, CloseForm, OwnerLoaded, CloseDetail,
     WriteSucceeded, WriteFailed, Listen, SignOut, Restart, SignIn, PostButtonPressed, OpenDetail, appVars
<1>2. ASSUME NEW p \in Posts, UploadStep(p) PROVE toldBooked' = toldBooked
  BY <1>2 DEF UploadStep, ImageStored, UploadFailed, DownloadURLFailed, PostJob
<1> QED
  BY <1>1, <1>2 DEF Next, Background, vars, appVars

\* An answered booking is a booking, which a setData that was sent again may have undone.
LEMMA AnsweredIsBooked ==
    ASSUME IInv, AnswersTrail, AllDated, NEW d \in Devices, NEW s \in Sessions,
           NEW i \in 1 .. Len(acks[d][s]), ~SetIn(d, s, i)
    PROVE  /\ jobPost[QueuedId(d, s, i)] # NoDoc
           /\ \/ jobPost[QueuedId(d, s, i)].status = "BOOKED"
              \/ Reopened(jobPost[QueuedId(d, s, i)])
<1>1. PICK p \in Posts : p = QueuedId(d, s, i)
  BY AnsweredFacts, Lengths DEF IInv, QueuedId, Mutation
<1>2. PICK v \in Nat : v = acks[d][s][i]
  BY DEF IInv, TypeOK, FirestoreTypeOK
<1>3. Trails(p, "BOOKED", v) /\ Dated("BOOKED", v)
  BY <1>1, <1>2 DEF AnswersTrail, AllDated, StatusBy
<1>4. /\ jobPost[p] # NoDoc
      /\ jobPost[p].version \in Nat /\ jobPost[p].status \in Statuses
      /\ jobPost[p].version >= v
      /\ Dated(jobPost[p].status, jobPost[p].version)
  BY <1>2, <1>3 DEF Trails, AllDated, IInv, TypeOK, FirestoreTypeOK, Doc
<1>5. v >= 2
  <2>1. v # 1 /\ v > 0
    BY <1>3 DEF Dated
  <2> QED
    BY <2>1
<1>6. jobPost[p].version >= 2
  BY <1>4, <1>5
<1> QED
  BY <1>1, <1>4, <1>6, BookedBefore

\* A queued booking stays queued until it is answered, when it has reached the backend, or
\* refused.
LEMMA QueuedStep ==
    ASSUME IInv, AnswersTrail, AllDated, [Next]_vars,
           NEW u \in Users, NEW p \in Posts, Queued("update", u, p)
    PROVE  \/ Queued("update", u, p)'
           \/ jobPost'[p] # NoDoc /\ (jobPost'[p].status = "BOOKED" \/ Reopened(jobPost'[p]))
           \/ Refused("update", u, p)'
<1>0. PICK e \in Devices, s \in Sessions : \E i \in 1 .. Len(queue[e][s]) :
          queue[e][s][i].op = "update" /\ queue[e][s][i].by = u /\ queue[e][s][i].id = p
  BY DEF Queued, IInv, TypeOK, FirestoreTypeOK
<1>1. PICK i \in 1 .. Len(queue[e][s]) :
          queue[e][s][i].op = "update" /\ queue[e][s][i].by = u /\ queue[e][s][i].id = p
  BY <1>0
<1>f. TypeOK /\ TypeOK' /\ Len(queue[e][s]) \in Nat
  BY TypeStep, Lengths DEF IInv
<1>2. ASSUME NEW j \in 1 .. Len(queue'[e][s]),
             queue'[e][s][j].op = "update", queue'[e][s][j].by = u, queue'[e][s][j].id = p
      PROVE  Queued("update", u, p)'
  <2>1. queue'[e][s] \in Seq(Mutation)
    BY <1>f DEF TypeOK, FirestoreTypeOK
  <2>2. j \in DOMAIN queue'[e][s]
    BY <2>1
  <2> QED
    BY <1>2, <2>2 DEF Queued
<1>3. CASE Kept \/ \E d \in Devices : Forgets(d)
  BY <1>1, <1>2, <1>3 DEF Kept, Forgets, SameWrites
<1>4. ASSUME NEW d \in Devices, NEW m \in Mutation, Appended(d, m) PROVE Queued("update", u, p)'
  <2>1. i \in 1 .. Len(queue'[e][s]) /\ queue'[e][s][i] = queue[e][s][i]
    BY <1>f, <1>4 DEF Appended
  <2> QED
    BY <1>1, <1>2, <2>1
<1>5. ASSUME NEW r \in Posts, PostJob(r) PROVE Queued("update", u, p)'
  <2>1. SetPost(r) \in Mutation /\ upload[r].dev \in Devices
    BY <1>5, <1>f, SetPostType DEF PostJob
  <2> QED
    BY <1>4, <1>5, <1>f, <2>1, AppendsWrite DEF PostJob
<1>6. ASSUME NEW d \in Devices, BookJobButtonPressed(d) PROVE Queued("update", u, p)'
  <2>1. BookPost(d) \in Mutation
    BY <1>6, <1>f, BookPostType DEF BookJobButtonPressed
  <2> QED
    BY <1>4, <1>6, <1>f, <2>1, AppendsWrite DEF BookJobButtonPressed
\* Whatever takes the front off a queue moves the other writes up.
<1>7. ASSUME NEW d \in Devices, Popped(d), ~(e = d /\ s = uid[d] /\ i = 1)
      PROVE  Queued("update", u, p)'
  <2>1. CASE e = d /\ s = uid[d]
    <3>1. i - 1 \in 1 .. Len(queue'[e][s]) /\ queue'[e][s][i - 1] = queue[e][s][i]
      <4>1. PICK k \in 1 .. Len(queue[e][s]) - 1 : i = k + 1
        BY <1>7, <1>f, <2>1
      <4>2. Len(queue'[e][s]) = Len(queue[e][s]) - 1 /\ queue'[e][s][k] = queue[e][s][k + 1]
        BY <1>7, <2>1 DEF Popped
      <4> QED
        BY <4>1, <4>2
    <3> QED
      BY <1>1, <1>2, <3>1
  <2>2. CASE ~(e = d /\ s = uid[d])
    BY <1>1, <1>2, <1>7, <2>2 DEF Popped
  <2> QED
    BY <2>1, <2>2
<1>8. ASSUME NEW d \in Devices, WriteSucceeded(d)
      PROVE  \/ Queued("update", u, p)'
             \/ jobPost'[p] # NoDoc /\ (jobPost'[p].status = "BOOKED" \/ Reopened(jobPost'[p]))
  <2>1. Popped(d) /\ jobPost' = jobPost /\ 1 \in 1 .. Len(acks[d][uid[d]])
    BY <1>8, AnswersWrite, AcknowledgedFront DEF IInv, WriteSucceeded, Answered
  <2>2. CASE e = d /\ s = uid[d] /\ i = 1
    <3>1. ~SetIn(e, s, 1) /\ QueuedId(e, s, 1) = p
      BY <1>1, <2>2 DEF SetIn, QueuedId
    <3> QED
      BY <2>1, <2>2, <3>1, AnsweredIsBooked
  <2> QED
    BY <1>7, <2>1, <2>2
<1>9. ASSUME NEW d \in Devices, WriteFailed(d)
      PROVE  Queued("update", u, p)' \/ Refused("update", u, p)'
  <2>1. Popped(d)
    BY <1>9, <1>f, RefusesWrite DEF WriteFailed
  <2>2. CASE e = d /\ s = uid[d] /\ i = 1
    <3>1. Head(queue[e][s]) = queue[e][s][1]
      <4>1. queue[e][s] \in Seq(Mutation) /\ queue[e][s] # << >>
        BY <1>1, <1>f, <2>2 DEF TypeOK, FirestoreTypeOK
      <4> QED
        BY <4>1
    <3>2. [op |-> "update", id |-> p, by |-> u] \in refusals'
      BY <1>1, <1>9, <2>2, <3>1 DEF WriteFailed
    <3> QED
      BY <3>2 DEF Refused
  <2> QED
    BY <1>7, <2>1, <2>2
<1>10. ASSUME NEW d \in Devices, Commit(d) PROVE Queued("update", u, p)'
  BY <1>1, <1>2, <1>10 DEF Commit
<1> QED
  BY <1>f, <1>3, <1>5, <1>6, <1>8, <1>9, <1>10, StepKinds DEF QueueStep

LEMMA BookingKeptStep ==
    ASSUME IInv, AllTrail, AllDated, BookingKept, [Next]_vars
    PROVE  BookingKept'
<1> SUFFICES ASSUME NEW u \in Users, NEW p \in Posts, <<u, p>> \in toldBooked'
             PROVE  \/ jobPost'[p] # NoDoc /\ jobPost'[p].status = "BOOKED"
                    \/ Queued("update", u, p)'
                    \/ Refused("update", u, p)'
                    \/ Reopened(jobPost'[p])
  BY DEF BookingKept, Reopened
<1>1. AnswersTrail /\ TypeOK /\ TypeOK'
  BY TypeStep DEF AllTrail, IInv
<1>2. CASE <<u, p>> \in toldBooked
  <2>1. CASE jobPost[p] # NoDoc /\ (jobPost[p].status = "BOOKED" \/ Reopened(jobPost[p]))
    BY <2>1, BookedOrReopened
  <2>2. CASE Queued("update", u, p)
    BY <1>1, <2>2, QueuedStep
  <2>3. CASE Refused("update", u, p)
    BY <2>3, RefusalsStay DEF Refused
  <2> QED
    BY <1>2, <2>1, <2>2, <2>3 DEF BookingKept, Reopened
<1>3. CASE <<u, p>> \notin toldBooked
  <2>1. PICK d \in Devices : BookJobButtonPressed(d)
    BY <1>3, ToldBookedSteps
  <2>2. u = uid[d] /\ p = detail[d].post /\ BookPost(d) \in Mutation /\ u \in Sessions
    BY <1>1, <1>3, <2>1, BookPostType DEF BookJobButtonPressed, Sessions
  <2>3. Appended(d, BookPost(d))
    BY <1>1, <2>1, <2>2, AppendsWrite DEF BookJobButtonPressed
  <2>4. PICK n \in Nat : n = Len(queue[d][u]) + 1 /\ n = Len(queue'[d][u])
    BY <1>1, <2>2, <2>3, Lengths DEF Appended
  <2>5. queue'[d][u][n] = BookPost(d) /\ queue'[d][u] \in Seq(Mutation) /\ n > 0
    BY <1>1, <2>2, <2>3, <2>4, Lengths DEF Appended, TypeOK, FirestoreTypeOK
  <2>6. n \in DOMAIN queue'[d][u]
    BY <2>4, <2>5
  <2> QED
    BY <2>2, <2>5, <2>6 DEF Queued, BookPost
<1> QED
  BY <1>2, <1>3

\* bookJobButtonPressed: "Job Booked" is shown for what the backend has, the phone still has to
\* send, the backend refused or the poster's phone has undone by sending its setData again; it is
\* not lost by restarts, changes of account or streams that break.
THEOREM BookingKeptCorrect == Spec => []BookingKept
<1>1. Init => BookingKept
  BY DEF Init, BookingKept
<1>2. IInv /\ AllTrail /\ AllDated /\ BookingKept /\ [Next]_vars => BookingKept'
  BY BookingKeptStep
<1> QED
  BY <1>1, <1>2, InductiveInvariant, TrailsCorrect, DatedCorrect, PTL DEF Spec

-----------------------------------------------------------------------------
(* NoFlicker *)

LEMMA WatchGoesOnStep ==
    ASSUME IInv, AllTrail, WatchGoesOn, [Next]_vars
    PROVE  WatchGoesOn'
<1> SUFFICES ASSUME NEW d \in Devices, NEW p \in Posts, snapshot'[d] # NoSnapshot,
                    cache'[d][p] # NoDoc, ~cache'[d][p].committed
             PROVE  snapshot'[d][p] # NoDoc /\ snapshot'[d][p].version >= cache'[d][p].version
  BY DEF WatchGoesOn
<1>1. CASE snapshot'[d] = snapshot[d] /\ ~ApplySnapshot(d)
  <2>1. CASE cache'[d][p] = cache[d][p]
    BY <1>1, <2>1 DEF WatchGoesOn
  <2>2. CASE /\ WriteSucceeded(d)
             /\ cache'[d][p] = Acknowledged(queue[d][uid[d]][1], acks[d][uid[d]][1], cache[d][p])
    <3>1. PICK m \in Mutation, v \in Nat : m = queue[d][uid[d]][1] /\ v = acks[d][uid[d]][1]
      BY <2>2, AcknowledgedFront DEF IInv
    <3>2. cache'[d][p] = Acknowledged(m, v, cache[d][p])
      BY <2>2, <3>1
    <3>3. CASE cache[d][p] # NoDoc /\ cache[d][p].version >= v
      BY <2>1, <3>2, <3>3 DEF Acknowledged
    <3>4. CASE ~(cache[d][p] # NoDoc /\ cache[d][p].version >= v) /\ m.op = "set"
      <4>1. cache'[d][p] = [ownerId |-> m.by, status |-> "PENDING", version |-> v, committed |-> TRUE]
        BY <3>2, <3>4 DEF Acknowledged
      <4> QED
        BY <4>1
    <3>5. CASE ~(cache[d][p] # NoDoc /\ cache[d][p].version >= v) /\ m.op = "update"
      <4>1. cache[d][p] \in CachedDoc /\ cache[d][p] # NoDoc
        BY <3>2, <3>5 DEF Acknowledged, IInv, TypeOK, FirestoreTypeOK
      <4>2. cache'[d][p] = [cache[d][p] EXCEPT !.status = "BOOKED", !.version = v, !.committed = TRUE]
        BY <3>2, <3>5, <4>1 DEF Acknowledged
      <4> QED
        BY <4>1, <4>2 DEF CachedDoc
    <3> QED
      BY <3>3, <3>4, <3>5 DEF Mutation
  <2> QED
    BY <1>1, <2>1, <2>2, CacheMoves DEF IInv
\* A new snapshot is of the backend, which the cache trails.
<1>2. CASE snapshot'[d] = jobPost /\ cache' = cache
  <2>1. jobPost[p] # NoDoc /\ cache[d][p].version <= jobPost[p].version
    BY <1>2 DEF AllTrail, CacheTrails, Trails
  <2>2. jobPost[p].version \in Nat /\ cache[d][p].version \in Nat
    BY <1>2, <2>1, DocFields DEF IInv, TypeOK, FirestoreTypeOK, Doc
  <2> QED
    BY <1>2, <2>1, <2>2
<1> QED
  BY <1>1, <1>2, SnapshotMoves DEF IInv

\* A cached document stays, and never gets older: an older snapshot does not replace it.
LEMMA CacheGoesOn ==
    ASSUME IInv, WatchGoesOn, [Next]_vars,
           NEW d \in Devices, NEW p \in Posts, cache[d][p] # NoDoc
    PROVE  cache'[d][p] # NoDoc /\ cache'[d][p].version >= cache[d][p].version
<1>0. PICK c \in CachedDoc : c = cache[d][p] /\ c.version \in Nat /\ c # NoDoc
  BY DEF IInv, TypeOK, FirestoreTypeOK, CachedDoc
<1>1. CASE cache'[d][p] = cache[d][p]
  BY <1>0, <1>1
<1>2. CASE /\ WriteSucceeded(d)
           /\ cache'[d][p] = Acknowledged(queue[d][uid[d]][1], acks[d][uid[d]][1], cache[d][p])
  <2>1. PICK m \in Mutation, v \in Nat : m = queue[d][uid[d]][1] /\ v = acks[d][uid[d]][1]
    BY <1>2, AcknowledgedFront DEF IInv
  <2>2. cache'[d][p] = Acknowledged(m, v, c)
    BY <1>0, <1>2, <2>1
  <2>3. CASE c.version >= v
    BY <1>0, <1>1, <2>2, <2>3 DEF Acknowledged
  <2>4. CASE ~(c.version >= v) /\ m.op = "set"
    <3>1. PICK n \in CachedDoc :
              n = [ownerId |-> m.by, status |-> "PENDING", version |-> v, committed |-> TRUE]
      BY <2>1 DEF CachedDoc, Mutation, Statuses
    <3>2. cache'[d][p] = n
      BY <1>0, <2>2, <2>4, <3>1 DEF Acknowledged
    <3>3. n.version = v
      BY <3>1
    <3> QED
      BY <1>0, <2>1, <2>4, <3>2, <3>3, NoDocAssumption
  <2>5. CASE ~(c.version >= v) /\ m.op = "update"
    <3>1. PICK n \in CachedDoc : n = [c EXCEPT !.status = "BOOKED", !.version = v, !.committed = TRUE]
      BY DEF CachedDoc, Statuses
    <3>2. cache'[d][p] = n
      BY <1>0, <2>2, <2>5, <3>1 DEF Acknowledged
    <3>3. n.version = v
      BY <3>1 DEF CachedDoc
    <3> QED
      BY <1>0, <2>1, <2>5, <3>2, <3>3, NoDocAssumption
  <2> QED
    BY <2>3, <2>4, <2>5 DEF Mutation
<1>3. CASE /\ ApplySnapshot(d)
           /\ snapshot[d][p] # NoDoc
           /\ Accepts(cache[d][p], snapshot[d][p])
           /\ cache'[d][p] = FromWatch(snapshot[d][p])
  <2>1. snapshot[d] # NoSnapshot
    BY <1>3 DEF ApplySnapshot
  <2>2. PICK doc \in Doc : doc = snapshot[d][p] /\ doc.version \in Nat
    BY <1>3, <2>1, DocFields DEF IInv
  <2>3. FromWatch(doc) \in CachedDoc /\ FromWatch(doc).version = doc.version
    BY DEF FromWatch, Doc, CachedDoc
  <2>4. doc.version >= c.version
    <3>1. CASE c.committed
      BY <1>0, <1>3, <2>2, <3>1 DEF Accepts
    <3>2. CASE ~c.committed
      BY <1>0, <2>1, <2>2, <3>2 DEF WatchGoesOn
    <3> QED
      BY <3>1, <3>2
  <2> QED
    BY <1>0, <1>3, <2>2, <2>3, <2>4, NoDocAssumption
<1> QED
  BY <1>1, <1>2, <1>3, CacheMoves DEF IInv

\* It stays booked, or is known to be pending again.
LEMMA BookedStaysCached ==
    ASSUME IInv, AllDated, WatchGoesOn, [Next]_vars,
           NEW d \in Devices, NEW p \in Posts, cache[d][p] # NoDoc, cache[d][p].status = "BOOKED"
    PROVE  cache'[d][p].status = "BOOKED" \/ Reopened(cache'[d][p])
<1>1. /\ cache'[d][p] # NoDoc /\ cache'[d][p].version >= cache[d][p].version
      /\ cache[d][p] \in CachedDoc /\ cache'[d][p] \in CachedDoc
  BY CacheGoesOn, TypeStep DEF IInv, TypeOK, FirestoreTypeOK
<1>2. /\ cache[d][p].version \in Nat /\ cache[d][p].status \in Statuses
      /\ cache'[d][p].version \in Nat /\ cache'[d][p].status \in Statuses
  BY <1>1 DEF CachedDoc
<1>3. /\ Dated(cache[d][p].status, cache[d][p].version)
      /\ Dated(cache'[d][p].status, cache'[d][p].version)
  BY <1>1, DatedStep DEF AllDated
<1>4. cache[d][p].version >= 2
  BY <1>2, <1>3, BookedBefore
<1>5. cache'[d][p].version >= 2
  BY <1>1, <1>2, <1>4
<1> QED
  BY <1>1, <1>2, <1>3, <1>5, BookedBefore

(* What a queue over a cached document shows; of constants, so that it can be *)
(* said of the state before a step and of the one after it.                  *)

WritesOf(q, p) == {i \in DOMAIN q : q[i].id = p}

Latest(q, p) == CHOOSE j \in WritesOf(q, p) : \A k \in WritesOf(q, p) : k <= j

ShowsBooked(q, c, p) ==
    /\ c # NoDoc \/ {i \in WritesOf(q, p) : q[i].op = "set"} # {}
    /\ (IF WritesOf(q, p) = {} THEN c.status
        ELSE IF q[Latest(q, p)].op = "set" THEN "PENDING" ELSE "BOOKED") = "BOOKED"

LEMMA ShownBookedIs ==
    ASSUME NEW d, NEW p
    PROVE  /\ ShownBooked(d, p) <=> ShowsBooked(queue[d][uid[d]], cache[d][p], p)
           /\ ShownBooked(d, p)' <=> ShowsBooked(queue'[d][uid'[d]], cache'[d][p], p)
  BY DEF ShownBooked, Visible, LocalStatus, LastWrite, Writes, Sets,
     ShowsBooked, WritesOf, Latest

Untouched(q, p) == \A k \in 1 .. Len(q) : q[k].id # p

PostedIn(q, p) == \E k \in 1 .. Len(q) : q[k].id = p /\ q[k].op = "set"

BookedLast(q, p) ==
    \E i \in 1 .. Len(q) : /\ q[i].id = p /\ q[i].op = "update"
                           /\ \A k \in 1 .. Len(q) : q[k].id = p => k <= i

LEMMA ShowsBookedWhen ==
    ASSUME NEW q \in Seq(Mutation), NEW c, NEW p
    PROVE  ShowsBooked(q, c, p) <=>
               IF Untouched(q, p) THEN c # NoDoc /\ c.status = "BOOKED"
               ELSE BookedLast(q, p) /\ (c # NoDoc \/ PostedIn(q, p))
<1>0. PICK n \in Nat : n = Len(q) /\ DOMAIN q = 1 .. n /\ \A i \in 1 .. n : q[i] \in Mutation
  OBVIOUS
<1>1. CASE Untouched(q, p)
  <2>1. WritesOf(q, p) = {}
    BY <1>0, <1>1 DEF Untouched, WritesOf
  <2> QED
    BY <1>1, <2>1 DEF ShowsBooked
<1>2. CASE ~Untouched(q, p)
  <2>1. WritesOf(q, p) # {} /\ WritesOf(q, p) \subseteq 1 .. n
    BY <1>0, <1>2 DEF Untouched, WritesOf
  <2>2. PICK m \in WritesOf(q, p) : \A k \in WritesOf(q, p) : k <= m
    BY <2>1, GreatestIndex
  <2>3. /\ Latest(q, p) \in WritesOf(q, p)
        /\ \A k \in WritesOf(q, p) : k <= Latest(q, p)
    BY <2>2 DEF Latest
  <2>4. PICK l \in 1 .. n : l = Latest(q, p) /\ q[l].id = p /\ \A k \in WritesOf(q, p) : k <= l
    BY <2>1, <2>3 DEF WritesOf
  <2>5. q[l].op # "set" <=> BookedLast(q, p)
    <3>1. ASSUME NEW i \in 1 .. n, q[i].id = p, \A k \in 1 .. n : q[k].id = p => k <= i
          PROVE  i = l
      <4>1. i \in WritesOf(q, p)
        BY <1>0, <3>1 DEF WritesOf
      <4>2. i <= l /\ l <= i
        BY <2>4, <3>1, <4>1
      <4> QED
        BY <4>2
    <3>2. \A k \in 1 .. n : q[k].id = p => k <= l
      BY <1>0, <2>4 DEF WritesOf
    <3>3. q[l].op \in {"set", "update"}
      BY <1>0 DEF Mutation
    <3> QED
      BY <1>0, <2>4, <3>1, <3>2, <3>3 DEF BookedLast
  <2>6. {i \in WritesOf(q, p) : q[i].op = "set"} # {} <=> PostedIn(q, p)
    BY <1>0 DEF WritesOf, PostedIn
  <2> QED
    BY <1>2, <2>1, <2>4, <2>5, <2>6 DEF ShowsBooked
<1> QED
  BY <1>1, <1>2

\* The queue of the user of d before and after a step, over the cached document of p.
LEMMA StillShown ==
    ASSUME NEW q \in Seq(Mutation), NEW r \in Seq(Mutation), NEW c, NEW b, NEW p,
           c # NoDoc => b # NoDoc /\ (c.status = "BOOKED" => b.status = "BOOKED"),
           ShowsBooked(q, c, p),
           \A k \in 1 .. Len(q) : k \in 1 .. Len(r) /\ r[k].id = q[k].id /\ r[k].op = q[k].op,
           \A k \in 1 .. Len(r) : k \in 1 .. Len(q) \/ r[k].id # p \/ r[k].op = "update"
    PROVE  ShowsBooked(r, b, p)
<1>0. Len(q) \in Nat /\ Len(r) \in Nat
  OBVIOUS
<1>1. CASE Untouched(r, p)
  <2>1. Untouched(q, p)
    BY <1>1 DEF Untouched
  <2> QED
    BY <1>1, <2>1, ShowsBookedWhen
<1>2. CASE ~Untouched(r, p)
  <2>1. c # NoDoc \/ PostedIn(q, p)
    BY ShowsBookedWhen
  <2>2. b # NoDoc \/ PostedIn(r, p)
    BY <2>1 DEF PostedIn
  <2>3. BookedLast(r, p)
    <3>1. PICK l \in 1 .. Len(r) : r[l].id = p /\ \A k \in 1 .. Len(r) : r[k].id = p => k <= l
      <4>1. PICK S : S = {k \in 1 .. Len(r) : r[k].id = p}
        OBVIOUS
      <4>2. S # {} /\ S \subseteq 1 .. Len(r)
        BY <1>2, <4>1 DEF Untouched
      <4>3. PICK l \in S : \A k \in S : k <= l
        BY <1>0, <4>2, GreatestIndex
      <4> QED
        BY <4>1, <4>3
    <3>2. CASE l \in 1 .. Len(q)
      <4>1. ~Untouched(q, p)
        BY <3>1, <3>2 DEF Untouched
      <4>2. PICK i \in 1 .. Len(q) : /\ q[i].id = p /\ q[i].op = "update"
                                     /\ \A k \in 1 .. Len(q) : q[k].id = p => k <= i
        BY <4>1, ShowsBookedWhen DEF BookedLast
      <4>3. l <= i /\ i <= l
        BY <3>1, <3>2, <4>2
      <4> QED
        BY <3>1, <4>2, <4>3 DEF BookedLast
    <3>3. CASE l \notin 1 .. Len(q)
      BY <3>1, <3>3 DEF BookedLast
    <3> QED
      BY <3>2, <3>3
  <2> QED
    BY <1>2, <2>2, <2>3, ShowsBookedWhen
<1> QED
  BY <1>1, <1>2

\* The front of the queue leaves it, with its answer put into the cache.
LEMMA StillShownWithoutFront ==
    ASSUME NEW q \in Seq(Mutation), NEW r \in Seq(Mutation), NEW c, NEW b, NEW p,
           c # NoDoc => b # NoDoc /\ (c.status = "BOOKED" => b.status = "BOOKED"),
           ShowsBooked(q, c, p),
           Len(q) > 0, Len(r) = Len(q) - 1, \A k \in 1 .. Len(q) - 1 : r[k] = q[k + 1],
           q[1].id = p /\ q[1].op = "set" => b # NoDoc,
           q[1].id = p /\ q[1].op = "update" /\ c # NoDoc => b.status = "BOOKED"
    PROVE  ShowsBooked(r, b, p)
<1>0. /\ Len(q) \in Nat /\ Len(r) \in Nat /\ 1 \in 1 .. Len(q)
      /\ \A k \in 1 .. Len(q) : k # 1 => k - 1 \in 1 .. Len(r) /\ r[k - 1] = q[k]
      /\ \A k \in 1 .. Len(r) : k + 1 \in 1 .. Len(q) /\ r[k] = q[k + 1]
  <2>1. \A k \in 1 .. Len(q) : k # 1 => k - 1 \in 1 .. Len(q) - 1 /\ (k - 1) + 1 = k
    OBVIOUS
  <2> QED
    BY <2>1
<1>1. c # NoDoc \/ PostedIn(q, p)
  BY ShowsBookedWhen
<1>2. CASE Untouched(r, p)
  <2>1. CASE q[1].id = p
    <3>1. PICK i \in 1 .. Len(q) : /\ q[i].id = p /\ q[i].op = "update"
                                   /\ \A k \in 1 .. Len(q) : q[k].id = p => k <= i
      BY <1>0, <2>1, ShowsBookedWhen DEF Untouched, BookedLast
    <3>2. \A k \in 1 .. Len(q) : q[k].id = p => k = 1
      BY <1>0, <1>2 DEF Untouched
    <3>3. q[1].op = "update" /\ ~PostedIn(q, p)
      BY <3>1, <3>2 DEF PostedIn
    <3> QED
      BY <1>1, <1>2, <2>1, <3>3, ShowsBookedWhen
  <2>2. CASE q[1].id # p
    <3>1. Untouched(q, p)
      BY <1>0, <1>2, <2>2 DEF Untouched
    <3> QED
      BY <1>2, <3>1, ShowsBookedWhen
  <2> QED
    BY <2>1, <2>2
<1>3. CASE ~Untouched(r, p)
  <2>1. PICK k \in 1 .. Len(q) : k # 1 /\ q[k].id = p
    <3>1. PICK j \in 1 .. Len(r) : r[j].id = p
      BY <1>3 DEF Untouched
    <3>2. j + 1 \in 1 .. Len(q) /\ j + 1 # 1 /\ q[j + 1].id = p
      BY <1>0, <3>1
    <3> QED
      BY <3>2
  <2>2. PICK i \in 1 .. Len(q) : /\ q[i].id = p /\ q[i].op = "update"
                                 /\ \A j \in 1 .. Len(q) : q[j].id = p => j <= i
    BY <2>1, ShowsBookedWhen DEF Untouched, BookedLast
  <2>3. i # 1
    BY <2>1, <2>2
  <2>4. BookedLast(r, p)
    <3>1. i - 1 \in 1 .. Len(r) /\ r[i - 1].id = p /\ r[i - 1].op = "update"
      BY <1>0, <2>2, <2>3
    <3>2. ASSUME NEW j \in 1 .. Len(r), r[j].id = p PROVE j <= i - 1
      <4>1. j + 1 <= i
        BY <1>0, <2>2, <3>2
      <4> QED
        BY <4>1
    <3> QED
      BY <3>1, <3>2 DEF BookedLast
  <2>5. b # NoDoc \/ PostedIn(r, p)
    <3>1. ASSUME PostedIn(q, p), b = NoDoc PROVE PostedIn(r, p)
      <4>1. PICK j \in 1 .. Len(q) : q[j].id = p /\ q[j].op = "set"
        BY <3>1 DEF PostedIn
      <4>2. j - 1 \in 1 .. Len(r) /\ r[j - 1] = q[j]
        BY <1>0, <3>1, <4>1
      <4> QED
        BY <4>1, <4>2 DEF PostedIn
    <3> QED
      BY <1>1, <3>1
  <2> QED
    BY <1>3, <2>4, <2>5, ShowsBookedWhen
<1> QED
  BY <1>2, <1>3

\* A post that a phone shows has been posted: its id is not drawn again.
LEMMA ShownIsPosted ==
    ASSUME IInv, AllTrail, NEW d \in Devices, NEW p \in Posts,
           ShowsBooked(queue[d][uid[d]], cache[d][p], p)
    PROVE  InStage(p, "posted")
<1>1. PICK q \in Seq(Mutation) : q = queue[d][uid[d]] /\ uid[d] \in Sessions
  BY DEF IInv, TypeOK, FirestoreTypeOK
<1>2. cache[d][p] # NoDoc \/ PostedIn(q, p)
  BY <1>1, ShowsBookedWhen
<1>3. CASE cache[d][p] # NoDoc
  BY <1>3 DEF AllTrail, CacheTrails, Trails, IInv, Provenance
<1>4. CASE PostedIn(q, p)
  BY <1>1, <1>4 DEF PostedIn, IInv, Provenance, SetIn, QueuedId
<1> QED
  BY <1>2, <1>3, <1>4

LEMMA FlickerStep ==
    ASSUME IInv, AllTrail, AllDated, WatchGoesOn, [Next]_vars,
           NEW d \in Devices, NEW p \in Posts, ~Reopened(cache'[d][p]),
           ShowsBooked(queue[d][uid[d]], cache[d][p], p), uid'[d] = uid[d], ~RejectWrite(d)
    PROVE  ShowsBooked(queue'[d][uid'[d]], cache'[d][p], p)
<1>1. PICK u \in Sessions : u = uid[d] /\ u = uid'[d]
  BY DEF IInv, TypeOK, FirestoreTypeOK
<1>2. PICK q \in Seq(Mutation), r \in Seq(Mutation) : q = queue[d][u] /\ r = queue'[d][u]
  <2>1. TypeOK'
    BY TypeStep DEF IInv
  <2> QED
    BY <2>1 DEF IInv, TypeOK, FirestoreTypeOK
<1>3. PICK c, b : c = cache[d][p] /\ b = cache'[d][p] /\ ~Reopened(b)
  OBVIOUS
<1>4. ShowsBooked(q, c, p) /\ Len(q) \in Nat /\ Len(r) \in Nat
  BY <1>1, <1>2, <1>3
<1>5. c # NoDoc => b # NoDoc /\ (c.status = "BOOKED" => b.status = "BOOKED")
  BY <1>3, CacheGoesOn, BookedStaysCached
<1> SUFFICES ShowsBooked(r, b, p)
  BY <1>1, <1>2, <1>3
<1>6. ASSUME \A k \in 1 .. Len(q) : k \in 1 .. Len(r) /\ r[k].id = q[k].id /\ r[k].op = q[k].op,
             \A k \in 1 .. Len(r) : k \in 1 .. Len(q) \/ r[k].id # p \/ r[k].op = "update"
      PROVE  ShowsBooked(r, b, p)
  BY <1>4, <1>5, <1>6, StillShown
<1>7. CASE Kept \/ \E e \in Devices : Forgets(e)
  <2>1. Len(r) = Len(q) /\ \A k \in 1 .. Len(q) : r[k].id = q[k].id /\ r[k].op = q[k].op
    BY <1>2, <1>7 DEF Kept, Forgets, SameWrites
  <2> QED
    BY <1>6, <2>1
<1>8. ASSUME NEW e \in Devices, NEW m \in Mutation, Appended(e, m), m.id # p \/ m.op = "update"
      PROVE  ShowsBooked(r, b, p)
  <2>1. /\ Len(r) = IF e = d THEN Len(q) + 1 ELSE Len(q)
        /\ \A k \in 1 .. Len(q) : r[k] = q[k]
        /\ e = d => r[Len(q) + 1] = m
    BY <1>1, <1>2, <1>8 DEF Appended
  <2>2. \A k \in 1 .. Len(q) : k \in 1 .. Len(r)
    BY <1>4, <2>1
  <2>3. ASSUME NEW k \in 1 .. Len(r), k \notin 1 .. Len(q) PROVE r[k].id # p \/ r[k].op = "update"
    <3>1. e = d /\ k = Len(q) + 1
      BY <1>4, <2>1, <2>3
    <3> QED
      BY <1>8, <2>1, <3>1
  <2> QED
    BY <1>6, <2>1, <2>2, <2>3
<1>9. ASSUME NEW o \in Posts, PostJob(o) PROVE ShowsBooked(r, b, p)
  <2>1. SetPost(o) \in Mutation /\ upload[o].dev \in Devices
    BY <1>9, SetPostType DEF PostJob, IInv
  <2>2. Appended(upload[o].dev, SetPost(o))
    BY <1>9, <2>1, AppendsWrite DEF PostJob, IInv
  <2>3. InStage(o, "stored") /\ InStage(p, "posted")
    BY <1>9, ShownIsPosted DEF PostJob
  <2>4. SetPost(o).id # p
    BY <2>3 DEF SetPost, InStage
  <2> QED
    BY <1>8, <2>1, <2>2, <2>4
<1>10. ASSUME NEW e \in Devices, BookJobButtonPressed(e) PROVE ShowsBooked(r, b, p)
  <2>1. BookPost(e) \in Mutation /\ BookPost(e).op = "update"
    BY <1>10, BookPostType DEF BookJobButtonPressed, BookPost, IInv
  <2>2. Appended(e, BookPost(e))
    BY <1>10, <2>1, AppendsWrite DEF BookJobButtonPressed, IInv
  <2> QED
    BY <1>8, <2>1, <2>2
<1>11. ASSUME NEW e \in Devices, Popped(e), e # d PROVE ShowsBooked(r, b, p)
  <2>1. r = q
    BY <1>1, <1>2, <1>11 DEF Popped
  <2> QED
    BY <1>6, <2>1
<1>12. ASSUME NEW e \in Devices, WriteFailed(e) PROVE ShowsBooked(r, b, p)
  <2>1. Popped(e) /\ e # d
    BY <1>12, RefusesWrite DEF WriteFailed, IInv
  <2> QED
    BY <1>11, <2>1
<1>13. ASSUME WriteSucceeded(d) PROVE ShowsBooked(r, b, p)
  <2>1. Answered(d) /\ jobPost' = jobPost
    BY <1>13, AnswersWrite DEF WriteSucceeded, IInv, Answered
  <2>2. Len(r) = Len(q) - 1 /\ \A k \in 1 .. Len(q) - 1 : r[k] = q[k + 1]
    <3>1. Popped(d)
      BY <2>1 DEF Answered
    <3> QED
      BY <1>1, <1>2, <3>1 DEF Popped
  <2>3. Len(q) > 0
    BY <1>4, <2>2
  <2>4. PICK m \in Mutation, v \in Nat : /\ m = q[1] /\ v = acks[d][u][1]
                                         /\ (m.id = p => b = Acknowledged(m, v, c))
    <3>1. cache' = [cache EXCEPT ![d][queue[d][uid[d]][1].id] =
                        Acknowledged(queue[d][uid[d]][1], acks[d][uid[d]][1], @)]
      BY <1>13, AcknowledgedFront DEF IInv
    <3>2. queue[d][u][1] \in Mutation /\ acks[d][u][1] \in Nat
      BY <1>1, <1>13, AcknowledgedFront DEF IInv
    <3> QED
      BY <1>1, <1>2, <1>3, <3>1, <3>2 DEF IInv, TypeOK, FirestoreTypeOK
  <2>5. Dated(IF m.op = "set" THEN "PENDING" ELSE "BOOKED", v)
    <3>1. 1 \in 1 .. Len(acks[d][u]) /\ (SetIn(d, u, 1) <=> m.op = "set")
      BY <1>1, <1>2, <1>13, <2>4, AcknowledgedFront DEF IInv, SetIn
    <3> QED
      BY <2>4, <3>1 DEF AllDated, StatusBy
  <2>6. ASSUME m.id = p, m.op = "set" PROVE b # NoDoc
    <3>1. CASE c # NoDoc
      BY <1>5, <3>1
    <3>2. CASE c = NoDoc
      <4>1. b = [ownerId |-> m.by, status |-> "PENDING", version |-> v, committed |-> TRUE]
        BY <2>4, <2>6, <3>2 DEF Acknowledged
      <4>2. b \in CachedDoc
        BY <4>1 DEF CachedDoc, Mutation, Statuses
      <4> QED
        BY <4>2, NoDocAssumption
    <3> QED
      BY <3>1, <3>2
  <2>7. ASSUME m.id = p, m.op = "update", c # NoDoc PROVE b.status = "BOOKED"
    <3>1. /\ c \in CachedDoc /\ Dated(c.status, c.version)
          /\ c.status \in Statuses /\ c.version \in Nat
      BY <1>3, <2>7 DEF IInv, TypeOK, FirestoreTypeOK, AllDated, CachedDoc
    <3>2. v >= 2
      <4>1. v # 1 /\ v > 0
        BY <2>5, <2>7 DEF Dated
      <4> QED
        BY <4>1
    <3>3. CASE c.version >= v
      <4>1. b = c
        BY <2>4, <2>7, <3>3 DEF Acknowledged
      <4>2. c.version >= 2
        BY <3>1, <3>2, <3>3
      <4> QED
        BY <1>3, <2>7, <3>1, <4>1, <4>2, BookedBefore
    <3>4. CASE ~(c.version >= v)
      <4>1. b = [c EXCEPT !.status = "BOOKED", !.version = v, !.committed = TRUE]
        BY <2>4, <2>7, <3>4 DEF Acknowledged
      <4> QED
        BY <3>1, <4>1 DEF CachedDoc
    <3> QED
      BY <3>3, <3>4
  <2> QED
    BY <1>4, <1>5, <2>2, <2>3, <2>4, <2>6, <2>7, StillShownWithoutFront
<1>14. ASSUME NEW e \in Devices, WriteSucceeded(e) PROVE ShowsBooked(r, b, p)
  <2>1. Popped(e)
    BY <1>14, AnswersWrite DEF WriteSucceeded, IInv, Answered
  <2> QED
    BY <1>11, <1>13, <1>14, <2>1
<1>15. ASSUME queue' = queue PROVE ShowsBooked(r, b, p)
  <2>1. r = q
    BY <1>2, <1>15
  <2> QED
    BY <1>6, <2>1
<1>16. ASSUME NEW e \in Devices, QueueStep(e) PROVE ShowsBooked(r, b, p)
  BY <1>10, <1>12, <1>14, <1>15, <1>16 DEF QueueStep, Commit
<1> QED
  BY <1>7, <1>9, <1>16, StepKinds DEF IInv

\* LocalDocumentsView over the write and the watch stream: a job that a phone shows as booked
\* stays so, whatever arrives in whatever order and however often it is sent again, unless its
\* write is refused, the user changes, or the backend has it pending again.
THEOREM NoFlickerCorrect == Spec => NoFlicker
<1> DEFINE Flicker == \A d \in Devices, p \in Posts :
                          /\ ShownBooked(d, p)
                          /\ uid'[d] = uid[d]
                          /\ ~RejectWrite(d)
                          => ShownBooked(d, p)' \/ Reopened(cache'[d][p])
<1>1. Init => WatchGoesOn
  BY DEF Init, FirestoreInit, WatchGoesOn
<1>2. IInv /\ AllTrail /\ WatchGoesOn /\ [Next]_vars => WatchGoesOn'
  BY WatchGoesOnStep
<1>3. IInv /\ AllTrail /\ AllDated /\ WatchGoesOn /\ [Next]_vars => Flicker
  <2> SUFFICES ASSUME IInv, AllTrail, AllDated, WatchGoesOn, [Next]_vars,
                      NEW d \in Devices, NEW p \in Posts,
                      ShownBooked(d, p), uid'[d] = uid[d], ~RejectWrite(d),
                      ~Reopened(cache'[d][p])
               PROVE  ShownBooked(d, p)'
    OBVIOUS
  <2> QED
    BY FlickerStep, ShownBookedIs
<1>4. [Next]_vars /\ Flicker => [Flicker]_vars
  OBVIOUS
<1> QED
  BY <1>1, <1>2, <1>3, <1>4, InductiveInvariant, TrailsCorrect, DatedCorrect, PTL
     DEF Spec, NoFlicker
=============================================================================
