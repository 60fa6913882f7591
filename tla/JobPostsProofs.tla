--------------------------- MODULE JobPostsProofs ---------------------------
(***************************************************************************)
(* Theorems about JobPosts, for any number of phones, accounts and posts.  *)
(***************************************************************************)
EXTENDS JobPosts, TLAPS

-----------------------------------------------------------------------------
(* Queues *)

LEMMA SilencedQueue ==
    ASSUME NEW q \in Seq(Mutation)
    PROVE  /\ Silenced(q) \in Seq(Mutation)
           /\ Len(Silenced(q)) = Len(q)
           /\ \A i \in 1 .. Len(q) : /\ Silenced(q)[i].op = q[i].op
                                     /\ Silenced(q)[i].id = q[i].id
                                     /\ Silenced(q)[i].by = q[i].by
<1>1. DOMAIN q = 1 .. Len(q) /\ Len(q) \in Nat
  OBVIOUS
<1>2. \A i \in 1 .. Len(q) : q[i] \in Mutation
  OBVIOUS
<1>3. \A i \in 1 .. Len(q) : [q[i] EXCEPT !.live = FALSE] \in Mutation
  BY <1>2 DEF Mutation
<1>4. Silenced(q) = [i \in 1 .. Len(q) |-> [q[i] EXCEPT !.live = FALSE]]
  BY <1>1 DEF Silenced
<1>5. Silenced(q) \in Seq(Mutation) /\ Len(Silenced(q)) = Len(q)
  BY <1>1, <1>3, <1>4
<1>6. \A i \in 1 .. Len(q) : Silenced(q)[i] = [q[i] EXCEPT !.live = FALSE]
  BY <1>4
<1> QED
  BY <1>2, <1>5, <1>6 DEF Mutation

LEMMA SilencedQueues ==
    ASSUME TypeOK, NEW d \in Devices
    PROVE  /\ QueuesSilenced(d) \in [Devices -> [Sessions -> Seq(Mutation)]]
           /\ \A e \in Devices, s \in Sessions :
                 /\ Len(QueuesSilenced(d)[e][s]) = Len(queue[e][s])
                 /\ \A i \in 1 .. Len(queue[e][s]) :
                       /\ QueuesSilenced(d)[e][s][i].op = queue[e][s][i].op
                       /\ QueuesSilenced(d)[e][s][i].id = queue[e][s][i].id
                       /\ QueuesSilenced(d)[e][s][i].by = queue[e][s][i].by
<1>1. queue \in [Devices -> [Sessions -> Seq(Mutation)]]
  BY DEF TypeOK, FirestoreTypeOK
<1>2. \A e \in Devices, s \in Sessions : QueuesSilenced(d)[e][s] =
          IF e = d THEN Silenced(queue[e][s]) ELSE queue[e][s]
  BY <1>1 DEF QueuesSilenced
<1>3. \A e \in Devices, s \in Sessions : queue[e][s] \in Seq(Mutation)
  BY <1>1
<1>4. QueuesSilenced(d) \in [Devices -> [Sessions -> Seq(Mutation)]]
  <2>1. [u \in Sessions |-> Silenced(queue[d][u])] \in [Sessions -> Seq(Mutation)]
    BY <1>3, SilencedQueue
  <2> QED
    BY <1>1, <2>1 DEF QueuesSilenced
<1>5. ASSUME NEW e \in Devices, NEW s \in Sessions
      PROVE  /\ Len(QueuesSilenced(d)[e][s]) = Len(queue[e][s])
             /\ \A i \in 1 .. Len(queue[e][s]) :
                   /\ QueuesSilenced(d)[e][s][i].op = queue[e][s][i].op
                   /\ QueuesSilenced(d)[e][s][i].id = queue[e][s][i].id
                   /\ QueuesSilenced(d)[e][s][i].by = queue[e][s][i].by
  <2>1. CASE e = d
    BY <1>2, <1>3, <2>1, SilencedQueue
  <2>2. CASE e # d
    BY <1>2, <2>2
  <2> QED
    BY <2>1, <2>2
<1> QED
  BY <1>4, <1>5

\* A new write is the last of the queue of the current session.
LEMMA AppendedQueue ==
    ASSUME TypeOK, NEW d \in Devices, NEW m \in Mutation, WriteMutation(d, m)
    PROVE  /\ queue' \in [Devices -> [Sessions -> Seq(Mutation)]]
           /\ \A e \in Devices, s \in Sessions : queue'[e][s] =
                  IF e = d /\ s = uid[d] THEN Append(queue[e][s], m) ELSE queue[e][s]
<1>1. queue \in [Devices -> [Sessions -> Seq(Mutation)]] /\ uid[d] \in Sessions
  BY DEF TypeOK, FirestoreTypeOK
<1>2. queue' = [queue EXCEPT ![d][uid[d]] = Append(queue[d][uid[d]], m)]
  BY DEF WriteMutation
<1>3. Append(queue[d][uid[d]], m) \in Seq(Mutation)
  BY <1>1
<1> QED
  BY <1>1, <1>2, <1>3

\* The front of the queue of the current session leaves it.
LEMMA PoppedQueue ==
    ASSUME TypeOK, NEW d \in Devices, queue[d][uid[d]] # << >>,
           queue' = [queue EXCEPT ![d][uid[d]] = Tail(@)]
    PROVE  /\ queue' \in [Devices -> [Sessions -> Seq(Mutation)]]
           /\ \A e \in Devices, s \in Sessions : queue'[e][s] =
                  IF e = d /\ s = uid[d] THEN Tail(queue[e][s]) ELSE queue[e][s]
           /\ Head(queue[d][uid[d]]) \in Mutation
           /\ Head(queue[d][uid[d]]) = queue[d][uid[d]][1]
<1>1. queue \in [Devices -> [Sessions -> Seq(Mutation)]] /\ uid[d] \in Sessions
  BY DEF TypeOK, FirestoreTypeOK
<1>2. queue[d][uid[d]] \in Seq(Mutation)
  BY <1>1
<1>3. /\ Tail(queue[d][uid[d]]) \in Seq(Mutation)
      /\ Head(queue[d][uid[d]]) \in Mutation
      /\ Head(queue[d][uid[d]]) = queue[d][uid[d]][1]
  BY <1>2
<1> QED
  BY <1>1, <1>3

\* The answers of the current session that were not read are gone.
Cleared(d) ==
    \A e \in Devices, s \in Sessions :
        acks'[e][s] = IF e = d /\ s = uid[d] THEN << >> ELSE acks[e][s]

LEMMA LosesAnswers ==
    ASSUME TypeOK, NEW d \in Devices, LoseAnswers(d)
    PROVE  /\ Cleared(d)
           /\ acks' \in [Devices -> [Sessions -> Seq(Nat)]]
           /\ losses' \in 0 .. MaxLosses
<1>1. /\ acks \in [Devices -> [Sessions -> Seq(Nat)]]
      /\ uid[d] \in Sessions
      /\ losses \in 0 .. MaxLosses
      /\ << >> \in Seq(Nat)
  BY DEF TypeOK, FirestoreTypeOK
<1>2. acks' = [acks EXCEPT ![d][uid[d]] = << >>]
  BY DEF LoseAnswers
<1>3. losses' \in 0 .. MaxLosses
  BY <1>1, ConstantsAssumption DEF LoseAnswers
<1> QED
  BY <1>1, <1>2, <1>3 DEF Cleared

\* A write is only refused when there is one.
LEMMA RefusedFront ==
    ASSUME TypeOK, NEW d \in Devices, RejectWrite(d)
    PROVE  queue[d][uid[d]] # << >>
<1>1. queue[d][uid[d]] \in Seq(Mutation) /\ acks[d][uid[d]] \in Seq(Nat)
  BY DEF TypeOK, FirestoreTypeOK
<1>2. Len(acks[d][uid[d]]) + 1 <= Len(queue[d][uid[d]])
  BY DEF RejectWrite, NextUnsent
<1> QED
  BY <1>1, <1>2

-----------------------------------------------------------------------------
(* Type correctness *)

LEMMA AppliedType ==
    ASSUME NEW m \in Mutation, NEW old \in Doc \cup {NoDoc},
           m.op = "update" => old # NoDoc
    PROVE  Applied(m, old) \in Doc
<1>1. m.by \in Users /\ m.op \in {"set", "update"}
  BY DEF Mutation
<1>2. old # NoDoc => old.ownerId \in Users /\ old.version \in Nat
  BY DEF Doc
<1> QED
  BY <1>1, <1>2 DEF Applied, Doc, Statuses

LEMMA AcknowledgedType ==
    ASSUME NEW m \in Mutation, NEW v \in Nat, NEW old \in CachedDoc \cup {NoDoc}
    PROVE  Acknowledged(m, v, old) \in CachedDoc \cup {NoDoc}
<1>1. m.by \in Users /\ (m.op = "set" \/ m.op = "update")
  BY DEF Mutation
<1>2. CASE old = NoDoc
  <2>1. CASE m.op = "set"
    <3>1. Acknowledged(m, v, old) =
            [ownerId |-> m.by, status |-> "PENDING", version |-> v, committed |-> TRUE]
      BY <1>2, <2>1 DEF Acknowledged
    <3> QED
      BY <1>1, <3>1 DEF CachedDoc, Statuses
  <2>2. CASE m.op = "update"
    BY <1>2, <2>2 DEF Acknowledged
  <2> QED
    BY <1>1, <2>1, <2>2
<1>3. CASE old # NoDoc /\ old.version >= v
  BY <1>3 DEF Acknowledged
<1>4. CASE old # NoDoc /\ ~(old.version >= v)
  <2>1. old \in CachedDoc /\ old.version < v
    BY <1>4 DEF CachedDoc
  <2>2. CASE m.op = "set"
    <3>1. Acknowledged(m, v, old) =
            [ownerId |-> m.by, status |-> "PENDING", version |-> v, committed |-> TRUE]
      BY <1>4, <2>2 DEF Acknowledged
    <3> QED
      BY <1>1, <3>1 DEF CachedDoc, Statuses
  <2>3. CASE m.op = "update"
    <3>1. Acknowledged(m, v, old) =
            [old EXCEPT !.status = "BOOKED", !.version = v, !.committed = TRUE]
      BY <1>4, <2>1, <2>3 DEF Acknowledged
    <3> QED
      BY <2>1, <3>1 DEF CachedDoc, Statuses
  <2> QED
    BY <1>1, <2>2, <2>3
<1> QED
  BY <1>2, <1>3, <1>4

LEMMA TypeInit == Init => TypeOK
<1> SUFFICES ASSUME Init PROVE TypeOK
  OBVIOUS
<1>1. << >> \in Seq(Mutation) /\ << >> \in Seq(Nat)
  OBVIOUS
<1>2. FirestoreTypeOK
  BY <1>1, ConstantsAssumption DEF Init, FirestoreInit, FirestoreTypeOK, Sessions
<1> QED
  BY <1>2 DEF Init, TypeOK

\* Steps of a screen or of an upload that leave the SDK alone.
LEMMA TypeScreens ==
    ASSUME TypeOK,
           \/ \E d \in Devices : OpenForm(d) \/ OwnerLoaded(d) \/ CloseDetail(d)
           \/ \E d \in Devices, p \in Posts : PostButtonPressed(d, p) \/ OpenDetail(d, p)
           \/ \E p \in Posts : ImageStored(p) \/ UploadFailed(p) \/ DownloadURLFailed(p)
    PROVE  TypeOK'
<1>1. UNCHANGED fsVars
  BY DEF OpenForm, OwnerLoaded, CloseDetail, PostButtonPressed, OpenDetail, ImageStored,
         UploadFailed, DownloadURLFailed
<1>2. FirestoreTypeOK'
  BY <1>1 DEF TypeOK, FirestoreTypeOK, fsVars
<1>3. ASSUME NEW d \in Devices, OpenForm(d) PROVE TypeOK'
  BY <1>2, <1>3 DEF OpenForm, TypeOK
<1>4. ASSUME NEW d \in Devices, OwnerLoaded(d) PROVE TypeOK'
  BY <1>2, <1>4 DEF OwnerLoaded, TypeOK, Detail
<1>5. ASSUME NEW d \in Devices, CloseDetail(d) PROVE TypeOK'
  BY <1>2, <1>5 DEF CloseDetail, TypeOK
<1>6. ASSUME NEW d \in Devices, NEW p \in Posts, PostButtonPressed(d, p) PROVE TypeOK'
  <2>1. uid[d] \in Users
    BY <1>6 DEF PostButtonPressed, TypeOK, FirestoreTypeOK, Sessions
  <2> QED
    BY <1>2, <1>6, <2>1 DEF PostButtonPressed, TypeOK, Upload
<1>7. ASSUME NEW d \in Devices, NEW p \in Posts, OpenDetail(d, p) PROVE TypeOK'
  <2>1. LocalStatus(d, p) \in Statuses
    <3>1. CASE Writes(d, p) = {}
      <4>1. cache[d][p] \in CachedDoc
        BY <1>7, <3>1 DEF OpenDetail, Visible, Sets, TypeOK, FirestoreTypeOK
      <4> QED
        BY <3>1, <4>1 DEF LocalStatus, CachedDoc
    <3>2. CASE Writes(d, p) # {}
      BY <3>2 DEF LocalStatus, Statuses
    <3> QED
      BY <3>1, <3>2
  <2> QED
    BY <1>2, <1>7, <2>1 DEF OpenDetail, TypeOK, Detail
<1>8. ASSUME NEW p \in Posts, ImageStored(p) PROVE TypeOK'
  BY <1>2, <1>8 DEF ImageStored, InStage, TypeOK, Upload
<1>9. ASSUME NEW p \in Posts, UploadFailed(p) PROVE TypeOK'
  BY <1>2, <1>9 DEF UploadFailed, InStage, TypeOK, Upload
<1>10. ASSUME NEW p \in Posts, DownloadURLFailed(p) PROVE TypeOK'
  BY <1>2, <1>10 DEF DownloadURLFailed, InStage, TypeOK, Upload
<1> QED
  BY <1>3, <1>4, <1>5, <1>6, <1>7, <1>8, <1>9, <1>10

\* Steps of the streams and of the backend.
LEMMA TypeBackground ==
    ASSUME TypeOK, NEW d \in Devices, Background(d)
    PROVE  TypeOK'
<1>1. ASSUME FirestoreTypeOK' PROVE TypeOK'
  BY <1>1 DEF Background, TypeOK, appVars
<1>2. CASE Commit(d)
  <2> DEFINE u == uid[d]
             m == queue[d][u][NextUnsent(d)]
  <2>1. u \in Sessions /\ queue[d][u] \in Seq(Mutation) /\ acks[d][u] \in Seq(Nat)
    BY DEF TypeOK, FirestoreTypeOK
  <2>2. m \in Mutation
    <3>1. NextUnsent(d) <= Len(queue[d][u]) /\ NextUnsent(d) = Len(acks[d][u]) + 1
      BY <1>2 DEF Commit, NextUnsent
    <3>2. NextUnsent(d) \in 1 .. Len(queue[d][u])
      BY <2>1, <3>1
    <3> QED
      BY <2>1, <3>2
  <2>3. m.id \in Posts /\ jobPost[m.id] \in Doc \cup {NoDoc}
    BY <2>2 DEF Mutation, TypeOK, FirestoreTypeOK
  <2>4. Applied(m, jobPost[m.id]) \in Doc
    BY <1>2, <2>2, <2>3, AppliedType DEF Commit
  <2>5. Append(acks[d][u], Applied(m, jobPost[m.id]).version) \in Seq(Nat)
    BY <2>1, <2>4 DEF Doc
  <2> QED
    BY <1>1, <1>2, <2>1, <2>3, <2>4, <2>5 DEF Commit, TypeOK, FirestoreTypeOK
<1>3. CASE StreamBreaks(d)
  BY <1>1, <1>3, LosesAnswers DEF StreamBreaks, TypeOK, FirestoreTypeOK
<1>4. CASE SendSnapshot(d)
  BY <1>1, <1>4 DEF SendSnapshot, TypeOK, FirestoreTypeOK
<1>5. CASE ApplySnapshot(d)
  <2>1. ASSUME NEW p \in Posts, snapshot[d][p] # NoDoc
        PROVE  FromWatch(snapshot[d][p]) \in CachedDoc
    BY <1>5, <2>1 DEF ApplySnapshot, TypeOK, FirestoreTypeOK, FromWatch, Doc, CachedDoc
  <2>2. [p \in Posts |-> IF snapshot[d][p] # NoDoc /\ Accepts(cache[d][p], snapshot[d][p])
                         THEN FromWatch(snapshot[d][p])
                         ELSE cache[d][p]] \in [Posts -> CachedDoc \cup {NoDoc}]
    BY <2>1 DEF TypeOK, FirestoreTypeOK
  <2> QED
    BY <1>1, <1>5, <2>2 DEF ApplySnapshot, TypeOK, FirestoreTypeOK
<1> QED
  BY <1>2, <1>3, <1>4, <1>5 DEF Background

LEMMA SetPostType ==
    ASSUME TypeOK, NEW p \in Posts, InStage(p, "stored")
    PROVE  SetPost(p) \in Mutation /\ upload[p] \in Upload /\ upload[p].dev \in Devices
<1>1. upload[p] \in Upload
  BY DEF TypeOK, InStage
<1> QED
  BY <1>1 DEF SetPost, Mutation, Upload

LEMMA BookPostType ==
    ASSUME TypeOK, NEW d \in Devices, detail[d] # NoDetail, uid[d] # NoUser
    PROVE  BookPost(d) \in Mutation /\ detail[d].post \in Posts /\ uid[d] \in Users
<1>1. detail[d] \in Detail /\ uid[d] \in Users
  BY DEF TypeOK, FirestoreTypeOK, Sessions
<1> QED
  BY <1>1 DEF BookPost, Mutation, Detail

\* The front of an answered queue is a mutation, and so is its answer a version.
LEMMA AnsweredFront ==
    ASSUME TypeOK, AnsweredIsApplied, NEW d \in Devices, acks[d][uid[d]] # << >>
    PROVE  /\ uid[d] \in Sessions
           /\ queue[d][uid[d]] # << >>
           /\ Head(acks[d][uid[d]]) \in Nat
           /\ Tail(acks[d][uid[d]]) \in Seq(Nat)
           /\ Len(acks[d][uid[d]]) > 0
<1>1. /\ uid[d] \in Sessions
      /\ queue[d][uid[d]] \in Seq(Mutation)
      /\ acks[d][uid[d]] \in Seq(Nat)
  BY DEF TypeOK, FirestoreTypeOK
<1>2. Len(acks[d][uid[d]]) > 0 /\ Len(acks[d][uid[d]]) <= Len(queue[d][uid[d]])
  BY <1>1 DEF AnsweredIsApplied
<1> QED
  BY <1>1, <1>2

\* Steps that change a queue or a session.
LEMMA TypeQueues ==
    ASSUME TypeOK, AnsweredIsApplied,
           \/ \E d \in Devices : \/ CloseForm(d) \/ BookJobButtonPressed(d)
                                 \/ WriteSucceeded(d) \/ WriteFailed(d)
                                 \/ Listen(d) \/ SignOut(d) \/ Restart(d)
                                 \/ \E u \in Users : SignIn(d, u)
           \/ \E p \in Posts : PostJob(p)
    PROVE  TypeOK'
<1>1. ASSUME NEW d \in Devices, CloseForm(d) PROVE TypeOK'
  <2>1. queue' \in [Devices -> [Sessions -> Seq(Mutation)]]
    BY <1>1, SilencedQueues DEF CloseForm
  <2>2. upload' \in [Posts -> Upload \cup {NoUpload}]
    BY <1>1 DEF CloseForm, TypeOK, Upload
  <2> QED
    BY <1>1, <2>1, <2>2 DEF CloseForm, TypeOK, FirestoreTypeOK
<1>2. ASSUME NEW d \in Devices, BookJobButtonPressed(d) PROVE TypeOK'
  <2>1. BookPost(d) \in Mutation /\ <<uid[d], detail[d].post>> \in Users \X Posts
    BY <1>2, BookPostType DEF BookJobButtonPressed
  <2>2. WriteMutation(d, BookPost(d))
    BY <1>2 DEF BookJobButtonPressed
  <2>3. queue' \in [Devices -> [Sessions -> Seq(Mutation)]]
    BY <2>1, <2>2, AppendedQueue
  <2> QED
    BY <1>2, <2>1, <2>2, <2>3
    DEF BookJobButtonPressed, WriteMutation, TypeOK, FirestoreTypeOK
<1>3. ASSUME NEW d \in Devices, WriteSucceeded(d) PROVE TypeOK'
  <2> DEFINE u == uid[d]
             m == Head(queue[d][u])
  <2>1. Acknowledge(d) /\ acks[d][u] # << >>
    BY <1>3 DEF WriteSucceeded, Acknowledge
  <2>2. /\ u \in Sessions
        /\ queue[d][u] # << >>
        /\ Head(acks[d][u]) \in Nat
        /\ Tail(acks[d][u]) \in Seq(Nat)
    BY <2>1, AnsweredFront
  <2>3. queue' \in [Devices -> [Sessions -> Seq(Mutation)]] /\ m \in Mutation
    BY <2>1, <2>2, PoppedQueue DEF Acknowledge
  <2>4. m.id \in Posts
    BY <2>3 DEF Mutation
  <2>5. Acknowledged(m, Head(acks[d][u]), cache[d][m.id]) \in CachedDoc \cup {NoDoc}
    <3>1. cache[d][m.id] \in CachedDoc \cup {NoDoc}
      BY <2>4 DEF TypeOK, FirestoreTypeOK
    <3> QED
      BY <2>2, <2>3, <3>1, AcknowledgedType
  <2>6. /\ cache' = [cache EXCEPT ![d][m.id] = Acknowledged(m, Head(acks[d][u]), @)]
        /\ acks' = [acks EXCEPT ![d][u] = Tail(@)]
        /\ UNCHANGED <<jobPost, uid, snapshot, listening, losses>>
    BY <2>1 DEF Acknowledge
  <2>7. FirestoreTypeOK'
    <3>1. cache' \in [Devices -> [Posts -> CachedDoc \cup {NoDoc}]]
      BY <2>4, <2>5, <2>6 DEF TypeOK, FirestoreTypeOK
    <3>2. acks' \in [Devices -> [Sessions -> Seq(Nat)]]
      BY <2>2, <2>6 DEF TypeOK, FirestoreTypeOK
    <3> QED
      BY <2>3, <2>6, <3>1, <3>2 DEF TypeOK, FirestoreTypeOK
  <2> QED
    BY <1>3, <2>4, <2>7 DEF WriteSucceeded, TypeOK
<1>4. ASSUME NEW d \in Devices, WriteFailed(d) PROVE TypeOK'
  <2> DEFINE m == Head(queue[d][uid[d]])
  <2>1. RejectWrite(d)
    BY <1>4 DEF WriteFailed
  <2>2. queue' \in [Devices -> [Sessions -> Seq(Mutation)]] /\ m \in Mutation
    BY <2>1, RefusedFront, PoppedQueue DEF RejectWrite
  <2>3. [op |-> m.op, id |-> m.id, by |-> m.by]
           \in [op : {"set", "update"}, id : Posts, by : Users]
    BY <2>2 DEF Mutation
  <2>4. acks' \in [Devices -> [Sessions -> Seq(Nat)]] /\ losses' \in 0 .. MaxLosses
    BY <2>1, LosesAnswers DEF RejectWrite
  <2>5. refusals' \subseteq [op : {"set", "update"}, id : Posts, by : Users]
    BY <1>4, <2>3 DEF WriteFailed, TypeOK
  <2> QED
    BY <1>4, <2>1, <2>2, <2>4, <2>5 DEF WriteFailed, RejectWrite, TypeOK, FirestoreTypeOK
<1>5. ASSUME NEW d \in Devices, SignOut(d) PROVE TypeOK'
  <2>1. acks' \in [Devices -> [Sessions -> Seq(Nat)]] /\ losses' \in 0 .. MaxLosses
    BY <1>5, LosesAnswers DEF SignOut, CredentialChange
  <2>2. listening' \subseteq Devices
    BY <1>5 DEF SignOut, TypeOK, FirestoreTypeOK
  <2> QED
    BY <1>5, <2>1, <2>2 DEF SignOut, CredentialChange, TypeOK, FirestoreTypeOK, Sessions
<1>6. ASSUME NEW d \in Devices, Restart(d) PROVE TypeOK'
  <2>1. queue' \in [Devices -> [Sessions -> Seq(Mutation)]]
    BY <1>6, SilencedQueues DEF Restart
  <2>2. upload' \in [Posts -> Upload \cup {NoUpload}]
    BY <1>6 DEF Restart, UploadsAfterRestart, InStage, TypeOK, Upload
  <2>3. acks' \in [Devices -> [Sessions -> Seq(Nat)]] /\ losses' \in 0 .. MaxLosses
    BY <1>6, LosesAnswers DEF Restart
  <2> QED
    BY <1>6, <2>1, <2>2, <2>3 DEF Restart, TypeOK, FirestoreTypeOK
<1>7. ASSUME NEW d \in Devices, NEW u \in Users, SignIn(d, u) PROVE TypeOK'
  <2>1. acks' \in [Devices -> [Sessions -> Seq(Nat)]] /\ losses' \in 0 .. MaxLosses
    BY <1>7, LosesAnswers DEF SignIn, CredentialChange
  <2> QED
    BY <1>7, <2>1 DEF SignIn, CredentialChange, appVars, TypeOK, FirestoreTypeOK, Sessions
<1>8. ASSUME NEW p \in Posts, PostJob(p) PROVE TypeOK'
  <2>1. SetPost(p) \in Mutation /\ upload[p] \in Upload /\ upload[p].dev \in Devices
    BY <1>8, SetPostType DEF PostJob
  <2>2. WriteMutation(upload[p].dev, SetPost(p))
    BY <1>8 DEF PostJob
  <2>3. queue' \in [Devices -> [Sessions -> Seq(Mutation)]]
    BY <2>1, <2>2, AppendedQueue
  <2>4. upload' \in [Posts -> Upload \cup {NoUpload}]
    BY <1>8, <2>1 DEF PostJob, TypeOK, Upload
  <2> QED
    BY <1>8, <2>2, <2>3, <2>4 DEF PostJob, WriteMutation, TypeOK, FirestoreTypeOK
<1>9. ASSUME NEW d \in Devices, Listen(d) PROVE TypeOK'
  BY <1>9 DEF Listen, appVars, TypeOK, FirestoreTypeOK
<1> QED
  BY <1>1, <1>2, <1>3, <1>4, <1>5, <1>6, <1>7, <1>8, <1>9

LEMMA TypeStep == TypeOK /\ AnsweredIsApplied /\ [Next]_vars => TypeOK'
<1> SUFFICES ASSUME TypeOK, AnsweredIsApplied, [Next]_vars PROVE TypeOK'
  OBVIOUS
<1>1. CASE UNCHANGED vars
  BY <1>1 DEF vars, fsVars, appVars, TypeOK, FirestoreTypeOK
<1>2. CASE Next
  BY <1>2, TypeScreens, TypeBackground, TypeQueues DEF Next, DeviceStep, UploadStep
<1> QED
  BY <1>1, <1>2

-----------------------------------------------------------------------------
(* The kinds of step: most of them leave the documents, the answers and what *)
(* the queued writes are alone; some lose the answers with their stream.     *)

SameWrites ==
    \A d \in Devices, s \in Sessions :
        /\ Len(queue'[d][s]) = Len(queue[d][s])
        /\ \A i \in 1 .. Len(queue[d][s]) : /\ queue'[d][s][i].op = queue[d][s][i].op
                                            /\ queue'[d][s][i].id = queue[d][s][i].id
                                            /\ queue'[d][s][i].by = queue[d][s][i].by

Kept == jobPost' = jobPost /\ acks' = acks /\ toldPosted' = toldPosted /\ SameWrites

Forgets(d) ==
    jobPost' = jobPost /\ Cleared(d) /\ toldPosted' = toldPosted /\ SameWrites

\* What a device or the backend may do to the queue of a session.
QueueStep(d) ==
    \/ BookJobButtonPressed(d)
    \/ WriteSucceeded(d)
    \/ WriteFailed(d)
    \/ Commit(d) /\ UNCHANGED appVars

LEMMA StepKinds ==
    ASSUME TypeOK, [Next]_vars
    PROVE  \/ Kept
           \/ \E d \in Devices : Forgets(d)
           \/ \E p \in Posts : PostJob(p)
           \/ \E d \in Devices : QueueStep(d)
<1>1. ASSUME queue' = queue PROVE SameWrites
  BY <1>1 DEF SameWrites
<1>2. CASE UNCHANGED vars
  BY <1>1, <1>2 DEF vars, fsVars, appVars, Kept
<1>3. ASSUME NEW d \in Devices, Background(d) PROVE Kept \/ Forgets(d) \/ QueueStep(d)
  <2>1. CASE StreamBreaks(d)
    BY <1>1, <1>3, <2>1, LosesAnswers DEF Background, StreamBreaks, Forgets, appVars
  <2> QED
    BY <1>1, <1>3, <2>1 DEF Background, SendSnapshot, ApplySnapshot, QueueStep, Kept, appVars
<1>4. ASSUME NEW d \in Devices, CloseForm(d) PROVE Kept
  <2>1. SameWrites
    BY <1>4, SilencedQueues DEF CloseForm, SameWrites
  <2> QED
    BY <1>4, <2>1 DEF CloseForm, Kept
<1>5. ASSUME NEW d \in Devices, Restart(d) PROVE Forgets(d)
  <2>1. SameWrites
    BY <1>5, SilencedQueues DEF Restart, SameWrites
  <2> QED
    BY <1>5, <2>1, LosesAnswers DEF Restart, Forgets
<1>6. ASSUME NEW d \in Devices, DeviceStep(d) PROVE Kept \/ Forgets(d) \/ QueueStep(d)
  <2>1. CASE OpenForm(d) \/ OwnerLoaded(d) \/ CloseDetail(d) \/ Listen(d)
    BY <1>1, <2>1 DEF OpenForm, OwnerLoaded, CloseDetail, Listen, Kept, fsVars, appVars
  <2>2. CASE SignOut(d) \/ \E u \in Users : SignIn(d, u)
    BY <1>1, <2>2, LosesAnswers DEF SignOut, SignIn, CredentialChange, Forgets, appVars
  <2>3. CASE \E p \in Posts : PostButtonPressed(d, p) \/ OpenDetail(d, p)
    BY <1>1, <2>3 DEF PostButtonPressed, OpenDetail, Kept, fsVars
  <2> QED
    BY <1>4, <1>5, <1>6, <2>1, <2>2, <2>3 DEF DeviceStep, QueueStep
<1>7. ASSUME NEW p \in Posts, UploadStep(p) PROVE Kept \/ PostJob(p)
  BY <1>1, <1>7 DEF UploadStep, ImageStored, UploadFailed, DownloadURLFailed, Kept, fsVars
<1> QED
  BY <1>2, <1>3, <1>6, <1>7 DEF Next

\* A press of Post that led to a write stays as it is, and photos stay.
UploadsKept ==
    /\ images \subseteq images'
    /\ \A p \in Posts : InStage(p, "posted") =>
          InStage(p, "posted")' /\ upload'[p].uid = upload[p].uid
    /\ \A p \in Posts : InStage(p, "posted")' => InStage(p, "posted") \/ PostJob(p)
    /\ \A p \in Posts : InStage(p, "stored")' => InStage(p, "stored") \/ p \in images'

LEMMA UploadsAreKept ==
    ASSUME TypeOK, [Next]_vars
    PROVE  UploadsKept
<1>1. upload \in [Posts -> Upload \cup {NoUpload}]
  BY DEF TypeOK
<1>2. ASSUME images' = images, upload' = upload PROVE UploadsKept
  BY <1>2 DEF UploadsKept, InStage
<1>3. CASE UNCHANGED vars
  BY <1>2, <1>3 DEF vars, appVars
<1>4. ASSUME NEW d \in Devices, Background(d) PROVE UploadsKept
  BY <1>2, <1>4 DEF Background, appVars
<1>5. ASSUME NEW d \in Devices, CloseForm(d) PROVE UploadsKept
  BY <1>1, <1>5, ScreensAssumption DEF CloseForm, UploadsKept, InStage, Upload
<1>6. ASSUME NEW d \in Devices, Restart(d) PROVE UploadsKept
  BY <1>1, <1>6, ScreensAssumption DEF Restart, UploadsAfterRestart, UploadsKept, InStage, Upload
<1>7. ASSUME NEW d \in Devices, NEW q \in Posts, PostButtonPressed(d, q) PROVE UploadsKept
  BY <1>1, <1>7, ScreensAssumption DEF PostButtonPressed, UploadsKept, InStage, Upload
<1>8. ASSUME NEW d \in Devices, DeviceStep(d) PROVE UploadsKept
  <2>1. CASE OpenForm(d) \/ OwnerLoaded(d) \/ CloseDetail(d) \/ BookJobButtonPressed(d)
    BY <1>2, <2>1 DEF OpenForm, OwnerLoaded, CloseDetail, BookJobButtonPressed
  <2>5. CASE Listen(d)
    BY <1>2, <2>5 DEF Listen, appVars
  <2>2. CASE WriteSucceeded(d) \/ WriteFailed(d)
    BY <1>2, <2>2 DEF WriteSucceeded, WriteFailed
  <2>3. CASE SignOut(d) \/ \E u \in Users : SignIn(d, u)
    BY <1>2, <2>3 DEF SignOut, SignIn, appVars
  <2>4. CASE \E p \in Posts : OpenDetail(d, p)
    BY <1>2, <2>4 DEF OpenDetail
  <2> QED
    BY <1>5, <1>6, <1>7, <1>8, <2>1, <2>2, <2>3, <2>4, <2>5 DEF DeviceStep
<1>9. ASSUME NEW q \in Posts, UploadStep(q) PROVE UploadsKept
  <2>1. CASE ImageStored(q)
    BY <1>1, <2>1, ScreensAssumption DEF ImageStored, UploadsKept, InStage, Upload
  <2>2. CASE UploadFailed(q)
    BY <1>1, <2>2, ScreensAssumption DEF UploadFailed, UploadsKept, InStage, Upload
  <2>3. CASE DownloadURLFailed(q)
    BY <1>1, <2>3, ScreensAssumption DEF DownloadURLFailed, UploadsKept, InStage, Upload
  <2>4. CASE PostJob(q)
    BY <1>1, <2>4, ScreensAssumption DEF PostJob, UploadsKept, InStage, Upload
  <2> QED
    BY <1>9, <2>1, <2>2, <2>3, <2>4 DEF UploadStep
<1> QED
  BY <1>3, <1>4, <1>8, <1>9 DEF Next

-----------------------------------------------------------------------------
(* What each queue step does, pointwise *)

\* A write is appended to the current session's queue.
Appended(d, m) ==
    /\ jobPost' = jobPost /\ acks' = acks /\ toldPosted' = toldPosted
    /\ \A e \in Devices, s \in Sessions :
          /\ Len(queue'[e][s]) = IF e = d /\ s = uid[d] THEN Len(queue[e][s]) + 1
                                                       ELSE Len(queue[e][s])
          /\ \A i \in 1 .. Len(queue[e][s]) : queue'[e][s][i] = queue[e][s][i]
    /\ queue'[d][uid[d]][Len(queue[d][uid[d]]) + 1] = m

LEMMA AppendFacts ==
    ASSUME NEW q \in Seq(Mutation), NEW m \in Mutation
    PROVE  /\ Len(Append(q, m)) = Len(q) + 1
           /\ \A i \in 1 .. Len(q) : Append(q, m)[i] = q[i]
           /\ Append(q, m)[Len(q) + 1] = m
  OBVIOUS

LEMMA AppendsWrite ==
    ASSUME TypeOK, NEW d \in Devices, NEW m \in Mutation, WriteMutation(d, m),
           toldPosted' = toldPosted
    PROVE  Appended(d, m)
<1>1. \A e \in Devices, s \in Sessions : queue'[e][s] =
          IF e = d /\ s = uid[d] THEN Append(queue[e][s], m) ELSE queue[e][s]
  BY AppendedQueue
<1>2. \A e \in Devices, s \in Sessions : queue[e][s] \in Seq(Mutation)
  BY DEF TypeOK, FirestoreTypeOK
<1>3. ASSUME NEW e \in Devices, NEW s \in Sessions
      PROVE  /\ Len(queue'[e][s]) = IF e = d /\ s = uid[d] THEN Len(queue[e][s]) + 1
                                                          ELSE Len(queue[e][s])
             /\ \A i \in 1 .. Len(queue[e][s]) : queue'[e][s][i] = queue[e][s][i]
  <2>1. CASE e = d /\ s = uid[d]
    <3>1. queue'[e][s] = Append(queue[e][s], m) /\ queue[e][s] \in Seq(Mutation)
      BY <1>1, <1>2, <2>1
    <3> QED
      BY <2>1, <3>1, AppendFacts
  <2>2. CASE ~(e = d /\ s = uid[d])
    BY <1>1, <1>2, <2>2
  <2> QED
    BY <2>1, <2>2
<1>4. queue'[d][uid[d]][Len(queue[d][uid[d]]) + 1] = m
  <2>1. /\ queue'[d][uid[d]] = Append(queue[d][uid[d]], m)
        /\ queue[d][uid[d]] \in Seq(Mutation)
    <3>1. uid[d] \in Sessions
      BY DEF TypeOK, FirestoreTypeOK
    <3> QED
      BY <1>1, <1>2, <3>1
  <2> QED
    BY <2>1, AppendFacts
<1> QED
  BY <1>3, <1>4 DEF Appended, WriteMutation

\* The front of the current session's queue is gone.
Popped(d) ==
    \A e \in Devices, s \in Sessions :
        /\ ~(e = d /\ s = uid[d]) => queue'[e][s] = queue[e][s]
        /\ e = d /\ s = uid[d] =>
              /\ Len(queue'[e][s]) = Len(queue[e][s]) - 1
              /\ \A i \in 1 .. Len(queue[e][s]) - 1 : queue'[e][s][i] = queue[e][s][i + 1]

LEMMA PopsWrite ==
    ASSUME TypeOK, NEW d \in Devices, queue[d][uid[d]] # << >>,
           queue' = [queue EXCEPT ![d][uid[d]] = Tail(@)]
    PROVE  Popped(d)
<1>1. \A e \in Devices, s \in Sessions : queue'[e][s] =
          IF e = d /\ s = uid[d] THEN Tail(queue[e][s]) ELSE queue[e][s]
  BY PoppedQueue
<1>2. queue[d][uid[d]] \in Seq(Mutation) /\ uid[d] \in Sessions
  BY DEF TypeOK, FirestoreTypeOK
<1>3. /\ Len(Tail(queue[d][uid[d]])) = Len(queue[d][uid[d]]) - 1
      /\ \A i \in 1 .. Len(queue[d][uid[d]]) - 1 :
            Tail(queue[d][uid[d]])[i] = queue[d][uid[d]][i + 1]
  BY <1>2
<1>4. ASSUME NEW e \in Devices, NEW s \in Sessions, ~(e = d /\ s = uid[d])
      PROVE  queue'[e][s] = queue[e][s]
  BY <1>1, <1>4
<1>5. queue'[d][uid[d]] = Tail(queue[d][uid[d]])
  BY <1>1, <1>2
<1>6. /\ Len(queue'[d][uid[d]]) = Len(queue[d][uid[d]]) - 1
      /\ \A i \in 1 .. Len(queue[d][uid[d]]) - 1 : queue'[d][uid[d]][i] = queue[d][uid[d]][i + 1]
  BY <1>3, <1>5
<1> QED
  BY <1>4, <1>6 DEF Popped

\* The queues, the answers and the documents before and after a commit.
Committed(d, m) ==
    /\ queue' = queue /\ toldPosted' = toldPosted
    /\ NextUnsent(d) \in 1 .. Len(queue[d][uid[d]])
    /\ m = queue[d][uid[d]][NextUnsent(d)]
    /\ m \in Mutation
    /\ jobPost[m.id] \in Doc \cup {NoDoc}
    /\ m.op = "update" => jobPost[m.id] # NoDoc
    /\ jobPost' = [jobPost EXCEPT ![m.id] = Applied(m, jobPost[m.id])]
    /\ Applied(m, jobPost[m.id]) \in Doc
    /\ \A e \in Devices, s \in Sessions :
          Len(acks'[e][s]) = IF e = d /\ s = uid[d] THEN Len(acks[e][s]) + 1
                                                  ELSE Len(acks[e][s])

LEMMA CommitsWrite ==
    ASSUME TypeOK, NEW d \in Devices, Commit(d), UNCHANGED appVars
    PROVE  Committed(d, queue[d][uid[d]][NextUnsent(d)])
<1> DEFINE u == uid[d]
           m == queue[d][u][NextUnsent(d)]
<1>1. u \in Sessions /\ queue[d][u] \in Seq(Mutation) /\ acks[d][u] \in Seq(Nat)
  BY DEF TypeOK, FirestoreTypeOK
<1>2. NextUnsent(d) <= Len(queue[d][u]) /\ NextUnsent(d) = Len(acks[d][u]) + 1
  BY DEF Commit, NextUnsent
<1>3. NextUnsent(d) \in 1 .. Len(queue[d][u])
  BY <1>1, <1>2
<1>4. m \in Mutation
  BY <1>1, <1>3
<1>5. jobPost[m.id] \in Doc \cup {NoDoc} /\ (m.op = "update" => jobPost[m.id] # NoDoc)
  BY <1>4 DEF Mutation, Commit, TypeOK, FirestoreTypeOK
<1>6. Applied(m, jobPost[m.id]) \in Doc
  BY <1>4, <1>5, AppliedType
<1>7. acks' = [acks EXCEPT ![d][u] = Append(acks[d][u], Applied(m, jobPost[m.id]).version)]
  BY DEF Commit
<1>8. Applied(m, jobPost[m.id]).version \in Nat
  BY <1>6 DEF Doc
<1>9. Len(Append(acks[d][u], Applied(m, jobPost[m.id]).version)) = Len(acks[d][u]) + 1
  BY <1>1, <1>8
<1>10. \A e \in Devices, s \in Sessions :
          Len(acks'[e][s]) = IF e = d /\ s = u THEN Len(acks[e][s]) + 1 ELSE Len(acks[e][s])
  BY <1>1, <1>7, <1>9 DEF TypeOK, FirestoreTypeOK
<1>11. jobPost' = [jobPost EXCEPT ![m.id] = Applied(m, jobPost[m.id])]
  BY DEF Commit
<1> QED
  BY <1>3, <1>4, <1>5, <1>6, <1>10, <1>11 DEF Committed, Commit, appVars

\* A result of the write stream takes the front off the queue and the answers.
Answered(d) ==
    /\ Popped(d)
    /\ jobPost' = jobPost
    /\ uid[d] \in Sessions
    /\ Len(acks[d][uid[d]]) > 0
    /\ \A e \in Devices, s \in Sessions :
          Len(acks'[e][s]) = IF e = d /\ s = uid[d] THEN Len(acks[e][s]) - 1
                                                  ELSE Len(acks[e][s])

LEMMA AnswersWrite ==
    ASSUME TypeOK, AnsweredIsApplied, NEW d \in Devices, Acknowledge(d)
    PROVE  Answered(d) /\ Head(queue[d][uid[d]]) = queue[d][uid[d]][1]
<1>1. acks[d][uid[d]] # << >> /\ acks' = [acks EXCEPT ![d][uid[d]] = Tail(acks[d][uid[d]])]
  BY DEF Acknowledge
<1>2. /\ uid[d] \in Sessions
      /\ queue[d][uid[d]] # << >>
      /\ Len(acks[d][uid[d]]) > 0
  BY <1>1, AnsweredFront
<1>3. Popped(d) /\ Head(queue[d][uid[d]]) = queue[d][uid[d]][1]
  BY <1>2, PopsWrite, PoppedQueue DEF Acknowledge
<1>4. Len(Tail(acks[d][uid[d]])) = Len(acks[d][uid[d]]) - 1
  <2>1. acks[d][uid[d]] \in Seq(Nat)
    BY <1>2 DEF TypeOK, FirestoreTypeOK
  <2> QED
    BY <1>2, <2>1
<1>5. \A e \in Devices, s \in Sessions :
          Len(acks'[e][s]) = IF e = d /\ s = uid[d] THEN Len(acks[e][s]) - 1
                                                  ELSE Len(acks[e][s])
  BY <1>1, <1>2, <1>4 DEF TypeOK, FirestoreTypeOK
<1> QED
  BY <1>2, <1>3, <1>5 DEF Answered, Acknowledge

\* A refusal takes the front off the queue and loses the answers.
LEMMA RefusesWrite ==
    ASSUME TypeOK, NEW d \in Devices, RejectWrite(d)
    PROVE  Popped(d) /\ Cleared(d) /\ jobPost' = jobPost /\ queue[d][uid[d]] # << >>
  BY PopsWrite, RefusedFront, LosesAnswers DEF RejectWrite

\* Facts that all proofs about queues need.
LEMMA Lengths ==
    ASSUME TypeOK
    PROVE  \A d \in Devices, s \in Sessions :
              /\ Len(queue[d][s]) \in Nat
              /\ Len(acks[d][s]) \in Nat
              /\ \A i \in 1 .. Len(queue[d][s]) : queue[d][s][i] \in Mutation
<1>1. ASSUME NEW d \in Devices, NEW s \in Sessions
      PROVE  queue[d][s] \in Seq(Mutation) /\ acks[d][s] \in Seq(Nat)
  BY DEF TypeOK, FirestoreTypeOK
<1> QED
  BY <1>1

-----------------------------------------------------------------------------
(* Documents are never removed; answered writes have been applied *)

LEMMA DocumentsStay ==
    ASSUME TypeOK, [Next]_vars
    PROVE  \A p \in Posts : jobPost[p] # NoDoc => jobPost'[p] # NoDoc
<1>1. ASSUME jobPost' = jobPost PROVE \A p \in Posts : jobPost[p] # NoDoc => jobPost'[p] # NoDoc
  BY <1>1
<1>2. ASSUME NEW d \in Devices, Commit(d), UNCHANGED appVars
      PROVE  \A p \in Posts : jobPost[p] # NoDoc => jobPost'[p] # NoDoc
  <2> DEFINE m == queue[d][uid[d]][NextUnsent(d)]
  <2>1. /\ jobPost' = [jobPost EXCEPT ![m.id] = Applied(m, jobPost[m.id])]
        /\ Applied(m, jobPost[m.id]) # NoDoc
    BY <1>2, CommitsWrite, NoDocAssumption DEF Committed
  <2> QED
    BY <2>1 DEF TypeOK, FirestoreTypeOK
<1>3. ASSUME NEW d \in Devices, QueueStep(d), ~(Commit(d) /\ UNCHANGED appVars)
      PROVE  jobPost' = jobPost
  BY <1>3 DEF QueueStep, BookJobButtonPressed, WriteMutation, WriteSucceeded, Acknowledge,
              WriteFailed, RejectWrite
<1>4. ASSUME NEW p \in Posts, PostJob(p) PROVE jobPost' = jobPost
  BY <1>4 DEF PostJob, WriteMutation
<1> QED
  BY <1>1, <1>2, <1>3, <1>4, StepKinds DEF Kept, Forgets

LEMMA AnsweredFacts ==
    ASSUME TypeOK, AnsweredIsApplied, NEW d \in Devices, NEW s \in Sessions
    PROVE  /\ Len(acks[d][s]) <= Len(queue[d][s])
           /\ \A i \in 1 .. Len(acks[d][s]) :
                 i \in 1 .. Len(queue[d][s]) /\ jobPost[queue[d][s][i].id] # NoDoc
<1>1. Len(acks[d][s]) <= Len(queue[d][s])
  BY DEF AnsweredIsApplied
<1>2. \A i \in 1 .. Len(acks[d][s]) : jobPost[queue[d][s][i].id] # NoDoc
  BY DEF AnsweredIsApplied, QueuedId
<1>3. Len(acks[d][s]) \in Nat /\ Len(queue[d][s]) \in Nat
  BY Lengths
<1> QED
  BY <1>1, <1>2, <1>3

LEMMA AnsweredStep ==
    ASSUME TypeOK, AnsweredIsApplied, [Next]_vars
    PROVE  AnsweredIsApplied'
<1> SUFFICES ASSUME NEW e \in Devices, NEW s \in Sessions
             PROVE  /\ Len(acks'[e][s]) <= Len(queue'[e][s])
                    /\ \A i \in 1 .. Len(acks'[e][s]) : jobPost'[queue'[e][s][i].id] # NoDoc
  BY DEF AnsweredIsApplied, QueuedId
<1> DEFINE Goal == /\ Len(acks'[e][s]) <= Len(queue'[e][s])
                   /\ \A i \in 1 .. Len(acks'[e][s]) : jobPost'[queue'[e][s][i].id] # NoDoc
<1> HIDE DEF Goal
<1>f. /\ Len(acks[e][s]) \in Nat /\ Len(queue[e][s]) \in Nat
      /\ Len(acks[e][s]) <= Len(queue[e][s])
      /\ \A i \in 1 .. Len(acks[e][s]) :
            i \in 1 .. Len(queue[e][s]) /\ jobPost[queue[e][s][i].id] # NoDoc
  BY Lengths, AnsweredFacts
<1>1. CASE Kept
  BY <1>1, <1>f DEF Kept, SameWrites, Goal
<1>2. ASSUME NEW d \in Devices, NEW m \in Mutation, Appended(d, m) PROVE Goal
  <2>1. Len(queue[e][s]) <= Len(queue'[e][s]) /\ Len(queue'[e][s]) \in Nat
    BY <1>2, <1>f DEF Appended
  <2>2. /\ acks' = acks /\ jobPost' = jobPost
        /\ \A i \in 1 .. Len(queue[e][s]) : queue'[e][s][i] = queue[e][s][i]
    BY <1>2 DEF Appended
  <2>3. \A i \in 1 .. Len(acks'[e][s]) : jobPost'[queue'[e][s][i].id] # NoDoc
    BY <1>f, <2>2
  <2>4. Len(acks'[e][s]) <= Len(queue'[e][s])
    BY <1>f, <2>1, <2>2
  <2> QED
    BY <2>3, <2>4 DEF Goal
<1>3. ASSUME NEW p \in Posts, PostJob(p) PROVE Goal
  <2>1. SetPost(p) \in Mutation /\ upload[p].dev \in Devices
    BY <1>3, SetPostType DEF PostJob
  <2>2. Appended(upload[p].dev, SetPost(p))
    BY <1>3, <2>1, AppendsWrite DEF PostJob
  <2> QED
    BY <1>2, <2>1, <2>2
<1>4. ASSUME NEW d \in Devices, BookJobButtonPressed(d) PROVE Goal
  <2>1. BookPost(d) \in Mutation
    BY <1>4, BookPostType DEF BookJobButtonPressed
  <2>2. Appended(d, BookPost(d))
    BY <1>4, <2>1, AppendsWrite DEF BookJobButtonPressed
  <2> QED
    BY <1>2, <2>1, <2>2
<1>5. ASSUME NEW d \in Devices, WriteSucceeded(d) PROVE Goal
  <2>1. Answered(d)
    BY <1>5, AnswersWrite DEF WriteSucceeded
  <2>2. CASE e = d /\ s = uid[d]
    <3>1. /\ Len(acks'[e][s]) = Len(acks[e][s]) - 1 /\ Len(acks[e][s]) > 0
          /\ Len(queue'[e][s]) = Len(queue[e][s]) - 1
          /\ \A i \in 1 .. Len(queue[e][s]) - 1 : queue'[e][s][i] = queue[e][s][i + 1]
          /\ jobPost' = jobPost
      BY <2>1, <2>2 DEF Answered, Popped
    <3>2. ASSUME NEW i \in 1 .. Len(acks'[e][s]) PROVE jobPost'[queue'[e][s][i].id] # NoDoc
      <4>1. i + 1 \in 1 .. Len(acks[e][s]) /\ i \in 1 .. Len(queue[e][s]) - 1
        BY <1>f, <3>1
      <4> QED
        BY <1>f, <3>1, <4>1
    <3> QED
      BY <1>f, <3>1, <3>2 DEF Goal
  <2>3. CASE ~(e = d /\ s = uid[d])
    BY <1>f, <2>1, <2>3 DEF Answered, Popped, Goal
  <2> QED
    BY <2>2, <2>3
<1>6. ASSUME NEW d \in Devices, WriteFailed(d) PROVE Goal
  <2>1. Popped(d) /\ Cleared(d) /\ jobPost' = jobPost /\ queue[d][uid[d]] # << >>
    BY <1>6, RefusesWrite DEF WriteFailed
  <2>2. CASE e = d /\ s = uid[d]
    <3>1. acks'[e][s] = << >> /\ Len(queue'[e][s]) = Len(queue[e][s]) - 1
      BY <2>1, <2>2 DEF Popped, Cleared
    <3>2. queue[e][s] \in Seq(Mutation) /\ queue[e][s] # << >>
      BY <2>1, <2>2 DEF TypeOK, FirestoreTypeOK
    <3>3. Len(queue[e][s]) > 0
      BY <3>2
    <3>4. Len(acks'[e][s]) = 0
      BY <3>1
    <3> QED
      BY <1>f, <3>1, <3>3, <3>4 DEF Goal
  <2>3. CASE ~(e = d /\ s = uid[d])
    <3>1. acks'[e][s] = acks[e][s] /\ queue'[e][s] = queue[e][s]
      BY <2>1, <2>3 DEF Popped, Cleared
    <3> QED
      BY <1>f, <2>1, <3>1 DEF Goal
  <2> QED
    BY <2>2, <2>3
<1>7. ASSUME NEW d \in Devices, Commit(d), UNCHANGED appVars PROVE Goal
  <2> DEFINE m == queue[d][uid[d]][NextUnsent(d)]
  <2>1. Committed(d, m)
    BY <1>7, CommitsWrite
  <2>2. m.id \in Posts /\ jobPost'[m.id] # NoDoc
    <3>1. m.id \in Posts
      BY <2>1 DEF Committed, Mutation
    <3> QED
      BY <2>1, <3>1, NoDocAssumption DEF Committed, TypeOK, FirestoreTypeOK
  <2>3. queue' = queue /\ Len(acks'[e][s]) = IF e = d /\ s = uid[d] THEN Len(acks[e][s]) + 1
                                                              ELSE Len(acks[e][s])
    BY <2>1 DEF Committed
  <2>4. \A i \in 1 .. Len(acks[e][s]) : jobPost'[queue[e][s][i].id] # NoDoc
    <3>1. \A i \in 1 .. Len(queue[e][s]) : queue[e][s][i].id \in Posts
      BY Lengths DEF Mutation
    <3> QED
      BY <1>f, <3>1, DocumentsStay
  <2>5. CASE e = d /\ s = uid[d]
    <3>1. NextUnsent(d) = Len(acks[e][s]) + 1
      BY <2>5 DEF NextUnsent
    <3>2. NextUnsent(d) \in 1 .. Len(queue[e][s])
      BY <2>1, <2>5 DEF Committed
    <3>3. Len(acks'[e][s]) = Len(acks[e][s]) + 1 /\ Len(acks'[e][s]) <= Len(queue[e][s])
      BY <1>f, <2>3, <2>5, <3>1, <3>2
    <3>4. ASSUME NEW i \in 1 .. Len(acks'[e][s]) PROVE jobPost'[queue[e][s][i].id] # NoDoc
      <4>1. CASE i = NextUnsent(d)
        BY <2>2, <2>5, <4>1
      <4>2. CASE i # NextUnsent(d)
        BY <1>f, <2>4, <3>1, <3>3, <4>2
      <4> QED
        BY <4>1, <4>2
    <3> QED
      BY <2>3, <3>3, <3>4 DEF Goal
  <2>6. CASE ~(e = d /\ s = uid[d])
    BY <1>f, <2>3, <2>4, <2>6 DEF Goal
  <2> QED
    BY <2>5, <2>6
<1>8. ASSUME NEW d \in Devices, Forgets(d) PROVE Goal
  <2>1. /\ jobPost' = jobPost /\ Len(queue'[e][s]) = Len(queue[e][s])
        /\ \A i \in 1 .. Len(queue[e][s]) : queue'[e][s][i].id = queue[e][s][i].id
    BY <1>8 DEF Forgets, SameWrites
  <2>2. CASE acks'[e][s] = << >>
    <3>1. Len(acks'[e][s]) = 0
      BY <2>2
    <3> QED
      BY <1>f, <2>1, <3>1 DEF Goal
  <2>3. CASE acks'[e][s] = acks[e][s]
    BY <1>f, <2>1, <2>3 DEF Goal
  <2> QED
    BY <1>8, <2>2, <2>3 DEF Forgets, Cleared
<1> QED
  BY <1>1, <1>3, <1>4, <1>5, <1>6, <1>7, <1>8, StepKinds DEF QueueStep, Goal

-----------------------------------------------------------------------------
(* Provenance: a queued post goes on being the post of its press *)

\* The part of Provenance about one position of one queue.
FromPress(m) == m.op = "set" => InStage(m.id, "posted") /\ m.by = upload[m.id].uid

LEMMA QueuedFromPress ==
    ASSUME TypeOK, Provenance, [Next]_vars,
           NEW d \in Devices, NEW s \in Sessions, NEW i \in 1 .. Len(queue[d][s]),
           NEW p \in Posts, p = queue[d][s][i].id, queue[d][s][i].op = "set"
    PROVE  /\ InStage(p, "posted") /\ queue[d][s][i].by = upload[p].uid
           /\ InStage(p, "posted")' /\ queue[d][s][i].by = upload'[p].uid
<1>1. InStage(p, "posted") /\ queue[d][s][i].by = upload[p].uid
  BY DEF Provenance, SetIn, QueuedId
<1> QED
  BY <1>1, UploadsAreKept DEF UploadsKept

LEMMA ProvenanceStep ==
    ASSUME TypeOK, AnsweredIsApplied, Provenance, [Next]_vars
    PROVE  Provenance'
<1>k. UploadsKept
  BY UploadsAreKept
<1>1. ASSUME NEW p \in Posts, jobPost'[p] # NoDoc
      PROVE  InStage(p, "posted")' /\ jobPost'[p].ownerId = upload'[p].uid
  <2>1. CASE jobPost'[p] = jobPost[p]
    BY <1>1, <1>k, <2>1 DEF Provenance, UploadsKept
  <2>2. CASE jobPost'[p] # jobPost[p]
    <3>1. PICK d \in Devices : Commit(d) /\ UNCHANGED appVars
      <4>1. jobPost' # jobPost
        BY <2>2
      <4> QED
        BY <4>1, StepKinds DEF Kept, Forgets, QueueStep, PostJob, BookJobButtonPressed, WriteMutation,
           WriteSucceeded, Acknowledge, WriteFailed, RejectWrite
    <3> DEFINE u == uid[d]
               i == NextUnsent(d)
               m == queue[d][u][i]
    <3>2. Committed(d, m)
      BY <3>1, CommitsWrite
    <3>3. p = m.id /\ jobPost'[p] = Applied(m, jobPost[p])
      BY <2>2, <3>2 DEF Committed, TypeOK, FirestoreTypeOK
    <3>4. u \in Sessions /\ i \in 1 .. Len(queue[d][u]) /\ m \in Mutation
      BY <3>2 DEF Committed, TypeOK, FirestoreTypeOK
    <3>5. CASE m.op = "set"
      <4>1. jobPost'[p].ownerId = m.by
        BY <3>3, <3>5 DEF Applied
      <4> QED
        BY <3>3, <3>4, <3>5, <4>1, QueuedFromPress
    <3>6. CASE m.op = "update"
      <4>1. jobPost[p] # NoDoc
        BY <3>2, <3>3, <3>6 DEF Committed
      <4>2. jobPost'[p].ownerId = jobPost[p].ownerId
        BY <3>3, <3>6 DEF Applied
      <4> QED
        BY <1>k, <4>1, <4>2 DEF Provenance, UploadsKept
    <3> QED
      BY <3>4, <3>5, <3>6 DEF Mutation
  <2> QED
    BY <2>1, <2>2
<1>2. ASSUME NEW e \in Devices, NEW s \in Sessions, NEW i \in 1 .. Len(queue'[e][s])
      PROVE  FromPress(queue[e][s][i])'
  <2>1. ASSUME NEW j \in 1 .. Len(queue[e][s]),
               queue'[e][s][i].op = queue[e][s][j].op,
               queue'[e][s][i].id = queue[e][s][j].id,
               queue'[e][s][i].by = queue[e][s][j].by
        PROVE  FromPress(queue[e][s][i])'
    <3>1. CASE queue[e][s][j].op = "set"
      <4>1. PICK p \in Posts : p = queue[e][s][j].id
        BY Lengths DEF Mutation
      <4>2. InStage(p, "posted")' /\ queue[e][s][j].by = upload'[p].uid
        BY <3>1, <4>1, QueuedFromPress
      <4> QED
        BY <2>1, <4>1, <4>2 DEF FromPress, InStage
    <3>2. CASE queue[e][s][j].op # "set"
      BY <2>1, <3>2 DEF FromPress
    <3> QED
      BY <3>1, <3>2
  <2>f. Len(queue[e][s]) \in Nat
    BY Lengths
  <2>2. CASE Kept \/ \E d \in Devices : Forgets(d)
    BY <2>1, <2>2 DEF Kept, Forgets, SameWrites
  <2>3. ASSUME NEW d \in Devices, NEW m \in Mutation, Appended(d, m), FromPress(m)'
        PROVE  FromPress(queue[e][s][i])'
    <3>1. CASE i \in 1 .. Len(queue[e][s])
      BY <2>1, <2>3, <3>1 DEF Appended
    <3>2. CASE ~(i \in 1 .. Len(queue[e][s]))
      <4>1. e = d /\ s = uid[d] /\ i = Len(queue[e][s]) + 1
        BY <2>3, <2>f, <3>2 DEF Appended
      <4>2. queue'[e][s][i] = m
        BY <2>3, <4>1 DEF Appended
      <4> QED
        BY <2>3, <4>2 DEF FromPress
    <3> QED
      BY <3>1, <3>2
  <2>4. ASSUME NEW p \in Posts, PostJob(p) PROVE FromPress(queue[e][s][i])'
    <3>1. /\ SetPost(p) \in Mutation
          /\ upload[p] \in Upload /\ upload[p].dev \in Devices
      BY <2>4, SetPostType DEF PostJob
    <3>2. Appended(upload[p].dev, SetPost(p))
      BY <2>4, <3>1, AppendsWrite DEF PostJob
    <3>3. upload'[p].stage = "posted" /\ upload'[p].uid = upload[p].uid /\ upload'[p] # NoUpload
      <4>1. upload'[p] = [upload[p] EXCEPT !.stage = "posted", !.live = FALSE]
        BY <2>4 DEF PostJob, TypeOK
      <4> QED
        BY <3>1, <4>1, ScreensAssumption DEF Upload
    <3>4. SetPost(p).id = p /\ SetPost(p).by = upload[p].uid
      BY DEF SetPost
    <3>5. ASSUME NEW m \in Mutation, m = SetPost(p), Appended(upload[p].dev, m)
          PROVE  FromPress(m)'
      BY <3>3, <3>4, <3>5 DEF FromPress, InStage
    <3> QED
      BY <2>3, <3>1, <3>2, <3>5
  <2>5. ASSUME NEW d \in Devices, BookJobButtonPressed(d) PROVE FromPress(queue[e][s][i])'
    <3>1. BookPost(d) \in Mutation
      BY <2>5, BookPostType DEF BookJobButtonPressed
    <3>2. Appended(d, BookPost(d)) /\ BookPost(d).op = "update"
      BY <2>5, <3>1, AppendsWrite DEF BookJobButtonPressed, BookPost
    <3>3. ASSUME NEW m \in Mutation, m = BookPost(d) PROVE FromPress(m)'
      BY <3>2, <3>3 DEF FromPress
    <3> QED
      BY <2>3, <3>1, <3>2, <3>3
  <2>6. ASSUME NEW d \in Devices, Popped(d) PROVE FromPress(queue[e][s][i])'
    <3>1. CASE e = d /\ s = uid[d]
      <4>1. /\ Len(queue'[e][s]) = Len(queue[e][s]) - 1
            /\ \A j \in 1 .. Len(queue[e][s]) - 1 : queue'[e][s][j] = queue[e][s][j + 1]
        BY <2>6, <3>1 DEF Popped
      <4>2. i + 1 \in 1 .. Len(queue[e][s]) /\ queue'[e][s][i] = queue[e][s][i + 1]
        BY <2>f, <4>1
      <4> QED
        BY <2>1, <4>2
    <3>2. CASE ~(e = d /\ s = uid[d])
      BY <2>1, <2>6, <3>2 DEF Popped
    <3> QED
      BY <3>1, <3>2
  <2>7. ASSUME NEW d \in Devices, WriteSucceeded(d) \/ WriteFailed(d)
        PROVE  FromPress(queue[e][s][i])'
    BY <2>6, <2>7, AnswersWrite, RefusesWrite DEF WriteSucceeded, WriteFailed, Answered
  <2>8. ASSUME NEW d \in Devices, Commit(d) PROVE FromPress(queue[e][s][i])'
    BY <2>1, <2>8 DEF Commit
  <2> QED
    BY <2>2, <2>4, <2>5, <2>7, <2>8, StepKinds DEF QueueStep
<1>3. ASSUME NEW p \in Posts, InStage(p, "stored")' \/ InStage(p, "posted")'
      PROVE  p \in images'
  BY <1>3, <1>k DEF Provenance, UploadsKept, PostJob
<1> QED
  BY <1>1, <1>2, <1>3 DEF Provenance, FromPress, SetIn, QueuedId

-----------------------------------------------------------------------------
(* "Job Posted" *)

LEMMA PostedAlertStep ==
    ASSUME TypeOK, AnsweredIsApplied, PostedAlertTrue, [Next]_vars
    PROVE  PostedAlertTrue'
<1>1. \A p \in toldPosted : p \in Posts /\ jobPost'[p] # NoDoc
  BY DocumentsStay DEF PostedAlertTrue, TypeOK
<1>2. ASSUME toldPosted' = toldPosted PROVE PostedAlertTrue'
  BY <1>1, <1>2 DEF PostedAlertTrue
<1>3. ASSUME NEW d \in Devices, WriteSucceeded(d) PROVE PostedAlertTrue'
  <2> DEFINE m == Head(queue[d][uid[d]])
  <2>1. /\ Acknowledge(d)
        /\ toldPosted' = toldPosted \/ toldPosted' = toldPosted \cup {m.id}
    BY <1>3 DEF WriteSucceeded
  <2>2. /\ m = queue[d][uid[d]][1] /\ uid[d] \in Sessions
        /\ Len(acks[d][uid[d]]) > 0 /\ jobPost' = jobPost
    BY <2>1, AnswersWrite DEF Answered
  <2>3. jobPost[m.id] # NoDoc
    <3>1. 1 \in 1 .. Len(acks[d][uid[d]])
      BY <2>2, Lengths
    <3> QED
      BY <2>2, <3>1, AnsweredFacts
  <2> QED
    BY <1>1, <2>1, <2>2, <2>3 DEF PostedAlertTrue
<1>4. ASSUME NEW p \in Posts, PostJob(p) PROVE PostedAlertTrue'
  BY <1>2, <1>4 DEF PostJob
<1>5. ASSUME NEW d \in Devices, QueueStep(d), ~WriteSucceeded(d) PROVE PostedAlertTrue'
  BY <1>2, <1>5 DEF QueueStep, BookJobButtonPressed, WriteFailed, appVars
<1> QED
  BY <1>2, <1>3, <1>4, <1>5, StepKinds DEF Kept, Forgets

-----------------------------------------------------------------------------
(* The inductive invariant and what follows from it, for any number of times *)
(* that answers are lost and writes are sent again.                          *)

\* IInv holds throughout: types, the origin of every document and queued post,
\* and that an answer is only given to a write that was applied.
THEOREM InductiveInvariant == Spec => []IInv
<1>1. Init => IInv
  <2> SUFFICES ASSUME Init PROVE IInv
    OBVIOUS
  <2>1. \A d \in Devices, s \in Sessions : Len(queue[d][s]) = 0 /\ Len(acks[d][s]) = 0
    BY DEF Init, FirestoreInit
  <2>2. TypeOK
    BY TypeInit
  <2>3. Provenance
    BY <2>1 DEF Init, FirestoreInit, Provenance, InStage
  <2>4. AnsweredIsApplied /\ PostedAlertTrue
    BY <2>1 DEF Init, AnsweredIsApplied, PostedAlertTrue
  <2> QED
    BY <2>2, <2>3, <2>4 DEF IInv
<1>2. IInv /\ [Next]_vars => IInv'
  BY TypeStep, ProvenanceStep, AnsweredStep, PostedAlertStep DEF IInv
<1> QED
  BY <1>1, <1>2, PTL DEF Spec

\* Every variable keeps its type.
THEOREM TypeCorrect == Spec => []TypeOK
<1>1. IInv => TypeOK
  BY DEF IInv
<1> QED
  BY <1>1, InductiveInvariant, PTL

\* Stored posts, queued posts and stored photos come from a press of Post that got
\* as far as that, and carry the account that was signed in at the press.
THEOREM ProvenanceCorrect == Spec => []Provenance
<1>1. IInv => Provenance
  BY DEF IInv
<1> QED
  BY <1>1, InductiveInvariant, PTL

\* A stored post belongs to the account that pressed Post.
THEOREM OwnerCorrect == Spec => []OwnerIsPoster
<1>1. IInv => OwnerIsPoster
  BY DEF IInv, Provenance, InStage, OwnerIsPoster
<1> QED
  BY <1>1, InductiveInvariant, PTL

\* The photo of a stored post is in Cloud Storage.
THEOREM ImageCorrect == Spec => []ImageBeforePost
<1>1. IInv => ImageBeforePost
  BY DEF IInv, Provenance, ImageBeforePost
<1> QED
  BY <1>1, InductiveInvariant, PTL

\* "Job Posted" is never shown for a post that the backend does not have.
THEOREM PostedAlertCorrect == Spec => []PostedAlertTrue
<1>1. IInv => PostedAlertTrue
  BY DEF IInv
<1> QED
  BY <1>1, InductiveInvariant, PTL

-----------------------------------------------------------------------------
(* The shared list: how far the setData of a post has come *)

LEMMA QueueDomains ==
    ASSUME TypeOK, TypeOK'
    PROVE  \A e \in Devices, s \in Sessions :
              /\ DOMAIN queue[e][s] = 1 .. Len(queue[e][s]) /\ Len(queue[e][s]) \in Nat
              /\ DOMAIN queue'[e][s] = 1 .. Len(queue'[e][s]) /\ Len(queue'[e][s]) \in Nat
<1>1. \A e \in Devices, s \in Sessions :
          queue[e][s] \in Seq(Mutation) /\ queue'[e][s] \in Seq(Mutation)
  BY DEF TypeOK, FirestoreTypeOK
<1> QED
  BY <1>1

\* What is queued stays queued when the writes are the same.
LEMMA QueuedSame ==
    ASSUME TypeOK, TypeOK', SameWrites, NEW u, NEW p
    PROVE  Queued("set", u, p)' <=> Queued("set", u, p)
<1>1. \A e \in Devices, s \in Sessions :
          /\ DOMAIN queue'[e][s] = DOMAIN queue[e][s]
          /\ \A i \in DOMAIN queue[e][s] : /\ queue'[e][s][i].op = queue[e][s][i].op
                                           /\ queue'[e][s][i].id = queue[e][s][i].id
                                           /\ queue'[e][s][i].by = queue[e][s][i].by
  BY QueueDomains DEF SameWrites
<1> QED
  BY <1>1 DEF Queued

\* A new write is queued besides what was.
LEMMA QueuedAppended ==
    ASSUME TypeOK, TypeOK', NEW d \in Devices, NEW m \in Mutation, Appended(d, m),
           NEW u, NEW p
    PROVE  Queued("set", u, p)' <=>
               Queued("set", u, p) \/ (m.op = "set" /\ m.by = u /\ m.id = p)
<1>u. uid[d] \in Sessions
  BY DEF TypeOK, FirestoreTypeOK
<1>d. \A e \in Devices, s \in Sessions :
          /\ DOMAIN queue[e][s] = 1 .. Len(queue[e][s]) /\ Len(queue[e][s]) \in Nat
          /\ DOMAIN queue'[e][s] = 1 .. Len(queue'[e][s])
  BY QueueDomains
<1>1. ASSUME NEW e \in Devices, NEW s \in Sessions, NEW i \in DOMAIN queue[e][s]
      PROVE  i \in DOMAIN queue'[e][s] /\ queue'[e][s][i] = queue[e][s][i]
  <2>1. i \in 1 .. Len(queue[e][s])
    BY <1>d
  <2>2. Len(queue'[e][s]) \in {Len(queue[e][s]), Len(queue[e][s]) + 1}
    BY DEF Appended
  <2>3. i \in 1 .. Len(queue'[e][s])
    BY <1>d, <2>1, <2>2
  <2>4. queue'[e][s][i] = queue[e][s][i]
    BY <2>1 DEF Appended
  <2> QED
    BY <1>d, <2>3, <2>4
<1>2. ASSUME NEW e \in Devices, NEW s \in Sessions, NEW i \in DOMAIN queue'[e][s],
             i \notin DOMAIN queue[e][s]
      PROVE  queue'[e][s][i] = m
  <2>1. /\ i \in 1 .. Len(queue'[e][s])
        /\ ~(i \in 1 .. Len(queue[e][s]))
        /\ Len(queue[e][s]) \in Nat
    BY <1>d, <1>2
  <2>2. Len(queue'[e][s]) = IF e = d /\ s = uid[d] THEN Len(queue[e][s]) + 1
                                                   ELSE Len(queue[e][s])
    BY DEF Appended
  <2>3. e = d /\ s = uid[d] /\ i = Len(queue[d][uid[d]]) + 1
    BY <2>1, <2>2
  <2> QED
    BY <2>3 DEF Appended
<1>3. ASSUME Queued("set", u, p)
      PROVE  Queued("set", u, p)'
  BY <1>1, <1>3 DEF Queued
<1>4. ASSUME m.op = "set", m.by = u, m.id = p
      PROVE  Queued("set", u, p)'
  <2>3. /\ Len(queue'[d][uid[d]]) = Len(queue[d][uid[d]]) + 1
        /\ Len(queue[d][uid[d]]) \in Nat
    BY <1>u, <1>d DEF Appended
  <2>4. Len(queue[d][uid[d]]) + 1 \in 1 .. Len(queue'[d][uid[d]])
    BY <2>3
  <2>1. Len(queue[d][uid[d]]) + 1 \in DOMAIN queue'[d][uid[d]]
    BY <1>u, <1>d, <2>4
  <2>2. queue'[d][uid[d]][Len(queue[d][uid[d]]) + 1] = m
    BY DEF Appended
  <2> QED
    BY <1>u, <1>4, <2>1, <2>2 DEF Queued
<1>5. ASSUME Queued("set", u, p)', ~Queued("set", u, p)
      PROVE  m.op = "set" /\ m.by = u /\ m.id = p
  <2>0. PICK e \in Devices, s \in Sessions : \E i \in DOMAIN queue'[e][s] :
              /\ queue'[e][s][i].op = "set"
              /\ queue'[e][s][i].by = u
              /\ queue'[e][s][i].id = p
    BY <1>5 DEF Queued
  <2>1. PICK i \in DOMAIN queue'[e][s] : /\ queue'[e][s][i].op = "set"
                                        /\ queue'[e][s][i].by = u
                                        /\ queue'[e][s][i].id = p
    BY <2>0
  <2>2. i \notin DOMAIN queue[e][s]
    BY <1>1, <1>5, <2>1 DEF Queued
  <2> QED
    BY <1>2, <2>1, <2>2
<1> QED
  BY <1>3, <1>4, <1>5

\* When the front is gone, all that may no longer be queued is the front.
LEMMA QueuedPopped ==
    ASSUME TypeOK, TypeOK', NEW d \in Devices, Popped(d), queue[d][uid[d]] # << >>,
           NEW u, NEW p
    PROVE  /\ Queued("set", u, p)' => Queued("set", u, p)
           /\ Queued("set", u, p) /\ ~Queued("set", u, p)' =>
                 queue[d][uid[d]][1].op = "set" /\ queue[d][uid[d]][1].id = p
<1>d. \A e \in Devices, s \in Sessions :
          /\ DOMAIN queue[e][s] = 1 .. Len(queue[e][s]) /\ Len(queue[e][s]) \in Nat
          /\ DOMAIN queue'[e][s] = 1 .. Len(queue'[e][s])
  BY QueueDomains
<1>1. ASSUME NEW e \in Devices, NEW s \in Sessions, NEW i \in DOMAIN queue'[e][s]
      PROVE  \E j \in DOMAIN queue[e][s] : queue'[e][s][i] = queue[e][s][j]
  <2>1. CASE e = d /\ s = uid[d]
    <3>1. /\ Len(queue'[e][s]) = Len(queue[e][s]) - 1
          /\ \A k \in 1 .. Len(queue[e][s]) - 1 : queue'[e][s][k] = queue[e][s][k + 1]
      BY <2>1 DEF Popped
    <3>2. i \in 1 .. Len(queue'[e][s]) /\ Len(queue[e][s]) \in Nat
      BY <1>d
    <3>3. i + 1 \in 1 .. Len(queue[e][s]) /\ queue'[e][s][i] = queue[e][s][i + 1]
      BY <3>1, <3>2
    <3> QED
      BY <1>d, <3>3
  <2>2. CASE ~(e = d /\ s = uid[d])
    BY <2>2 DEF Popped
  <2> QED
    BY <2>1, <2>2
<1>2. ASSUME NEW e \in Devices, NEW s \in Sessions, NEW j \in DOMAIN queue[e][s],
             ~(e = d /\ s = uid[d] /\ j = 1)
      PROVE  \E i \in DOMAIN queue'[e][s] : queue'[e][s][i] = queue[e][s][j]
  <2>1. CASE e = d /\ s = uid[d]
    <3>1. /\ Len(queue'[e][s]) = Len(queue[e][s]) - 1
          /\ \A k \in 1 .. Len(queue[e][s]) - 1 : queue'[e][s][k] = queue[e][s][k + 1]
      BY <2>1 DEF Popped
    <3>0. j \in 1 .. Len(queue[e][s]) /\ j # 1 /\ Len(queue[e][s]) \in Nat
      BY <1>d, <1>2, <2>1
    <3>2. /\ j - 1 \in 1 .. Len(queue[e][s]) - 1
          /\ (j - 1) + 1 = j
      BY <3>0
    <3>4. j - 1 \in 1 .. Len(queue'[e][s]) /\ queue'[e][s][j - 1] = queue[e][s][j]
      BY <3>1, <3>2
    <3>3. j - 1 \in DOMAIN queue'[e][s] /\ queue'[e][s][j - 1] = queue[e][s][j]
      BY <1>d, <3>4
    <3> QED
      BY <3>3
  <2>2. CASE ~(e = d /\ s = uid[d])
    BY <2>2 DEF Popped
  <2> QED
    BY <2>1, <2>2
<1>3. Queued("set", u, p)' => Queued("set", u, p)
  BY <1>1 DEF Queued
<1>4. ASSUME Queued("set", u, p), ~Queued("set", u, p)'
      PROVE  queue[d][uid[d]][1].op = "set" /\ queue[d][uid[d]][1].id = p
  <2>0. PICK e \in Devices, s \in Sessions : \E j \in DOMAIN queue[e][s] :
              /\ queue[e][s][j].op = "set"
              /\ queue[e][s][j].by = u
              /\ queue[e][s][j].id = p
    BY <1>4 DEF Queued
  <2>1. PICK j \in DOMAIN queue[e][s] : /\ queue[e][s][j].op = "set"
                                       /\ queue[e][s][j].by = u
                                       /\ queue[e][s][j].id = p
    BY <2>0
  <2>2. e = d /\ s = uid[d] /\ j = 1
    BY <1>2, <1>4, <2>1 DEF Queued
  <2> QED
    BY <2>1, <2>2
<1> QED
  BY <1>3, <1>4

\* Where a press of Post stands is read off its stage and off the queues.
LEMMA PhaseSame ==
    ASSUME TypeOK, [Next]_vars, NEW p \in Posts, ~PostJob(p),
           NEW u, InStage(p, "posted") => u = upload[p].uid,
           Queued("set", u, p)' <=> Queued("set", u, p)
    PROVE  Phase(p)' = Phase(p)
<1>1. InStage(p, "posted")' <=> InStage(p, "posted")
  BY UploadsAreKept DEF UploadsKept
<1>2. CASE InStage(p, "posted")
  <2>1. u = upload[p].uid /\ u = upload'[p].uid
    BY <1>2, UploadsAreKept DEF UploadsKept
  <2>2. Queued("set", upload[p].uid, p)' <=> Queued("set", upload[p].uid, p)
    BY <2>1 DEF Queued
  <2> QED
    BY <1>1, <1>2, <2>2 DEF Phase
<1>3. CASE ~InStage(p, "posted")
  BY <1>1, <1>3 DEF Phase
<1> QED
  BY <1>2, <1>3

\* A commit posts a job, books it, reopens it or leaves the board alone.  A setData
\* is applied while it is queued, so its post has phase "sent".
LEMMA CommitOnBoard ==
    ASSUME IInv, NEW d \in Devices, Commit(d), UNCHANGED appVars
    PROVE  \E p \in Posts :
              /\ \A q \in Posts \ {p} : OnBoard(q)' = OnBoard(q)
              /\ \/ OnBoard(p)' = OnBoard(p)
                 \/ /\ OnBoard(p) # NoDoc
                    /\ OnBoard(p).status = "PENDING"
                    /\ OnBoard(p)' = [ownerId |-> OnBoard(p).ownerId, status |-> "BOOKED"]
                 \/ /\ Phase(p) = "sent"
                    /\ OnBoard(p) # NoDoc
                    /\ OnBoard(p).status = "BOOKED"
                    /\ OnBoard(p)' = [ownerId |-> OnBoard(p).ownerId, status |-> "PENDING"]
                 \/ /\ Phase(p) = "sent"
                    /\ \E u \in Users :
                          /\ OnBoard(p) = NoDoc
                          /\ OnBoard(p)' = [ownerId |-> u, status |-> "PENDING"]
<1> DEFINE u == uid[d]
           n == NextUnsent(d)
           m == queue[d][u][n]
<1>t. TypeOK /\ Provenance
  BY DEF IInv
<1>1. Committed(d, m)
  BY CommitsWrite DEF IInv
<1>p. PICK p \in Posts : p = m.id
  BY <1>1 DEF Committed, Mutation
<1>2. /\ m \in Mutation /\ n \in 1 .. Len(queue[d][u])
      /\ jobPost[p] \in Doc \cup {NoDoc}
      /\ jobPost'[p] = Applied(m, jobPost[p]) /\ Applied(m, jobPost[p]) \in Doc
  BY <1>1, <1>p DEF Committed, IInv, TypeOK, FirestoreTypeOK
<1>3. \A q \in Posts \ {p} : jobPost'[q] = jobPost[q]
  BY <1>1, <1>p DEF Committed, IInv, TypeOK, FirestoreTypeOK
<1>4. \A q \in Posts \ {p} : OnBoard(q)' = OnBoard(q)
  BY <1>3 DEF OnBoard
<1>5. jobPost'[p] # NoDoc
  BY <1>2, NoDocAssumption
<1>6. CASE m.op = "set"
  <2>u. u \in Sessions /\ m.by \in Users
    BY <1>2, <1>t DEF Mutation, TypeOK, FirestoreTypeOK
  <2>1. InStage(p, "posted") /\ m.by = upload[p].uid
    <3>1. SetIn(d, u, n) /\ QueuedId(d, u, n) = p
      BY <1>6, <1>p DEF SetIn, QueuedId
    <3> QED
      BY <1>2, <1>t, <2>u, <3>1 DEF Provenance
  <2>2. Phase(p) = "sent"
    <3>1. queue[d][u] \in Seq(Mutation)
      BY <1>t, <2>u DEF TypeOK, FirestoreTypeOK
    <3>2. n \in DOMAIN queue[d][u]
      BY <1>2, <3>1
    <3>3. Queued("set", m.by, p)
      BY <1>6, <1>p, <2>u, <3>2 DEF Queued
    <3> QED
      BY <2>1, <3>3 DEF Phase
  <2>3. OnBoard(p)' = [ownerId |-> m.by, status |-> "PENDING"]
    <3>1. jobPost'[p].ownerId = m.by /\ jobPost'[p].status = "PENDING"
      BY <1>2, <1>6 DEF Applied
    <3> QED
      BY <1>5, <3>1 DEF OnBoard
  <2>4. CASE jobPost[p] = NoDoc
    BY <1>2, <1>4, <2>u, <2>2, <2>3, <2>4 DEF OnBoard
  <2>5. CASE jobPost[p] # NoDoc
    <3>1. /\ jobPost[p].ownerId = m.by
          /\ jobPost[p] \in Doc
      BY <1>2, <1>t, <2>1, <2>5 DEF Provenance
    <3>2. OnBoard(p) = [ownerId |-> m.by, status |-> jobPost[p].status]
      BY <2>5, <3>1 DEF OnBoard
    <3>3. /\ OnBoard(p).ownerId = m.by
          /\ OnBoard(p).status = jobPost[p].status
          /\ jobPost[p].status \in {"PENDING", "BOOKED"}
      BY <3>1, <3>2 DEF Doc, Statuses
    <3>4. OnBoard(p) # NoDoc
      BY <2>u, <3>2, <3>3, NoDocAssumption DEF Statuses
    <3>5. CASE jobPost[p].status = "PENDING"
      BY <1>4, <2>3, <3>2, <3>5
    <3>6. CASE jobPost[p].status = "BOOKED"
      BY <1>4, <2>2, <2>3, <3>3, <3>4, <3>6
    <3> QED
      BY <3>3, <3>5, <3>6
  <2> QED
    BY <2>4, <2>5
<1>7. CASE m.op = "update"
  <2>1. jobPost[p] # NoDoc /\ jobPost[p] \in Doc
    BY <1>1, <1>2, <1>7, <1>p DEF Committed
  <2>2. OnBoard(p)' = [ownerId |-> jobPost[p].ownerId, status |-> "BOOKED"]
    <3>1. jobPost'[p].ownerId = jobPost[p].ownerId /\ jobPost'[p].status = "BOOKED"
      BY <1>2, <1>7 DEF Applied
    <3> QED
      BY <1>5, <3>1 DEF OnBoard
  <2>3. OnBoard(p) = [ownerId |-> jobPost[p].ownerId, status |-> jobPost[p].status]
    BY <2>1 DEF OnBoard
  <2>4. CASE jobPost[p].status = "BOOKED"
    BY <1>2, <1>4, <2>2, <2>3, <2>4
  <2>5. CASE jobPost[p].status = "PENDING"
    <3>1. OnBoard(p) # NoDoc
      BY <2>1, <2>3, NoDocAssumption DEF Doc
    <3>2. OnBoard(p)' = [ownerId |-> OnBoard(p).ownerId, status |-> "BOOKED"]
      BY <2>2, <2>3
    <3>3. OnBoard(p).status = "PENDING"
      BY <2>3, <2>5
    <3> QED
      BY <1>2, <1>4, <3>1, <3>2, <3>3
  <2> QED
    BY <2>1, <2>4, <2>5 DEF Doc, Statuses
<1> QED
  BY <1>2, <1>6, <1>7 DEF Mutation

OnBoards == [p \in Posts |-> OnBoard(p)]

Phases == [p \in Posts |-> Phase(p)]

\* A commit leaves the queues, and with them the phases, alone.
LEMMA CommitStep ==
    ASSUME IInv, TypeOK', [Next]_vars, NEW d \in Devices, Commit(d), UNCHANGED appVars
    PROVE  Board!BoardNext \/ (OnBoards' = OnBoards /\ Phases' = Phases)
<1>1. PICK p \in Posts :
            /\ \A q \in Posts \ {p} : OnBoard(q)' = OnBoard(q)
            /\ \/ OnBoard(p)' = OnBoard(p)
               \/ /\ OnBoard(p) # NoDoc
                  /\ OnBoard(p).status = "PENDING"
                  /\ OnBoard(p)' = [ownerId |-> OnBoard(p).ownerId, status |-> "BOOKED"]
               \/ /\ Phase(p) = "sent"
                  /\ OnBoard(p) # NoDoc
                  /\ OnBoard(p).status = "BOOKED"
                  /\ OnBoard(p)' = [ownerId |-> OnBoard(p).ownerId, status |-> "PENDING"]
               \/ /\ Phase(p) = "sent"
                  /\ \E u \in Users :
                        /\ OnBoard(p) = NoDoc
                        /\ OnBoard(p)' = [ownerId |-> u, status |-> "PENDING"]
  BY CommitOnBoard
<1>2. /\ OnBoards' = [q \in Posts |-> OnBoard(q)']
      /\ \A q \in Posts : OnBoards[q] = OnBoard(q)
      /\ \A q \in Posts : Phases[q] = Phase(q)
  BY DEF OnBoards, Phases
<1>3. Phases' = Phases
  <2>1. queue' = queue /\ upload' = upload
    BY DEF Commit, appVars
  <2> QED
    BY <2>1 DEF Phases, Phase, InStage, Queued
<1>4. CASE OnBoard(p)' = OnBoard(p)
  <2>1. OnBoards' = OnBoards
    BY <1>1, <1>4 DEF OnBoards
  <2> QED
    BY <1>3, <2>1
<1>5. CASE /\ OnBoard(p) # NoDoc
           /\ OnBoard(p).status = "PENDING"
           /\ OnBoard(p)' = [ownerId |-> OnBoard(p).ownerId, status |-> "BOOKED"]
  <2>1. OnBoards' = [OnBoards EXCEPT ![p].status = "BOOKED"]
    <3>2. OnBoard(p) = [ownerId |-> jobPost[p].ownerId, status |-> jobPost[p].status]
      BY <1>5 DEF OnBoard
    <3>1. [OnBoards[p] EXCEPT !.status = "BOOKED"] = OnBoard(p)'
      BY <1>2, <1>5, <3>2
    <3> QED
      BY <1>1, <1>2, <3>1 DEF OnBoards
  <2>2. Board!Book(p)
    BY <1>2, <1>3, <1>5, <2>1 DEF Board!Book, OnBoards, Phases
  <2> QED
    BY <2>2 DEF Board!BoardNext
<1>6. CASE /\ Phase(p) = "sent"
           /\ OnBoard(p) # NoDoc
           /\ OnBoard(p).status = "BOOKED"
           /\ OnBoard(p)' = [ownerId |-> OnBoard(p).ownerId, status |-> "PENDING"]
  <2>1. OnBoards' = [OnBoards EXCEPT ![p].status = "PENDING"]
    <3>2. OnBoard(p) = [ownerId |-> jobPost[p].ownerId, status |-> jobPost[p].status]
      BY <1>6 DEF OnBoard
    <3>1. [OnBoards[p] EXCEPT !.status = "PENDING"] = OnBoard(p)'
      BY <1>2, <1>6, <3>2
    <3> QED
      BY <1>1, <1>2, <3>1 DEF OnBoards
  <2>2. Board!Reopen(p)
    BY <1>2, <1>3, <1>6, <2>1 DEF Board!Reopen, OnBoards, Phases
  <2> QED
    BY <2>2 DEF Board!BoardNext
<1>7. CASE /\ Phase(p) = "sent"
           /\ \E u \in Users : /\ OnBoard(p) = NoDoc
                               /\ OnBoard(p)' = [ownerId |-> u, status |-> "PENDING"]
  <2>1. PICK u \in Users : /\ OnBoard(p) = NoDoc
                           /\ OnBoard(p)' = [ownerId |-> u, status |-> "PENDING"]
    BY <1>7
  <2>2. OnBoards' = [OnBoards EXCEPT ![p] = [ownerId |-> u, status |-> "PENDING"]]
    BY <1>1, <1>2, <2>1 DEF OnBoards
  <2>3. Board!Post(p, u)
    BY <1>2, <1>3, <1>7, <2>1, <2>2 DEF Board!Post, OnBoards, Phases
  <2> QED
    BY <2>3 DEF Board!BoardNext
<1> QED
  BY <1>1, <1>4, <1>5, <1>6, <1>7

\* No other step changes a document, or what is on the board.
LEMMA OnlyCommits ==
    ASSUME TypeOK, [Next]_vars,
           \A d \in Devices : ~(Commit(d) /\ UNCHANGED appVars)
    PROVE  jobPost' = jobPost /\ OnBoards' = OnBoards
<1>1. ASSUME NEW d \in Devices, QueueStep(d) PROVE jobPost' = jobPost
  <2>1. CASE BookJobButtonPressed(d)
    BY <2>1 DEF BookJobButtonPressed, WriteMutation
  <2>2. CASE WriteSucceeded(d)
    BY <2>2 DEF WriteSucceeded, Acknowledge
  <2>3. CASE WriteFailed(d)
    BY <2>3 DEF WriteFailed, RejectWrite
  <2> QED
    BY <1>1, <2>1, <2>2, <2>3 DEF QueueStep
<1>2. ASSUME NEW p \in Posts, PostJob(p) PROVE jobPost' = jobPost
  BY <1>2 DEF PostJob, WriteMutation
<1>3. jobPost' = jobPost
  BY <1>1, <1>2, StepKinds DEF Kept, Forgets
<1> QED
  BY <1>3 DEF OnBoards, OnBoard

\* postJob sends the setData of one post.
LEMMA SendStep ==
    ASSUME IInv, TypeOK', [Next]_vars, OnBoards' = OnBoards, NEW p \in Posts, PostJob(p)
    PROVE  Board!BoardNext
<1>t. TypeOK
  BY DEF IInv
<1>1. /\ SetPost(p) \in Mutation
      /\ upload[p] \in Upload /\ upload[p].dev \in Devices
  BY <1>t, SetPostType DEF PostJob
<1>2. Appended(upload[p].dev, SetPost(p))
  BY <1>t, <1>1, AppendsWrite DEF PostJob
<1>3. /\ SetPost(p).op = "set"
      /\ SetPost(p).by = upload[p].uid
      /\ SetPost(p).id = p
  BY DEF SetPost
<1>4. \A u, q : Queued("set", u, q)' <=>
          Queued("set", u, q) \/ (u = upload[p].uid /\ q = p)
  BY <1>t, <1>1, <1>2, <1>3, QueuedAppended
<1>5. /\ upload'[p] = [upload[p] EXCEPT !.stage = "posted", !.live = FALSE]
      /\ \A q \in Posts \ {p} : upload'[q] = upload[q]
  BY <1>t DEF PostJob, TypeOK
<1>6. /\ InStage(p, "posted")' /\ upload'[p].uid = upload[p].uid
      /\ ~InStage(p, "posted")
  <2>1. upload'[p].stage = "posted" /\ upload'[p].uid = upload[p].uid
    BY <1>1, <1>5 DEF Upload
  <2>2. upload'[p] \in Upload
    BY <1>1, <1>5 DEF Upload
  <2> QED
    BY <2>1, <2>2, ScreensAssumption DEF InStage, PostJob
<1>7. Phase(p)' = "sent" /\ Phase(p) = "unused"
  <2> DEFINE u == upload[p].uid
  <2>1. PICK v : v = u
    OBVIOUS
  <2>2. Queued("set", v, p)' /\ v = upload'[p].uid
    BY <1>4, <1>6, <2>1
  <2>3. Queued("set", upload[p].uid, p)'
    BY <2>2 DEF Queued
  <2> QED
    BY <1>6, <2>3 DEF Phase
<1>8. ASSUME NEW q \in Posts \ {p} PROVE Phase(q)' = Phase(q)
  <2>0. PICK v : v = upload[q].uid
    OBVIOUS
  <2>1. Queued("set", v, q)' <=> Queued("set", v, q)
    BY <1>4
  <2>2. ~PostJob(q)
    BY <1>t, <1>6 DEF PostJob, InStage, TypeOK
  <2> QED
    BY <1>t, <2>0, <2>1, <2>2, PhaseSame
<1>9. Phases' = [Phases EXCEPT ![p] = "sent"]
  BY <1>7, <1>8 DEF Phases
<1>10. Phases[p] = "unused"
  BY <1>7 DEF Phases
<1>11. Board!Send(p)
  BY <1>9, <1>10 DEF Board!Send, OnBoards, Phases
<1> QED
  BY <1>11 DEF Board!BoardNext

\* A result or a refusal takes the front of a queue with it; when that was the setData of
\* a post, its phone is told.
LEMMA AnswerStep ==
    ASSUME IInv, TypeOK', [Next]_vars, OnBoards' = OnBoards, \A q \in Posts : ~PostJob(q),
           NEW d \in Devices, Popped(d), queue[d][uid[d]] # << >>
    PROVE  Board!BoardNext \/ Phases' = Phases
<1>t. TypeOK /\ Provenance
  BY DEF IInv
<1> DEFINE m == queue[d][uid[d]][1]
<1>1. uid[d] \in Sessions /\ 1 \in 1 .. Len(queue[d][uid[d]]) /\ m \in Mutation
  <2>1. uid[d] \in Sessions /\ queue[d][uid[d]] \in Seq(Mutation)
    BY <1>t DEF TypeOK, FirestoreTypeOK
  <2> QED
    BY <2>1
<1>2. PICK p \in Posts : p = m.id
  BY <1>1 DEF Mutation
<1>3. \A u, q : /\ Queued("set", u, q)' => Queued("set", u, q)
                /\ Queued("set", u, q) /\ ~Queued("set", u, q)' => m.op = "set" /\ m.id = q
  BY <1>t, QueuedPopped
<1>4. ASSUME NEW q \in Posts, q # p \/ m.op # "set" PROVE Phase(q)' = Phase(q)
  <2>1. PICK u : u = upload[q].uid
    OBVIOUS
  <2>2. Queued("set", u, q)' <=> Queued("set", u, q)
    BY <1>2, <1>3, <1>4
  <2> QED
    BY <1>t, <2>1, <2>2, PhaseSame
<1>5. CASE Phase(p)' = Phase(p)
  BY <1>4, <1>5 DEF Phases
<1>6. CASE Phase(p)' # Phase(p)
  <2>1. m.op = "set"
    BY <1>4, <1>6
  <2>2. InStage(p, "posted")
    <3>1. SetIn(d, uid[d], 1) /\ QueuedId(d, uid[d], 1) = p
      BY <1>2, <2>1 DEF SetIn, QueuedId
    <3> QED
      BY <1>t, <1>1, <3>1 DEF Provenance
  <2>3. InStage(p, "posted")' /\ upload'[p].uid = upload[p].uid
    BY <1>t, <2>2, UploadsAreKept DEF UploadsKept
  <2>4. PICK u : u = upload[p].uid
    OBVIOUS
  <2>5. Queued("set", u, p) /\ ~Queued("set", u, p)'
    BY <1>t, <1>3, <1>6, <2>4, PhaseSame
  <2>6. Phase(p) = "sent"
    BY <2>2, <2>4, <2>5 DEF Phase
  <2>7. Phase(p)' = "answered"
    <3>1. ~Queued("set", upload[p].uid, p)'
      BY <2>3, <2>4, <2>5 DEF Queued
    <3> QED
      BY <2>3, <3>1 DEF Phase
  <2>8. Phases' = [Phases EXCEPT ![p] = "answered"] /\ Phases[p] = "sent"
    BY <1>4, <2>6, <2>7 DEF Phases
  <2>9. Board!Answer(p)
    BY <2>8 DEF Board!Answer, OnBoards, Phases
  <2> QED
    BY <2>9 DEF Board!BoardNext
<1> QED
  BY <1>5, <1>6

LEMMA BoardStep ==
    ASSUME IInv, TypeOK', [Next]_vars
    PROVE  Board!BoardNext \/ (OnBoards' = OnBoards /\ Phases' = Phases)
<1>t. TypeOK /\ AnsweredIsApplied
  BY DEF IInv
<1>1. CASE \E d \in Devices : Commit(d) /\ UNCHANGED appVars
  BY <1>1, CommitStep
<1> SUFFICES ASSUME \A d \in Devices : ~(Commit(d) /\ UNCHANGED appVars)
             PROVE  Board!BoardNext \/ (OnBoards' = OnBoards /\ Phases' = Phases)
  BY <1>1
<1>b. OnBoards' = OnBoards
  BY <1>t, OnlyCommits
<1>2. CASE \E p \in Posts : PostJob(p)
  BY <1>b, <1>2, SendStep
<1> SUFFICES ASSUME \A p \in Posts : ~PostJob(p)
             PROVE  Board!BoardNext \/ Phases' = Phases
  BY <1>b, <1>2
<1>3. ASSUME \A u \in Users, p \in Posts : Queued("set", u, p)' <=> Queued("set", u, p)
      PROVE  Phases' = Phases
  <2>1. ASSUME NEW p \in Posts PROVE Phase(p)' = Phase(p)
    <3>1. CASE InStage(p, "posted")
      <4>1. PICK u : u = upload[p].uid
        OBVIOUS
      <4>2. u \in Users
        BY <1>t, <3>1, <4>1 DEF InStage, TypeOK, Upload
      <4>3. Queued("set", u, p)' <=> Queued("set", u, p)
        BY <1>3, <4>2
      <4> QED
        BY <1>t, <4>1, <4>3, PhaseSame
    <3>2. CASE ~InStage(p, "posted")
      <4>1. ~InStage(p, "posted")'
        BY <1>t, <3>2, UploadsAreKept DEF UploadsKept
      <4> QED
        BY <3>2, <4>1 DEF Phase
    <3> QED
      BY <3>1, <3>2
  <2> QED
    BY <2>1 DEF Phases
<1>4. CASE Kept \/ \E d \in Devices : Forgets(d)
  BY <1>3, <1>4, <1>t, QueuedSame DEF Kept, Forgets
<1>5. ASSUME NEW d \in Devices, BookJobButtonPressed(d) PROVE Phases' = Phases
  <2>1. BookPost(d) \in Mutation /\ BookPost(d).op # "set"
    BY <1>t, <1>5, BookPostType DEF BookJobButtonPressed, BookPost
  <2>2. Appended(d, BookPost(d))
    BY <1>t, <1>5, <2>1, AppendsWrite DEF BookJobButtonPressed
  <2> QED
    BY <1>3, <1>t, <2>1, <2>2, QueuedAppended
<1>6. ASSUME NEW d \in Devices, WriteSucceeded(d) PROVE Board!BoardNext \/ Phases' = Phases
  <2>1. Acknowledge(d) /\ Popped(d)
    BY <1>t, <1>6, AnswersWrite DEF WriteSucceeded, Answered
  <2>2. queue[d][uid[d]] # << >>
    BY <1>t, <2>1, AnsweredFront DEF Acknowledge
  <2> QED
    BY <1>b, <2>1, <2>2, AnswerStep
<1>7. ASSUME NEW d \in Devices, WriteFailed(d) PROVE Board!BoardNext \/ Phases' = Phases
  <2>1. Popped(d) /\ queue[d][uid[d]] # << >>
    BY <1>t, <1>7, RefusesWrite DEF WriteFailed
  <2> QED
    BY <1>b, <2>1, AnswerStep
<1> QED
  BY <1>t, <1>4, <1>5, <1>6, <1>7, StepKinds DEF QueueStep

\* The app over the SDK implements the shared list, however often answers are lost: a post
\* appears pending and keeps its owner; it is booked; and it is pending again only by
\* its own setData, and only until the phone that posted it has its answer.
THEOREM Refinement == Spec => ImplementsJobBoard
<1>1. Init => Board!BoardInit
  BY DEF Init, FirestoreInit, Board!BoardInit, OnBoard, Phase, InStage
<1>2. IInv /\ IInv' /\ [Next]_vars => [Board!BoardNext]_(Board!boardVars)
  <2> SUFFICES ASSUME IInv, IInv', [Next]_vars PROVE [Board!BoardNext]_(Board!boardVars)
    OBVIOUS
  <2>1. TypeOK'
    BY DEF IInv
  <2>2. Board!BoardNext \/ (OnBoards' = OnBoards /\ Phases' = Phases)
    BY <2>1, BoardStep
  <2> QED
    BY <2>2 DEF Board!boardVars, OnBoards, Phases
<1> QED
  BY <1>1, <1>2, InductiveInvariant, PTL DEF Spec, ImplementsJobBoard, Board!BoardSpec
=============================================================================
