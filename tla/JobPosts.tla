------------------------------ MODULE JobPosts ------------------------------
(***************************************************************************)
(* The life of a job post: AddJobPostViewController uploads the photo with *)
(* StorageService.postImage and then stores the post with                  *)
(* DBService.postJob; JobPostDetailViewController books it.  Several       *)
(* phones, several accounts per phone, over the SDK steps of Firestore.    *)
(***************************************************************************)
EXTENDS Firestore, FiniteSets

CONSTANTS NoUpload,     \* Post was not pressed for this document id
          NoDetail,     \* no detail screen is open
          Accounts(_),  \* the accounts that are used on a device
          Posters,      \* bound: the devices on which jobs are posted
          Sitters,      \* bound: the devices on which jobs are opened and booked
          MaxQueue,     \* bound: Book is not pressed with more writes queued
          MaxRefusals   \* bound: writes that a security rule refuses

VARIABLES form,        \* form[d]: the Add Job screen of d
          upload,      \* upload[p]: what became of the press of Post that drew id p
          images,      \* Cloud Storage: ids whose photo is stored
          detail,      \* detail[d]: the job detail screen of d
          toldPosted,  \* posts for which "Job Posted" was shown
          toldBooked,  \* <<user, post>> pairs for which "Job Booked" was shown
          refusals     \* the writes that were dropped because the backend refused one

appVars == <<form, upload, images, detail, toldPosted, toldBooked, refusals>>
vars == <<fsVars, appVars>>

-----------------------------------------------------------------------------
\* user.uid and the documentID captured by the closures of postButtonPressed;
\* live: the screen that the closures hold weakly is still there.
Upload == [stage : {"uploading", "stored", "posted", "failed"},
           uid : Users, dev : Devices, live : BOOLEAN]

\* The detail screen keeps a copy of the post as the list showed it; loaded:
\* fetchUser has answered and updateUI has set the button.
Detail == [post : Posts, status : Statuses, loaded : BOOLEAN]

ASSUME ScreensAssumption == NoUpload \notin Upload /\ NoDetail \notin Detail

\* The types of all variables.
TypeOK ==
    /\ FirestoreTypeOK
    /\ form \in [Devices -> {"closed", "open", "posted"}]
    /\ upload \in [Posts -> Upload \cup {NoUpload}]
    /\ images \subseteq Posts
    /\ detail \in [Devices -> Detail \cup {NoDetail}]
    /\ toldPosted \subseteq Posts
    /\ toldBooked \subseteq Users \X Posts
    /\ refusals \subseteq [op : {"set", "update"}, id : Posts, by : Users]

Init ==
    /\ FirestoreInit
    /\ form = [d \in Devices |-> "closed"]
    /\ upload = [p \in Posts |-> NoUpload]
    /\ images = {}
    /\ detail = [d \in Devices |-> NoDetail]
    /\ toldPosted = {}
    /\ toldBooked = {}
    /\ refusals = {}

-----------------------------------------------------------------------------
(* Posting a job *)

\* Bound: no form is opened when every document id is used up.
OpenForm(d) ==
    /\ d \in Posters
    /\ uid[d] # NoUser
    /\ \E p \in Posts : upload[p] = NoUpload
    /\ form[d] = "closed"
    /\ form' = [form EXCEPT ![d] = "open"]
    /\ UNCHANGED <<fsVars, upload, images, detail, toldPosted, toldBooked, refusals>>

\* Mutant of PostButtonPressed: the document id is drawn once per form.
PostButtonPressedSameId(d, p) ==
    /\ form[d] = "open"
    /\ uid[d] # NoUser
    /\ upload' = [upload EXCEPT ![p] =
           [stage |-> "uploading", uid |-> uid[d], dev |-> d, live |-> TRUE]]
    /\ UNCHANGED <<fsVars, form, images, detail, toldPosted, toldBooked, refusals>>

\* Post is pressed with a complete form: a fresh document id is drawn and the
\* upload of the photo starts.  The button stays enabled, so the same form may
\* be posted again under another id.
PostButtonPressed(d, p) ==
    /\ form[d] = "open"
    /\ uid[d] # NoUser
    /\ upload[p] = NoUpload
    /\ upload' = [upload EXCEPT ![p] =
           [stage |-> "uploading", uid |-> uid[d], dev |-> d, live |-> TRUE]]
    /\ UNCHANGED <<fsVars, form, images, detail, toldPosted, toldBooked, refusals>>

\* The queues of d after the form went away.
QueuesSilenced(d) == [queue EXCEPT ![d] = [u \in Sessions |-> Silenced(queue[d][u])]]

\* Cancel, or OK of the "Job Posted" alert: the screen goes away, the uploads
\* it started and the closures that wait for them do not.
CloseForm(d) ==
    /\ form[d] # "closed"
    /\ form' = [form EXCEPT ![d] = "closed"]
    /\ upload' = [p \in Posts |-> IF upload[p] # NoUpload /\ upload[p].dev = d
                                  THEN [upload[p] EXCEPT !.live = FALSE]
                                  ELSE upload[p]]
    /\ queue' = QueuesSilenced(d)
    /\ UNCHANGED <<jobPost, uid, acks, cache, snapshot, listening, losses>>
    /\ UNCHANGED <<images, detail, toldPosted, toldBooked, refusals>>

InStage(p, s) == upload[p] # NoUpload /\ upload[p].stage = s

\* Cloud Storage takes the photo; postImage asks for its download URL.
ImageStored(p) ==
    /\ InStage(p, "uploading")
    /\ upload' = [upload EXCEPT ![p].stage = "stored"]
    /\ images' = images \cup {p}
    /\ UNCHANGED <<fsVars, form, detail, toldPosted, toldBooked, refusals>>

\* The upload fails, perhaps after the photo was stored.  The failure observer
\* is empty: the completion of postImage is never called.
UploadFailed(p) ==
    /\ InStage(p, "uploading")
    /\ upload' = [upload EXCEPT ![p].stage = "failed"]
    /\ images' \in {images, images \cup {p}}
    /\ UNCHANGED <<fsVars, form, detail, toldPosted, toldBooked, refusals>>

\* downloadURL fails: postImage reports it and the press of Post ends with a
\* line on the console.
DownloadURLFailed(p) ==
    /\ InStage(p, "stored")
    /\ upload' = [upload EXCEPT ![p].stage = "failed"]
    /\ UNCHANGED <<fsVars, form, images, detail, toldPosted, toldBooked, refusals>>

\* Mutant of SetPost: the owner is read when the photo has been stored.
SetPostAsCurrentUser(p) ==
    [op |-> "set", id |-> p, by |-> uid[upload[p].dev], live |-> upload[p].live]

\* The setData of postJob, with the uid that was captured at the press.
SetPost(p) == [op |-> "set", id |-> p, by |-> upload[p].uid, live |-> upload[p].live]

\* Mutants of PostJob: "Job Posted" is shown without waiting for the backend;
PostJobOptimistic(p) ==
    /\ InStage(p, "stored")
    /\ WriteMutation(upload[p].dev, SetPost(p))
    /\ upload' = [upload EXCEPT ![p].stage = "posted", ![p].live = FALSE]
    /\ toldPosted' = IF upload[p].live THEN toldPosted \cup {p} ELSE toldPosted
    /\ UNCHANGED <<form, images, detail, toldBooked, refusals>>

\* the closure returns early when its screen is gone.
PostJobOnlyFromForm(p) ==
    /\ InStage(p, "stored")
    /\ IF upload[p].live THEN WriteMutation(upload[p].dev, SetPost(p)) ELSE UNCHANGED fsVars
    /\ upload' = [upload EXCEPT ![p].stage = "posted", ![p].live = FALSE]
    /\ UNCHANGED <<form, images, detail, toldPosted, toldBooked, refusals>>

\* downloadURL answers: the post is written, whether or not the form is still
\* there and whoever is signed in by now.
PostJob(p) ==
    /\ InStage(p, "stored")
    /\ WriteMutation(upload[p].dev, SetPost(p))
    /\ upload' = [upload EXCEPT ![p].stage = "posted", ![p].live = FALSE]
    /\ UNCHANGED <<form, images, detail, toldPosted, toldBooked, refusals>>

-----------------------------------------------------------------------------
(* Booking a job *)

\* A row or a callout is tapped: the screen gets a copy of the post.
OpenDetail(d, p) ==
    /\ d \in Sitters
    /\ uid[d] # NoUser
    /\ form[d] = "closed"
    /\ detail[d] = NoDetail
    /\ Visible(d, p)
    /\ detail' = [detail EXCEPT ![d] =
           [post |-> p, status |-> LocalStatus(d, p), loaded |-> FALSE]]
    /\ UNCHANGED <<fsVars, form, upload, images, toldPosted, toldBooked, refusals>>

\* fetchUser answers with the owner and updateUI sets the button.
OwnerLoaded(d) ==
    /\ detail[d] # NoDetail
    /\ detail' = [detail EXCEPT ![d].loaded = TRUE]
    /\ UNCHANGED <<fsVars, form, upload, images, toldPosted, toldBooked, refusals>>

\* The storyboard's button is enabled; updateUI disables it unless the copy of
\* the post is pending.
BookButtonEnabled(d) == ~detail[d].loaded \/ detail[d].status = "PENDING"

\* The updateData of the press.  Its completion block only shows an error, on a
\* screen that is still there: no state depends on it.
BookPost(d) == [op |-> "update", id |-> detail[d].post, by |-> uid[d], live |-> FALSE]

\* Mutant of BookJobButtonPressed: a job that the cache does not hold yet is not
\* written.
BookWithoutWrite(d) ==
    /\ detail[d] # NoDetail
    /\ form[d] = "closed"
    /\ uid[d] # NoUser
    /\ BookButtonEnabled(d)
    /\ Len(queue[d][uid[d]]) < MaxQueue
    /\ toldBooked' = toldBooked \cup {<<uid[d], detail[d].post>>}
    /\ IF cache[d][detail[d].post] = NoDoc THEN UNCHANGED fsVars
                                           ELSE WriteMutation(d, BookPost(d))
    /\ UNCHANGED <<form, upload, images, detail, toldPosted, refusals>>

\* "Job Booked" is shown first, then the status is written.
BookJobButtonPressed(d) ==
    /\ detail[d] # NoDetail
    /\ form[d] = "closed"
    /\ uid[d] # NoUser
    /\ BookButtonEnabled(d)
    /\ Len(queue[d][uid[d]]) < MaxQueue
    /\ toldBooked' = toldBooked \cup {<<uid[d], detail[d].post>>}
    /\ WriteMutation(d, BookPost(d))
    /\ UNCHANGED <<form, upload, images, detail, toldPosted, refusals>>

CloseDetail(d) ==
    /\ detail[d] # NoDetail
    /\ form[d] = "closed"
    /\ detail' = [detail EXCEPT ![d] = NoDetail]
    /\ UNCHANGED <<fsVars, form, upload, images, toldPosted, toldBooked, refusals>>

-----------------------------------------------------------------------------
(* Answers to writes *)

\* A write is acknowledged.  The completion block of a setData shows "Job
\* Posted" on the form that is still there, whose OK then closes it; that of an
\* updateData does nothing.
WriteSucceeded(d) ==
    LET m == Head(queue[d][uid[d]])
        shown == m.op = "set" /\ m.live
    IN  /\ Acknowledge(d)
        /\ toldPosted' = IF shown THEN toldPosted \cup {m.id} ELSE toldPosted
        /\ form' = IF shown THEN [form EXCEPT ![d] = "posted"] ELSE form
        /\ UNCHANGED <<upload, images, detail, toldBooked, refusals>>

\* A write is refused.  The completion block of the write that is dropped shows an
\* error alert on a screen that is still there, and nothing is tried again.
WriteFailed(d) ==
    LET refused == queue[d][uid[d]][NextUnsent(d)]
        m == Head(queue[d][uid[d]])
    IN  /\ RejectWrite(d)
        /\ \/ refused.op = "update" /\ jobPost[refused.id] = NoDoc
           \/ Cardinality(refusals) < MaxRefusals
        /\ refusals' = refusals \cup {[op |-> m.op, id |-> m.id, by |-> m.by]}
        /\ UNCHANGED <<form, upload, images, detail, toldPosted, toldBooked>>

-----------------------------------------------------------------------------
(* Sessions *)

SignIn(d, u) ==
    /\ uid[d] = NoUser
    /\ u \in Accounts(d)
    /\ CredentialChange(d, u)
    /\ UNCHANGED <<queue, listening>>
    /\ UNCHANGED appVars

\* fetchUser has answered with the users document: the list or the map listens to
\* the collection.  It may never answer.
Listen(d) ==
    /\ uid[d] # NoUser
    /\ d \notin listening
    /\ listening' = listening \cup {d}
    /\ UNCHANGED <<jobPost, uid, queue, acks, cache, snapshot, losses>>
    /\ UNCHANGED appVars

\* Mutant of SignOut: the pending writes of the session are thrown away.
SignOutDropsQueue(d) ==
    /\ uid[d] # NoUser
    /\ form[d] = "closed"
    /\ CredentialChange(d, NoUser)
    /\ queue' = [queue EXCEPT ![d][uid[d]] = << >>]
    /\ listening' = listening \ {d}
    /\ detail' = [detail EXCEPT ![d] = NoDetail]
    /\ UNCHANGED <<form, upload, images, toldPosted, toldBooked, refusals>>

\* Sign out on the profile screen: the login screen replaces the tab bar and
\* every screen under it.  The uploads in flight and the queues stay, and so does
\* any listener but the last one that the list has set.
SignOut(d) ==
    /\ uid[d] # NoUser
    /\ form[d] = "closed"
    /\ CredentialChange(d, NoUser)
    /\ UNCHANGED queue
    /\ listening' \in {listening, listening \ {d}}
    /\ detail' = [detail EXCEPT ![d] = NoDetail]
    /\ UNCHANGED <<form, upload, images, toldPosted, toldBooked, refusals>>

\* An upload that has not led to a write dies with the app that ran it.
UploadsAfterRestart(d) ==
    [p \in Posts |->
        IF /\ InStage(p, "uploading") \/ InStage(p, "stored")
           /\ upload[p].dev = d
        THEN [upload[p] EXCEPT !.stage = "failed", !.live = FALSE]
        ELSE upload[p]]

\* The app is killed and launched again.  The Auth session, the queues and the
\* cache are on disk; everything else is gone.
Restart(d) ==
    /\ form' = [form EXCEPT ![d] = "closed"]
    /\ detail' = [detail EXCEPT ![d] = NoDetail]
    /\ queue' = QueuesSilenced(d)
    /\ snapshot' = [snapshot EXCEPT ![d] = NoSnapshot]
    /\ upload' = UploadsAfterRestart(d)
    /\ LoseAnswers(d)
    /\ listening' = listening \ {d}
    /\ UNCHANGED <<jobPost, uid, cache>>
    /\ UNCHANGED <<images, toldPosted, toldBooked, refusals>>

-----------------------------------------------------------------------------
\* Steps of the backend and of the streams that no screen takes part in.
Background(d) ==
    /\ \/ Commit(d)
       \/ StreamBreaks(d)
       \/ SendSnapshot(d)
       \/ ApplySnapshot(d)
    /\ UNCHANGED appVars

DeviceStep(d) ==
    \/ OpenForm(d) \/ CloseForm(d)
    \/ OwnerLoaded(d) \/ BookJobButtonPressed(d) \/ CloseDetail(d)
    \/ WriteSucceeded(d) \/ WriteFailed(d)
    \/ Listen(d) \/ SignOut(d) \/ Restart(d)
    \/ \E u \in Users : SignIn(d, u)
    \/ \E p \in Posts : PostButtonPressed(d, p) \/ OpenDetail(d, p)

UploadStep(p) ==
    ImageStored(p) \/ UploadFailed(p) \/ DownloadURLFailed(p) \/ PostJob(p)

Next ==
    \/ \E d \in Devices : DeviceStep(d) \/ Background(d)
    \/ \E p \in Posts : UploadStep(p)

Spec == Init /\ [][Next]_vars

-----------------------------------------------------------------------------
(* Fairness.  The write stream retries with backoff until the front of the   *)
(* queue is answered, so a session that lasts makes progress; Cloud Storage *)
(* ends an upload by success or after its retry time; a phone that goes on  *)
(* listening is sent what is new.  Nothing makes a phone listen.            *)

Deliver(d) == WriteSucceeded(d) \/ WriteFailed(d) \/ (Commit(d) /\ UNCHANGED appVars)

Watch(d) == (SendSnapshot(d) \/ ApplySnapshot(d)) /\ UNCHANGED appVars

Fairness ==
    /\ \A d \in Devices : WF_vars(Deliver(d)) /\ WF_vars(Watch(d))
    /\ \A p \in Posts : WF_vars(UploadStep(p))

FairSpec == Spec /\ Fairness

-----------------------------------------------------------------------------
(* Properties *)

Queued(op, u, p) ==
    \E d \in Devices, s \in Sessions : \E i \in DOMAIN queue[d][s] :
        /\ queue[d][s][i].op = op
        /\ queue[d][s][i].by = u
        /\ queue[d][s][i].id = p

\* The document under p as the board has it, and how far its setData has come.
OnBoard(p) == IF jobPost[p] = NoDoc THEN NoDoc
              ELSE [ownerId |-> jobPost[p].ownerId, status |-> jobPost[p].status]

Phase(p) == IF ~InStage(p, "posted") THEN "unused"
            ELSE IF Queued("set", upload[p].uid, p) THEN "sent" ELSE "answered"

\* The shared list behaves as JobBoard says: posts appear pending, keep their
\* owner, are booked, and go back to pending only while the phone that posted them
\* has not heard that its setData is stored, whatever the order and however often
\* the queued setData and updateData of the phones reach the backend.
Board == INSTANCE JobBoard WITH
    board <- [p \in Posts |-> OnBoard(p)],
    phase <- [p \in Posts |-> Phase(p)],
    NoPost <- NoDoc

ImplementsJobBoard == Board!BoardSpec

\* A stored post belongs to the account that pressed Post, although the write
\* may have been queued after a sign-out or a change of account.
OwnerIsPoster ==
    \A p \in Posts : jobPost[p] # NoDoc =>
        upload[p] # NoUpload /\ jobPost[p].ownerId = upload[p].uid

\* The photo that a stored post links to is in Cloud Storage: postButtonPressed
\* writes the post only after the upload and its URL are there.
ImageBeforePost == \A p \in Posts : jobPost[p] # NoDoc => p \in images

\* "Job Posted" is only shown for a post that is on the backend, not merely in
\* the phone's queue.
PostedAlertTrue == \A p \in toldPosted : jobPost[p] # NoDoc

Refused(op, u, p) == \E m \in refusals : m.op = op /\ m.by = u /\ m.id = p

\* A job that is pending again: a pending post is in its first version, unless its
\* setData was applied once more over a booking.
Reopened(doc) == doc # NoDoc /\ doc.status = "PENDING" /\ doc.version > 2

\* Every "Job Booked" that was shown stands for a booking the backend has, or a
\* write that is still queued on some phone, or one that was dropped as refused, or
\* one that the setData of the post has undone when it was sent again: it is lost
\* neither by a restart nor by a change of account, nor by a stream that breaks.
BookingKept ==
    \A u \in Users, p \in Posts : <<u, p>> \in toldBooked =>
        \/ jobPost[p] # NoDoc /\ jobPost[p].status = "BOOKED"
        \/ Queued("update", u, p)
        \/ Refused("update", u, p)
        \/ Reopened(jobPost[p])

\* A phone's cache is never ahead of the backend, and a cached document of the
\* backend's current version has its content, although acknowledged updates
\* are applied to whatever version was cached.
CacheAgrees ==
    \A d \in Devices, p \in Posts : cache[d][p] # NoDoc =>
        /\ jobPost[p] # NoDoc
        /\ cache[d][p].version <= jobPost[p].version
        /\ cache[d][p].version = jobPost[p].version =>
               /\ cache[d][p].ownerId = jobPost[p].ownerId
               /\ cache[d][p].status = jobPost[p].status

ShownBooked(d, p) == Visible(d, p) /\ LocalStatus(d, p) = "BOOKED"

\* What a phone shows as booked does not become pending or vanish again, even
\* if a watch snapshot from before the booking arrives after its
\* acknowledgement; only a refused write, a change of account or a post that the
\* backend has reopened takes it back.
NoFlicker ==
    [][\A d \in Devices, p \in Posts :
          /\ ShownBooked(d, p)
          /\ uid'[d] = uid[d]
          /\ ~RejectWrite(d)
          => ShownBooked(d, p)' \/ Reopened(cache'[d][p])]_vars

(* The inductive invariants behind these properties, proved in              *)
(* JobPostsProofs.  What is true of a stored document must be true of the    *)
(* queued setData that will store it, on any phone and in any session, and   *)
(* of the upload that led to it.                                             *)

SetIn(d, s, i) == queue[d][s][i].op = "set"

QueuedId(d, s, i) == queue[d][s][i].id

\* Provenance: documents, queued posts and stored photos come from a press of
\* Post that got as far as that.
Provenance ==
    /\ \A p \in Posts : jobPost[p] # NoDoc =>
           InStage(p, "posted") /\ jobPost[p].ownerId = upload[p].uid
    /\ \A d \in Devices, s \in Sessions : \A i \in 1 .. Len(queue[d][s]) :
           SetIn(d, s, i) => /\ InStage(QueuedId(d, s, i), "posted")
                             /\ queue[d][s][i].by = upload[QueuedId(d, s, i)].uid
    /\ \A p \in Posts : InStage(p, "stored") \/ InStage(p, "posted") => p \in images

\* The answered part of a queue has been applied.
AnsweredIsApplied ==
    \A d \in Devices, s \in Sessions :
        /\ Len(acks[d][s]) <= Len(queue[d][s])
        /\ \A i \in 1 .. Len(acks[d][s]) : jobPost[QueuedId(d, s, i)] # NoDoc

IInv == TypeOK /\ Provenance /\ AnsweredIsApplied /\ PostedAlertTrue

\* A write for p by u waits in a queue whose owner is not signed in there.
Stranded(op, u, p) ==
    \E d \in Devices : \E s \in Sessions \ {uid[d]} : \E i \in DOMAIN queue[d][s] :
        /\ queue[d][s][i].op = op
        /\ queue[d][s][i].by = u
        /\ queue[d][s][i].id = p

\* After "Job Booked" the booking reaches the backend or is refused, unless the
\* user who pressed the button signs out before the phone has sent it, or is undone
\* by a setData that is sent again.
BookingResolved ==
    \A u \in Users, p \in Posts :
        <<u, p>> \in toldBooked ~>
            \/ jobPost[p] # NoDoc /\ jobPost[p].status = "BOOKED"
            \/ Refused("update", u, p)
            \/ Stranded("update", u, p)
            \/ Reopened(jobPost[p])

\* A press of Post does not hang: the post is stored, or the upload fails, or the
\* write is refused or left behind in the queue of a session that ended.
PostResolved ==
    \A p \in Posts :
        upload[p] # NoUpload ~>
            \/ jobPost[p] # NoDoc
            \/ InStage(p, "failed")
            \/ Refused("set", upload[p].uid, p)
            \/ Stranded("set", upload[p].uid, p)

\* On a phone whose session and listener last, a stored post shows up, and a booked
\* one stops looking available.
EveryPhoneSees ==
    \A d \in Devices, p \in Posts :
        <>[](uid[d] # NoUser /\ d \in listening) =>
            (jobPost[p] # NoDoc ~>
                /\ cache[d][p] # NoDoc
                /\ jobPost[p].status = "BOOKED" => cache[d][p].status = "BOOKED")

-----------------------------------------------------------------------------
(* What the README says of a booking, and the code does not keep: a post      *)
(* appears as pending "until a sitter books the job".                         *)

\* One job is booked by one sitter: "Job Booked" is not shown to two accounts.
OneSitter ==
    \A u, v \in Users, p \in Posts :
        <<u, p>> \in toldBooked /\ <<v, p>> \in toldBooked => u = v
=============================================================================
