---------------------------- MODULE ProfileEdit ----------------------------
(***************************************************************************)
(* The profile and its editor: ProfileViewController fetches the owner and *)
(* opens EditOwnerProfileTableViewController, whose Save writes a profile  *)
(* to three places that know nothing of each other: the photo goes to one  *)
(* object per user in Cloud Storage, and when that is done the name and    *)
(* the photo's URL go to the Auth profile and to the users document.       *)
(*                                                                         *)
(* The content of a profile is told by the press of Save that it came      *)
(* from; Save writes all fields, so a place holds the values of one save   *)
(* (the photo's URL too: that of another save could only be among them     *)
(* when two saves overlap, of which nothing is claimed).                   *)
(***************************************************************************)
EXTENDS Sequences

CONSTANTS Devices,   \* phones running the app
          Users,     \* accounts
          Saves,     \* presses of Save that pass the check of the fields
          NoUser,    \* nobody is signed in
          NoSave     \* a press that has not happened; a profile as it was created

VARIABLES session,    \* session[d]: the user of d's Firebase session
          owner,      \* owner[d]: ProfileViewController.owner is set
          editor,     \* editor[d]: the edit screen of d
          complete,   \* complete[d]: it has a photo picked and a user name
          enabled,    \* enabled[d]: its Save button is
          save,       \* save[s]: what became of the press s
          photo,      \* photo[u]: Storage, the object profileImages/u
          naming,     \* the saves whose commitChanges is out
          auth,       \* auth[u]: the Auth profile of u
          updates,    \* updates[d][u]: updateData queued on d in u's session
          users,      \* users[u]: the users document of u
          smooth      \* the users none of whose saves overlapped or failed

screenVars == <<owner, editor, complete, enabled>>
storeVars == <<photo, auth, users>>
vars == <<session, screenVars, save, storeVars, naming, updates, smooth>>

-----------------------------------------------------------------------------
Sessions == Users \cup {NoUser}

\* The closure of a press: user as captured, the phone, and live: the editor that
\* the closure holds weakly is still there.
Save == [stage : {"uploading", "stored", "written", "failed"},
         user : Users, dev : Devices, live : BOOLEAN]

ASSUME NobodyAssumption == NoUser \notin Users /\ NoSave \notin Saves /\ NoSave \notin Save

\* The types of all variables; the editor is over the profile of the user signed in.
ProfileTypeOK ==
    /\ session \in [Devices -> Sessions]
    /\ owner \in [Devices -> BOOLEAN]
    /\ editor \in [Devices -> {"closed", "open", "crashed"}]
    /\ complete \in [Devices -> BOOLEAN]
    /\ enabled \in [Devices -> BOOLEAN]
    /\ save \in [Saves -> Save \cup {NoSave}]
    /\ photo \in [Users -> Saves \cup {NoSave}]
    /\ naming \subseteq Saves
    /\ auth \in [Users -> Saves \cup {NoSave}]
    /\ updates \in [Devices -> [Sessions -> Seq(Saves)]]
    /\ users \in [Users -> Saves \cup {NoSave}]
    /\ smooth \subseteq Users
    /\ \A d \in Devices : editor[d] = "open" => owner[d] /\ session[d] # NoUser

Init ==
    /\ session = [d \in Devices |-> NoUser]
    /\ owner = [d \in Devices |-> FALSE]
    /\ editor = [d \in Devices |-> "closed"]
    /\ complete = [d \in Devices |-> FALSE]
    /\ enabled = [d \in Devices |-> TRUE]
    /\ save = [s \in Saves |-> NoSave]
    /\ photo = [u \in Users |-> NoSave]
    /\ naming = {}
    /\ auth = [u \in Users |-> NoSave]
    /\ updates = [d \in Devices |-> [u \in Sessions |-> << >>]]
    /\ users = [u \in Users |-> NoSave]
    /\ smooth = Users

InStage(s, stages) == save[s] # NoSave /\ save[s].stage \in stages

\* The updateData of s waits in a queue.
Queued(s) == \E d \in Devices, u \in Sessions : \E i \in DOMAIN updates[d][u] : updates[d][u][i] = s

\* Something of u's saves is on its way.
Outstanding(u) ==
    \E s \in Saves : /\ save[s] # NoSave
                     /\ save[s].user = u
                     /\ InStage(s, {"uploading", "stored"}) \/ s \in naming \/ Queued(s)

-----------------------------------------------------------------------------
(* The screens *)

Running(d) == editor[d] # "crashed"

\* fetchUser answers, after the profile has appeared.
OwnerFetched(d) ==
    /\ session[d] # NoUser
    /\ Running(d)
    /\ owner' = [owner EXCEPT ![d] = TRUE]
    /\ UNCHANGED <<session, editor, complete, enabled, save, storeVars, naming, updates, smooth>>

\* willEditProfile: the editor is filled from the owner, an implicitly unwrapped
\* optional that is nil until fetchUser has answered.  No photo is picked yet.
WillEditProfile(d) ==
    /\ session[d] # NoUser
    /\ editor[d] = "closed"
    /\ editor' = [editor EXCEPT ![d] = IF owner[d] THEN "open" ELSE "crashed"]
    /\ complete' = [complete EXCEPT ![d] = FALSE]
    /\ enabled' = [enabled EXCEPT ![d] = TRUE]
    /\ UNCHANGED <<session, owner, save, storeVars, naming, updates, smooth>>

\* A photo is picked, the user name is cleared or typed.
EditFields(d) ==
    /\ editor[d] = "open"
    /\ complete' = [complete EXCEPT ![d] = ~@]
    /\ UNCHANGED <<session, owner, editor, enabled, save, storeVars, naming, updates, smooth>>

\* Save disables itself before the fields are checked.
SaveIncomplete(d) ==
    /\ editor[d] = "open"
    /\ enabled[d]
    /\ ~complete[d]
    /\ enabled' = [enabled EXCEPT ![d] = FALSE]
    /\ UNCHANGED <<session, owner, editor, complete, save, storeVars, naming, updates, smooth>>

SaveButtonPressed(d, s) ==
    /\ editor[d] = "open"
    /\ enabled[d]
    /\ complete[d]
    /\ session[d] # NoUser
    /\ save[s] = NoSave
    /\ enabled' = [enabled EXCEPT ![d] = FALSE]
    /\ save' = [save EXCEPT ![s] =
           [stage |-> "uploading", user |-> session[d], dev |-> d, live |-> TRUE]]
    /\ smooth' = IF Outstanding(session[d]) THEN smooth \ {session[d]} ELSE smooth
    /\ UNCHANGED <<session, owner, editor, complete, storeVars, naming, updates>>

\* The saves once the editor of d has gone away.
Orphaned(d) == [s \in Saves |-> IF save[s] # NoSave /\ save[s].dev = d
                                THEN [save[s] EXCEPT !.live = FALSE]
                                ELSE save[s]]

CancelButtonPressed(d) ==
    /\ editor[d] = "open"
    /\ editor' = [editor EXCEPT ![d] = "closed"]
    /\ save' = Orphaned(d)
    /\ UNCHANGED <<session, owner, complete, enabled, storeVars, naming, updates, smooth>>

-----------------------------------------------------------------------------
(* A save on its way *)

\* Mutant of Target: the user is asked for when the answer comes.
TargetNow(s) == session[save[s].dev]

\* The account that a save is for: user.uid, captured at the press.
Target(s) == save[s].user

\* postImage: the object is stored under the user's id, over the last one.
ImageStored(s) ==
    /\ InStage(s, {"uploading"})
    /\ save' = [save EXCEPT ![s].stage = "stored"]
    /\ photo' = [photo EXCEPT ![Target(s)] = s]
    /\ UNCHANGED <<session, screenVars, auth, users, naming, updates, smooth>>

\* The upload or the question for its URL fails, perhaps after the object was
\* stored.  Nobody enables the Save button again.
UploadFailed(s) ==
    /\ InStage(s, {"uploading", "stored"})
    /\ save' = [save EXCEPT ![s].stage = "failed"]
    /\ \/ InStage(s, {"uploading"}) /\ photo' = [photo EXCEPT ![Target(s)] = s]
       \/ UNCHANGED photo
    /\ smooth' = smooth \ {save[s].user}
    /\ UNCHANGED <<session, screenVars, auth, users, naming, updates>>

\* Mutants of DownloadURLAnswered: the profile is written while the photo is uploaded;
DownloadURLEarly(s) ==
    /\ InStage(s, {"uploading", "stored"})
    /\ naming' = naming \cup {s}
    /\ LET d == save[s].dev
       IN  /\ Running(d)
           /\ updates' = [updates EXCEPT ![d][session[d]] = Append(@, s)]
           /\ \/ UNCHANGED editor
              \/ save[s].live /\ editor' = [editor EXCEPT ![d] = "closed"]
           /\ enabled' = IF save[s].live THEN [enabled EXCEPT ![d] = TRUE] ELSE enabled
    /\ save' = [Orphaned(save[s].dev) EXCEPT ![s].stage = "written", ![s].live = FALSE]
    /\ UNCHANGED <<session, owner, complete, storeVars, smooth>>

\* the Auth profile is left out when the editor has gone.
DownloadURLIfOpen(s) ==
    /\ InStage(s, {"stored"})
    /\ naming' = IF save[s].live THEN naming \cup {s} ELSE naming
    /\ LET d == save[s].dev
       IN  /\ Running(d)
           /\ updates' = [updates EXCEPT ![d][session[d]] = Append(@, s)]
           /\ \/ UNCHANGED editor
              \/ save[s].live /\ editor' = [editor EXCEPT ![d] = "closed"]
           /\ enabled' = IF save[s].live THEN [enabled EXCEPT ![d] = TRUE] ELSE enabled
    /\ save' = [save EXCEPT ![s].stage = "written", ![s].live = FALSE]
    /\ UNCHANGED <<session, owner, complete, storeVars, smooth>>

\* downloadURL answers: commitChanges and updateData are sent, neither waiting for
\* the other, and the editor, if it is still there, goes away, or the image picker that
\* it presents does.
DownloadURLAnswered(s) ==
    /\ InStage(s, {"stored"})
    /\ naming' = naming \cup {s}
    /\ LET d == save[s].dev
       IN  /\ Running(d)
           /\ updates' = [updates EXCEPT ![d][session[d]] = Append(@, s)]
           /\ \/ UNCHANGED editor
              \/ save[s].live /\ editor' = [editor EXCEPT ![d] = "closed"]
           /\ enabled' = IF save[s].live THEN [enabled EXCEPT ![d] = TRUE] ELSE enabled
    /\ save' = [save EXCEPT ![s].stage = "written", ![s].live = FALSE]
    /\ UNCHANGED <<session, owner, complete, storeVars, smooth>>

\* commitChanges is carried out, or fails; requests overtake each other.
NamingAnswered(s) ==
    /\ s \in naming
    /\ naming' = naming \ {s}
    /\ \/ auth' = [auth EXCEPT ![Target(s)] = s] /\ UNCHANGED smooth
       \/ UNCHANGED auth /\ smooth' = smooth \ {save[s].user}
    /\ UNCHANGED <<session, screenVars, save, photo, users, updates>>

\* The next updateData of the session is carried out, or refused.
UpdateAnswered(d) ==
    LET u == session[d]
        s == Head(updates[d][u])
    IN  /\ Running(d)
        /\ updates[d][u] # << >>
        /\ updates' = [updates EXCEPT ![d][u] = Tail(@)]
        /\ \/ users' = [users EXCEPT ![Target(s)] = s] /\ UNCHANGED smooth
           \/ UNCHANGED users /\ smooth' = smooth \ {save[s].user}
        /\ UNCHANGED <<session, screenVars, save, photo, auth, naming>>

-----------------------------------------------------------------------------
(* Sessions *)

SignIn(d, u) ==
    /\ session[d] = NoUser
    /\ Running(d)
    /\ session' = [session EXCEPT ![d] = u]
    /\ UNCHANGED <<screenVars, save, storeVars, naming, updates, smooth>>

\* Mutant of SignOut: it can be reached while the editor is open.
SignOutUnderEditor(d) ==
    /\ session[d] # NoUser
    /\ Running(d)
    /\ session' = [session EXCEPT ![d] = NoUser]
    /\ owner' = [owner EXCEPT ![d] = FALSE]
    /\ UNCHANGED <<editor, complete, enabled, save, storeVars, naming, updates, smooth>>

\* Sign out is on the profile screen, which the editor covers; the next tab bar has
\* a new profile screen.
SignOut(d) ==
    /\ session[d] # NoUser
    /\ editor[d] = "closed"
    /\ session' = [session EXCEPT ![d] = NoUser]
    /\ owner' = [owner EXCEPT ![d] = FALSE]
    /\ UNCHANGED <<editor, complete, enabled, save, storeVars, naming, updates, smooth>>

\* The saves of d that end with the process: those that have not called Firestore, and
\* the commitChanges that are out, which may have been carried out.
Cut(d) == {s \in Saves : /\ save[s] # NoSave
                         /\ save[s].dev = d
                         /\ InStage(s, {"uploading", "stored"}) \/ s \in naming}

\* The app is killed, or has crashed, and is launched again.
Restart(d) ==
    /\ owner' = [owner EXCEPT ![d] = FALSE]
    /\ editor' = [editor EXCEPT ![d] = "closed"]
    /\ save' = [s \in Saves |-> IF s \in Cut(d) /\ InStage(s, {"uploading", "stored"})
                                THEN [save[s] EXCEPT !.stage = "failed", !.live = FALSE]
                                ELSE Orphaned(d)[s]]
    /\ naming' = naming \ Cut(d)
    /\ smooth' = smooth \ {save[s].user : s \in Cut(d)}
    /\ \/ UNCHANGED auth
       \/ \E s \in naming \cap Cut(d) : auth' = [auth EXCEPT ![Target(s)] = s]
    /\ UNCHANGED <<session, complete, enabled, photo, users, updates>>

-----------------------------------------------------------------------------
DeviceStep(d) ==
    \/ OwnerFetched(d) \/ WillEditProfile(d) \/ EditFields(d) \/ SaveIncomplete(d)
    \/ CancelButtonPressed(d) \/ UpdateAnswered(d) \/ SignOut(d) \/ Restart(d)
    \/ \E u \in Users : SignIn(d, u)
    \/ \E s \in Saves : SaveButtonPressed(d, s)

SaveStep(s) ==
    ImageStored(s) \/ UploadFailed(s) \/ DownloadURLAnswered(s) \/ NamingAnswered(s)

Next == (\E d \in Devices : DeviceStep(d)) \/ (\E s \in Saves : SaveStep(s))

Spec == Init /\ [][Next]_vars

-----------------------------------------------------------------------------
(* Properties *)

By(s, u) == s # NoSave => save[s] # NoSave /\ save[s].user = u

\* Whatever the three places hold of a user was entered by that user: uploads that
\* outlive their session, and writes left in the queue of another, reach no profile
\* but his.
OwnProfile == \A u \in Users : By(photo[u], u) /\ By(auth[u], u) /\ By(users[u], u)

\* A profile that links to a photo has one in Storage.
PhotoStored == \A u \in Users : users[u] # NoSave \/ auth[u] # NoSave => photo[u] # NoSave

\* A user whose saves follow one another, without a failure, ends with the same values
\* in Storage, in the Auth profile and in the users document, although nothing but the
\* captured values ties the three writes together.
SavesAgree ==
    \A u \in smooth : ~Outstanding(u) => photo[u] = users[u] /\ auth[u] = users[u]

(* The inductive invariant behind OwnProfile and PhotoStored. *)
Written ==
    /\ \A s \in naming : InStage(s, {"written"})
    /\ \A d \in Devices, u \in Sessions : \A i \in DOMAIN updates[d][u] :
           InStage(updates[d][u][i], {"written"})
    /\ \A s \in Saves : InStage(s, {"stored", "written"}) => photo[save[s].user] # NoSave

ProfileInv == ProfileTypeOK /\ Written /\ OwnProfile /\ PhotoStored

=============================================================================
