--------------------------- MODULE AccountSession ---------------------------
(***************************************************************************)
(* Accounts and sessions: AuthService with its three delegates, the login  *)
(* and create-account screens, the choice of the first screen at launch,   *)
(* the sign-out on the profile tab, and the start of the job list, which   *)
(* waits for the user's own document in the `users` collection.            *)
(*                                                                         *)
(* An account is made in three places, one after the other and not in one  *)
(* transaction: in Firebase Auth, in the Auth profile (its display name)   *)
(* and in Firestore (the `users` document).                                *)
(***************************************************************************)
EXTENDS Naturals, FiniteSets

CONSTANTS Devices,   \* phones running the app
          Users,     \* e-mail addresses, each with the uid it gets
          MaxOut,    \* bound: requests to Auth that a phone has out at a time
          NoUser     \* Auth.auth().currentUser is nil

VARIABLES accounts,  \* Firebase Auth: the accounts that exist
          profiles,  \* Firestore: the uids that have a users document
          session,   \* session[d]: current user of d, kept in the keychain
          screen,    \* screen[d]: what d shows
          alert,     \* alert[d]: an alert covers the screen of d
          create,    \* create[d][u]: the createUser request of d for u
          login,     \* login[d][u]: a signIn request of d for u is out
          naming,    \* naming[d]: the users whose commitChanges is out
          write,     \* write[d][u]: the setData of u's document, queued on d
          answer,    \* answer[d]: the backend has applied the setData of the user of
                     \* d, and the result is on its way over the stream in use
          cached,    \* cached[d]: the uids whose document is in the cache of d
          fetch,     \* fetch[d]: the users whose document the job list waits for
          listener,  \* listener[d]: JobListViewController.listener is set
          welcomed   \* users who were let in by didCreateNewAccount

ASSUME NoUserAssumption == NoUser \notin Users
ASSUME MaxOutAssumption == MaxOut \in Nat

requests == <<create, login, naming, write>>
documents == <<profiles, answer, cached>>
vars == <<accounts, documents, session, screen, alert, requests, fetch, listener, welcomed>>

-----------------------------------------------------------------------------
\* The types of all variables; the state of the job list goes with its screen.
SessionTypeOK ==
    /\ accounts \subseteq Users
    /\ profiles \subseteq Users
    /\ session \in [Devices -> Users \cup {NoUser}]
    /\ screen \in [Devices -> {"login", "create", "tabs", "crashed"}]
    /\ alert \in [Devices -> BOOLEAN]
    /\ create \in [Devices -> [Users -> {"idle", "sent", "made", "refused"}]]
    /\ login \in [Devices -> [Users -> BOOLEAN]]
    /\ naming \in [Devices -> SUBSET Users]
    /\ write \in [Devices -> [Users -> {"none", "live", "restored"}]]
    /\ answer \in [Devices -> BOOLEAN]
    /\ cached \in [Devices -> SUBSET Users]
    /\ fetch \in [Devices -> SUBSET Users]
    /\ listener \in [Devices -> BOOLEAN]
    /\ welcomed \subseteq Users
    /\ \A d \in Devices : listener[d] \/ fetch[d] # {} => screen[d] = "tabs"

Init ==
    /\ accounts = {}
    /\ profiles = {}
    /\ session = [d \in Devices |-> NoUser]
    /\ screen = [d \in Devices |-> "login"]
    /\ alert = [d \in Devices |-> FALSE]
    /\ create = [d \in Devices |-> [u \in Users |-> "idle"]]
    /\ login = [d \in Devices |-> [u \in Users |-> FALSE]]
    /\ naming = [d \in Devices |-> {}]
    /\ write = [d \in Devices |-> [u \in Users |-> "none"]]
    /\ answer = [d \in Devices |-> FALSE]
    /\ cached = [d \in Devices |-> {}]
    /\ fetch = [d \in Devices |-> {}]
    /\ listener = [d \in Devices |-> FALSE]
    /\ welcomed = {}

-----------------------------------------------------------------------------
(* Screens.  UIKit presents nothing on a screen that presents something     *)
(* already: an alert or a tab bar shown over an alert is dropped.           *)

CanPresent(d, s) == screen[d] = s /\ ~alert[d]

Running(d) == screen[d] # "crashed"

ShowAlert(d, s) == alert' = IF CanPresent(d, s) THEN [alert EXCEPT ![d] = TRUE] ELSE alert

\* The tab bar comes up for u: JobListViewController, the first tab, is new and
\* calls fetchBlogPosts.
ShowTabs(d, u) ==
    /\ screen' = [screen EXCEPT ![d] = "tabs"]
    /\ fetch' = [fetch EXCEPT ![d] = {u}]
    /\ listener' = [listener EXCEPT ![d] = FALSE]

KeepScreen == UNCHANGED <<screen, fetch, listener>>

OpenCreateAccount(d) ==
    /\ CanPresent(d, "login")
    /\ screen' = [screen EXCEPT ![d] = "create"]
    /\ UNCHANGED <<accounts, documents, session, alert, requests, fetch, listener, welcomed>>

\* Back to the login screen; requests that are out go on, but their delegate,
\* held weakly, is gone.
ShowLoginViewPressed(d) ==
    /\ CanPresent(d, "create")
    /\ screen' = [screen EXCEPT ![d] = "login"]
    /\ UNCHANGED <<accounts, documents, session, alert, requests, fetch, listener, welcomed>>

DismissAlert(d) ==
    /\ alert[d]
    /\ alert' = [alert EXCEPT ![d] = FALSE]
    /\ UNCHANGED <<accounts, documents, session, screen, requests, fetch, listener, welcomed>>

\* Every change of the session ends the write stream, with the result it carried.
StreamGone(d) == [answer EXCEPT ![d] = FALSE]

-----------------------------------------------------------------------------
(* Creating an account *)

\* The requests to Auth that are out on d.
Out(d) ==
    Cardinality({u \in Users : create[d][u] # "idle"})
        + Cardinality({u \in Users : login[d][u]}) + Cardinality(naming[d])

\* A press with an empty field does nothing and says nothing.  The button stays
\* enabled while requests are out.  Bound: not pressed again for an address whose
\* request is out, nor with MaxOut requests out.
CreateAccountButtonPressed(d, u, filled) ==
    /\ CanPresent(d, "create")
    /\ create[d][u] = "idle" /\ Out(d) < MaxOut
    /\ create' = IF filled THEN [create EXCEPT ![d][u] = "sent"] ELSE create
    /\ UNCHANGED <<accounts, documents, session, alert, login, naming, write, welcomed>>
    /\ KeepScreen

\* Mutant of AuthCreates: an address may be taken twice.
AuthCreatesAgain(d, u) ==
    /\ create[d][u] = "sent"
    /\ accounts' = accounts \cup {u}
    /\ create' = [create EXCEPT ![d][u] = "made"]
    /\ UNCHANGED <<documents, session, alert, login, naming, write, welcomed>>
    /\ KeepScreen

\* Firebase Auth makes the account, unless the address is taken.
AuthCreates(d, u) ==
    /\ create[d][u] = "sent"
    /\ u \notin accounts
    /\ accounts' = accounts \cup {u}
    /\ create' = [create EXCEPT ![d][u] = "made"]
    /\ UNCHANGED <<documents, session, alert, login, naming, write, welcomed>>
    /\ KeepScreen

\* Auth refuses, or the network fails, perhaps after the account was made.
CreateFails(d, u) ==
    /\ create[d][u] \in {"sent", "made"}
    /\ create' = [create EXCEPT ![d][u] = "refused"]
    /\ UNCHANGED <<accounts, documents, session, alert, login, naming, write, welcomed>>
    /\ KeepScreen

\* didRecieveErrorCreatingAccount
CreateRefused(d, u) ==
    /\ create[d][u] = "refused"
    /\ create' = [create EXCEPT ![d][u] = "idle"]
    /\ ShowAlert(d, "create")
    /\ UNCHANGED <<accounts, documents, session, login, naming, write, welcomed>>
    /\ KeepScreen

\* Mutant of CreateAnswered: the user is let in before the document is stored.
CreateAnsweredLetsIn(d, u) ==
    /\ create[d][u] = "made"
    /\ create' = [create EXCEPT ![d][u] = "idle"]
    /\ session' = [session EXCEPT ![d] = u]
    /\ naming' = [naming EXCEPT ![d] = @ \cup {u}]
    /\ write' = [write EXCEPT ![d][u] = "live"]
    /\ answer' = StreamGone(d)
    /\ IF CanPresent(d, "create")
       THEN ShowTabs(d, u) /\ welcomed' = welcomed \cup {u}
       ELSE KeepScreen /\ UNCHANGED welcomed
    /\ UNCHANGED <<accounts, profiles, cached, alert, login>>

\* The completion of createUser: Auth has signed the new user in; the display
\* name and the users document are sent, neither waiting for the other.
CreateAnswered(d, u) ==
    /\ create[d][u] = "made"
    /\ create' = [create EXCEPT ![d][u] = "idle"]
    /\ session' = [session EXCEPT ![d] = u]
    /\ naming' = [naming EXCEPT ![d] = @ \cup {u}]
    /\ write' = [write EXCEPT ![d][u] = "live"]
    /\ answer' = StreamGone(d)
    /\ UNCHANGED <<accounts, profiles, cached, alert, login, welcomed>>
    /\ KeepScreen

\* commitChanges answers; only an error is told.
NamingAnswered(d, u) ==
    /\ Running(d)
    /\ u \in naming[d]
    /\ naming' = [naming EXCEPT ![d] = @ \ {u}]
    /\ ShowAlert(d, "create") \/ UNCHANGED alert
    /\ UNCHANGED <<accounts, documents, session, create, login, write, welcomed>>
    /\ KeepScreen

\* The queue of a user is only sent while he is signed in.
Sends(d, u) == session[d] = u /\ write[d][u] # "none"

\* The backend applies the setData of createUser, the first time or again.
ProfileStored(d, u) ==
    /\ Sends(d, u)
    /\ ~answer[d]
    /\ profiles' = profiles \cup {u}
    /\ answer' = [answer EXCEPT ![d] = TRUE]
    /\ UNCHANGED <<accounts, cached, session, alert, requests, welcomed>>
    /\ KeepScreen

\* The stream breaks before the result is read: the setData is sent again, as new.
AnswerLost(d) ==
    /\ answer[d]
    /\ answer' = StreamGone(d)
    /\ UNCHANGED <<accounts, profiles, cached, session, alert, requests, welcomed>>
    /\ KeepScreen

\* Mutant of ProfileAcknowledged: success is not told to the delegate.
AcknowledgedSilently(d, u) ==
    /\ Sends(d, u)
    /\ answer[d]
    /\ answer' = StreamGone(d)
    /\ write' = [write EXCEPT ![d][u] = "none"]
    /\ cached' = [cached EXCEPT ![d] = @ \cup {u}]
    /\ KeepScreen /\ UNCHANGED welcomed
    /\ UNCHANGED <<accounts, profiles, session, alert, create, login, naming>>

\* The result is read.  didCreateNewAccount presents the tab bar on the create
\* screen, if that is there and shows no alert.  A write restored from disk has no
\* completion block.
ProfileAcknowledged(d, u) ==
    /\ Sends(d, u)
    /\ answer[d]
    /\ answer' = StreamGone(d)
    /\ write' = [write EXCEPT ![d][u] = "none"]
    /\ cached' = [cached EXCEPT ![d] = @ \cup {u}]
    /\ IF write[d][u] = "live" /\ CanPresent(d, "create")
       THEN ShowTabs(d, u) /\ welcomed' = welcomed \cup {u}
       ELSE KeepScreen /\ UNCHANGED welcomed
    /\ UNCHANGED <<accounts, profiles, session, alert, create, login, naming>>

\* A security rule refuses the document; or a later write of the queue, and this one,
\* whose result is lost with the stream, is dropped for it.
ProfileRefused(d, u) ==
    /\ Sends(d, u)
    /\ answer' = StreamGone(d)
    /\ write' = [write EXCEPT ![d][u] = "none"]
    /\ IF write[d][u] = "live" THEN ShowAlert(d, "create") ELSE UNCHANGED alert
    /\ UNCHANGED <<accounts, profiles, cached, session, create, login, naming, welcomed>>
    /\ KeepScreen

-----------------------------------------------------------------------------
(* Signing in and out *)

LoginButtonPressed(d, u, filled) ==
    /\ CanPresent(d, "login")
    /\ ~login[d][u] /\ Out(d) < MaxOut
    /\ login' = IF filled THEN [login EXCEPT ![d][u] = TRUE] ELSE login
    /\ UNCHANGED <<accounts, documents, session, alert, create, naming, write, welcomed>>
    /\ KeepScreen

\* didSignInToExistingAccount presents the tab bar.  Under the create screen the
\* login screen is in no window; whether UIKit presents from there is left open.
SignInAnswered(d, u) ==
    /\ login[d][u]
    /\ u \in accounts
    /\ login' = [login EXCEPT ![d][u] = FALSE]
    /\ session' = [session EXCEPT ![d] = u]
    /\ answer' = StreamGone(d)
    /\ \/ (CanPresent(d, "login") \/ CanPresent(d, "create")) /\ ShowTabs(d, u)
       \/ ~CanPresent(d, "login") /\ KeepScreen
    /\ UNCHANGED <<accounts, profiles, cached, alert, create, naming, write, welcomed>>

\* didRecieveErrorSigningToExistingAccount: wrong password, no account, no network.
SignInRefused(d, u) ==
    /\ login[d][u]
    /\ login' = [login EXCEPT ![d][u] = FALSE]
    /\ ShowAlert(d, "login")
    /\ UNCHANGED <<accounts, documents, session, create, naming, write, welcomed>>
    /\ KeepScreen

\* Mutant of SignOutAccount: the job list is told and nobody shows the login view.
SignOutStays(d) ==
    /\ CanPresent(d, "tabs")
    /\ session' = [session EXCEPT ![d] = NoUser]
    /\ answer' = StreamGone(d)
    /\ UNCHANGED <<screen, fetch, listener>>
    /\ UNCHANGED <<accounts, profiles, cached, alert, requests, welcomed>>

\* Mutant of SignOutAccount: the closures of the job list keep it alive.
SignOutKeepsList(d) ==
    /\ CanPresent(d, "tabs")
    /\ \/ /\ session' = [session EXCEPT ![d] = NoUser]
          /\ answer' = StreamGone(d)
          /\ screen' = [screen EXCEPT ![d] = IF listener[d] THEN "login" ELSE "crashed"]
       \/ /\ UNCHANGED <<session, answer>>
          /\ screen' = [screen EXCEPT ![d] = "login"]
    /\ UNCHANGED <<fetch, listener>>
    /\ UNCHANGED <<accounts, profiles, cached, alert, requests, welcomed>>

\* willSignOut on the profile tab.  Auth.signOut, then didSignOut of the job list,
\* which calls remove on its listener, nil or not; then the login view.  When
\* signOut throws, the user stays signed in and the login view is shown as well.
SignOutAccount(d) ==
    /\ CanPresent(d, "tabs")
    /\ \/ /\ session' = [session EXCEPT ![d] = NoUser]
          /\ answer' = StreamGone(d)
          /\ screen' = [screen EXCEPT ![d] = IF listener[d] THEN "login" ELSE "crashed"]
       \/ /\ UNCHANGED <<session, answer>>
          /\ screen' = [screen EXCEPT ![d] = "login"]
    /\ fetch' = [fetch EXCEPT ![d] = {}]
    /\ listener' = [listener EXCEPT ![d] = FALSE]
    /\ UNCHANGED <<accounts, profiles, cached, alert, requests, welcomed>>

-----------------------------------------------------------------------------
(* The start of the job list *)

\* The users document of u as a query on d finds it without the backend: in the
\* cache, or queued on d itself.
HeldLocally(d, u) == u \in cached[d] \/ Sends(d, u)

\* viewDidAppear of the list, or pull to refresh.  Requests that are out go on.
FetchBlogPosts(d) ==
    /\ CanPresent(d, "tabs")
    /\ session[d] # NoUser
    /\ fetch' = [fetch EXCEPT ![d] = @ \cup {session[d]}]
    /\ UNCHANGED <<accounts, documents, session, screen, alert, requests, listener, welcomed>>

\* Mutant of FetchUserAnswered: the handle of the registration is dropped.
FetchUserAnsweredUnkept(d, u) ==
    /\ u \in fetch[d]
    /\ fetch' = [fetch EXCEPT ![d] = @ \ {u}]
    /\ UNCHANGED <<alert, listener>>
    /\ UNCHANGED <<accounts, documents, session, screen, requests, welcomed>>

\* fetchUser answers, from the backend or, offline, from the cache: the list listens
\* for posts, or shows an error.  When no document matches, which an empty cache
\* also answers for a stored document, the completion of fetchUser is not called.
FetchUserAnswered(d, u) ==
    LET Finds == listener' = [listener EXCEPT ![d] = TRUE] /\ UNCHANGED alert
    IN  /\ u \in fetch[d]
        /\ fetch' = [fetch EXCEPT ![d] = @ \ {u}]
        /\ \/ u \in profiles /\ Finds /\ cached' = [cached EXCEPT ![d] = @ \cup {u}]
           \/ HeldLocally(d, u) /\ Finds /\ UNCHANGED cached
           \/ ~HeldLocally(d, u) /\ UNCHANGED <<alert, listener, cached>>
           \/ ShowAlert(d, "tabs") /\ UNCHANGED <<listener, cached>>
        /\ UNCHANGED <<accounts, profiles, answer, session, screen, requests, welcomed>>

-----------------------------------------------------------------------------
(* Launch *)

\* Mutant of Launch: the tab bar is the first screen for everybody.
LaunchWithTabs(d) ==
    /\ ShowTabs(d, session[d])
    /\ alert' = [alert EXCEPT ![d] = FALSE]
    /\ create' = [create EXCEPT ![d] = [u \in Users |-> "idle"]]
    /\ login' = [login EXCEPT ![d] = [u \in Users |-> FALSE]]
    /\ naming' = [naming EXCEPT ![d] = {}]
    /\ answer' = StreamGone(d)
    /\ UNCHANGED <<accounts, profiles, cached, session, write, welcomed>>

\* The app is killed, or has crashed, and is launched again.  A request that was
\* out may have been carried out; the queued setData is on disk.
Launch(d) ==
    /\ IF session[d] # NoUser
       THEN ShowTabs(d, session[d])
       ELSE /\ screen' = [screen EXCEPT ![d] = "login"]
            /\ fetch' = [fetch EXCEPT ![d] = {}]
            /\ listener' = [listener EXCEPT ![d] = FALSE]
    /\ alert' = [alert EXCEPT ![d] = FALSE]
    /\ \E made \in SUBSET {u \in Users : create[d][u] = "sent"} :
          accounts' = accounts \cup made
    /\ create' = [create EXCEPT ![d] = [u \in Users |-> "idle"]]
    /\ login' = [login EXCEPT ![d] = [u \in Users |-> FALSE]]
    /\ naming' = [naming EXCEPT ![d] = {}]
    /\ write' = [write EXCEPT ![d] = [u \in Users |->
           IF write[d][u] = "none" THEN "none" ELSE "restored"]]
    /\ answer' = StreamGone(d)
    /\ UNCHANGED <<profiles, cached, session, welcomed>>

-----------------------------------------------------------------------------
UserStep(d) ==
    \/ OpenCreateAccount(d) \/ ShowLoginViewPressed(d) \/ DismissAlert(d)
    \/ SignOutAccount(d) \/ FetchBlogPosts(d) \/ Launch(d)
    \/ \E u \in Users, filled \in BOOLEAN :
          CreateAccountButtonPressed(d, u, filled) \/ LoginButtonPressed(d, u, filled)

\* Nothing is answered to an app that has crashed.
CreateStep(d, u) ==
    /\ Running(d)
    /\ \/ AuthCreates(d, u) \/ CreateFails(d, u)
       \/ CreateRefused(d, u) \/ CreateAnswered(d, u)

WriteStep(d, u) ==
    /\ Running(d)
    /\ ProfileStored(d, u) \/ ProfileAcknowledged(d, u) \/ ProfileRefused(d, u)

LoginStep(d, u) == Running(d) /\ (SignInAnswered(d, u) \/ SignInRefused(d, u))

Next ==
    \E d \in Devices :
        \/ UserStep(d)
        \/ AnswerLost(d)
        \/ \E u \in Users : \/ CreateStep(d, u) \/ WriteStep(d, u) \/ LoginStep(d, u)
                            \/ NamingAnswered(d, u) \/ FetchUserAnswered(d, u)

Spec == Init /\ [][Next]_vars

\* Requests are answered, and a result that is sent again and again is read in the
\* end; nothing is assumed of the user.
Fairness ==
    \A d \in Devices :
        \A u \in Users : /\ WF_vars(FetchUserAnswered(d, u))
                         /\ WF_vars(CreateStep(d, u))
                         /\ WF_vars(WriteStep(d, u))
                         /\ SF_vars(Running(d) /\ ProfileAcknowledged(d, u))
                         /\ WF_vars(LoginStep(d, u))

FairSpec == Spec /\ Fairness

-----------------------------------------------------------------------------
(* Properties *)

\* The setData of a users document, which replaces the whole of it, is queued once:
\* never for a document that is stored and never on two phones, although creation
\* goes through Auth, a completion and a queue that survives a restart.  A profile
\* that was edited since can be replaced only by the one setData that made it, sent
\* again by the phone that has not read its result.
ProfileWrittenOnce ==
    [][\A d \in Devices, u \in Users :
          write[d][u] = "none" /\ write'[d][u] # "none" =>
              u \notin profiles /\ \A e \in Devices : write[e][u] = "none"]_vars

\* The invariant behind ProfileWrittenOnce.  What will be queued or is queued belongs
\* to one phone and one account that exists; what is not queued yet is not stored.
Pending(d, u) == create[d][u] = "made" \/ write[d][u] # "none"

CreatedOnce ==
    /\ profiles \subseteq accounts
    /\ \A d \in Devices, u \in Users : Pending(d, u) =>
          /\ u \in accounts
          /\ create[d][u] = "made" => u \notin profiles /\ write[d][u] = "none"
          /\ \A e \in Devices \ {d} : ~Pending(e, u)

\* didCreateNewAccount lets a user in only when the document is in Firestore,
\* however the answers of Auth and Firestore, lost streams and changes of the session
\* are interleaved.
WelcomedHaveProfile == welcomed \subseteq profiles

\* Nobody sees the tab bar without being signed in, across launches, failed
\* sign-outs and answers that come after the screen has changed.
TabsNeedSession == \A d \in Devices : screen[d] = "tabs" => session[d] # NoUser

\* A press of Create Account that sends the request comes to an end that the user
\* sees, through Auth, the write queue, lost streams and refusals: another screen or
\* an alert, unless another session takes over and the document waits for his.
CreateEnds ==
    \A d \in Devices, u \in Users :
        create[d][u] = "sent" /\ CanPresent(d, "create") ~>
            \/ screen[d] # "create" \/ alert[d]
            \/ write[d][u] # "none" /\ session[d] # u

\* The job list of a user whose document this phone has stored or has found before
\* ends up listening for posts, online or not, or shows an error, or is left, or another
\* session takes over.
ListStarts ==
    \A d \in Devices, u \in Users :
        u \in fetch[d] \cap cached[d] ~>
            listener[d] \/ alert[d] \/ screen[d] # "tabs" \/ session[d] # u

-----------------------------------------------------------------------------
(* What the code or its README says and does not keep. *)

\* The listener of the job list is declared as never nil when it is used, and
\* didSignOut uses it.
NeverCrashes == \A d \in Devices : screen[d] # "crashed"

\* A user who has an account sees the jobs on the list: it listens for posts sooner
\* or later, or says why not.
JobsAreVisible ==
    \A d \in Devices :
        screen[d] = "tabs" ~> listener[d] \/ alert[d] \/ screen[d] # "tabs"
=============================================================================
