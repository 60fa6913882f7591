------------------------ MODULE AccountSessionProofs ------------------------
(***************************************************************************)
(* Theorems about AccountSession, for any number of phones and accounts.   *)
(***************************************************************************)
EXTENDS AccountSession, TLAPS

LEMMA UpdatedType ==
    ASSUME NEW S, NEW f \in [Devices -> [Users -> S]], NEW d \in Devices, NEW u \in Users,
           NEW v \in S
    PROVE  [f EXCEPT ![d][u] = v] \in [Devices -> [Users -> S]]
  OBVIOUS

\* The screen and the job list, which ShowTabs and KeepScreen set together.
ScreensOK ==
    /\ screen \in [Devices -> {"login", "create", "tabs", "crashed"}]
    /\ fetch \in [Devices -> SUBSET Users]
    /\ listener \in [Devices -> BOOLEAN]
    /\ \A d \in Devices : listener[d] \/ fetch[d] # {} => screen[d] = "tabs"

LEMMA ScreensStep ==
    ASSUME SessionTypeOK, NEW d \in Devices, NEW u \in Users, ShowTabs(d, u) \/ KeepScreen
    PROVE  ScreensOK'
<1>1. CASE ShowTabs(d, u)
  BY <1>1 DEF ShowTabs, ScreensOK, SessionTypeOK
<1>2. CASE KeepScreen
  BY <1>2 DEF KeepScreen, ScreensOK, SessionTypeOK
<1> QED
  BY <1>1, <1>2

LEMMA TypeInit == Init => SessionTypeOK
  BY DEF Init, SessionTypeOK

LEMMA TypeOfUserSteps ==
    ASSUME SessionTypeOK, NEW d \in Devices, UserStep(d)
    PROVE  SessionTypeOK'
<1>1. CASE OpenCreateAccount(d) \/ ShowLoginViewPressed(d)
  BY <1>1 DEF OpenCreateAccount, ShowLoginViewPressed, CanPresent, SessionTypeOK, requests,
              documents
<1>2. CASE DismissAlert(d)
  BY <1>2 DEF DismissAlert, SessionTypeOK, requests, documents
<1>3. CASE FetchBlogPosts(d)
  BY <1>3 DEF FetchBlogPosts, CanPresent, SessionTypeOK, requests, documents
<1>4. CASE SignOutAccount(d)
  BY <1>4 DEF SignOutAccount, StreamGone, CanPresent, SessionTypeOK, requests
<1>5. CASE Launch(d)
  <2>1. /\ accounts' \subseteq Users
        /\ write' \in [Devices -> [Users -> {"none", "live", "restored"}]]
        /\ naming' \in [Devices -> SUBSET Users]
    BY <1>5 DEF Launch, SessionTypeOK
  <2>2. /\ create' \in [Devices -> [Users -> {"idle", "sent", "made", "refused"}]]
        /\ login' \in [Devices -> [Users -> BOOLEAN]]
        /\ alert' \in [Devices -> BOOLEAN]
        /\ answer' \in [Devices -> BOOLEAN]
    BY <1>5 DEF Launch, StreamGone, SessionTypeOK
  <2>3. /\ screen' \in [Devices -> {"login", "create", "tabs", "crashed"}]
        /\ fetch' \in [Devices -> SUBSET Users]
        /\ listener' \in [Devices -> BOOLEAN]
        /\ \A e \in Devices : listener'[e] \/ fetch'[e] # {} => screen'[e] = "tabs"
    <3>1. ScreensOK /\ session[d] \in Users \cup {NoUser}
      BY DEF ScreensOK, SessionTypeOK
    <3>2. CASE session[d] # NoUser
      <4>1. ShowTabs(d, session[d])
        BY <1>5, <3>2 DEF Launch
      <4>2. {session[d]} \subseteq Users
        BY <3>1, <3>2
      <4> QED
        BY <3>1, <4>1, <4>2 DEF ScreensOK, ShowTabs
    <3>3. CASE session[d] = NoUser
      <4>1. /\ screen' = [screen EXCEPT ![d] = "login"]
            /\ fetch' = [fetch EXCEPT ![d] = {}]
            /\ listener' = [listener EXCEPT ![d] = FALSE]
        BY <1>5, <3>3 DEF Launch
      <4> QED
        BY <3>1, <4>1 DEF ScreensOK
    <3> QED
      BY <3>2, <3>3
  <2> QED
    BY <1>5, <2>1, <2>2, <2>3 DEF Launch, SessionTypeOK
<1>6. ASSUME NEW u \in Users, NEW filled \in BOOLEAN,
             CreateAccountButtonPressed(d, u, filled) \/ LoginButtonPressed(d, u, filled)
      PROVE  SessionTypeOK'
  <2>1. CASE CreateAccountButtonPressed(d, u, filled)
    <3>1. create' \in [Devices -> [Users -> {"idle", "sent", "made", "refused"}]]
      BY <2>1, UpdatedType DEF CreateAccountButtonPressed, SessionTypeOK
    <3> QED
      BY <2>1, <3>1 DEF CreateAccountButtonPressed, KeepScreen, SessionTypeOK, documents
  <2>2. CASE LoginButtonPressed(d, u, filled)
    <3>1. login' \in [Devices -> [Users -> BOOLEAN]]
      BY <2>2, UpdatedType DEF LoginButtonPressed, SessionTypeOK
    <3> QED
      BY <2>2, <3>1 DEF LoginButtonPressed, KeepScreen, SessionTypeOK, documents
  <2> QED
    BY <1>6, <2>1, <2>2
<1> QED
  BY <1>1, <1>2, <1>3, <1>4, <1>5, <1>6 DEF UserStep

LEMMA TypeOfAnswers ==
    ASSUME SessionTypeOK, NEW d \in Devices, NEW u \in Users,
           \/ CreateStep(d, u) \/ WriteStep(d, u) \/ LoginStep(d, u)
           \/ NamingAnswered(d, u) \/ FetchUserAnswered(d, u) \/ AnswerLost(d)
    PROVE  SessionTypeOK'
<1>1. CASE AuthCreates(d, u) \/ CreateFails(d, u)
  <2>1. create' \in [Devices -> [Users -> {"idle", "sent", "made", "refused"}]]
    <3>1. CASE AuthCreates(d, u)
      BY <3>1, UpdatedType DEF AuthCreates, SessionTypeOK
    <3>2. CASE CreateFails(d, u)
      BY <3>2, UpdatedType DEF CreateFails, SessionTypeOK
    <3> QED
      BY <1>1, <3>1, <3>2
  <2> QED
    BY <1>1, <2>1 DEF AuthCreates, CreateFails, KeepScreen, SessionTypeOK, documents
<1>2. CASE CreateRefused(d, u)
  BY <1>2 DEF CreateRefused, ShowAlert, KeepScreen, SessionTypeOK, documents
<1>3. CASE CreateAnswered(d, u)
  BY <1>3 DEF CreateAnswered, StreamGone, KeepScreen, SessionTypeOK
<1>4. CASE ProfileAcknowledged(d, u)
  <2>1. ScreensOK' /\ welcomed' \subseteq Users
    BY <1>4, ScreensStep DEF ProfileAcknowledged, SessionTypeOK
  <2>2. /\ write' \in [Devices -> [Users -> {"none", "live", "restored"}]]
        /\ cached' \in [Devices -> SUBSET Users]
        /\ answer' \in [Devices -> BOOLEAN]
    BY <1>4, UpdatedType DEF ProfileAcknowledged, StreamGone, SessionTypeOK
  <2> QED
    BY <1>4, <2>1, <2>2 DEF ProfileAcknowledged, ScreensOK, SessionTypeOK
<1>5. CASE ProfileRefused(d, u)
  BY <1>5 DEF ProfileRefused, StreamGone, ShowAlert, KeepScreen, SessionTypeOK
<1>10. CASE ProfileStored(d, u) \/ AnswerLost(d)
  BY <1>10 DEF ProfileStored, AnswerLost, StreamGone, KeepScreen, SessionTypeOK, requests
<1>6. CASE SignInAnswered(d, u)
  <2>1. ScreensOK'
    BY <1>6, ScreensStep DEF SignInAnswered
  <2>2. login' \in [Devices -> [Users -> BOOLEAN]]
    BY <1>6, UpdatedType DEF SignInAnswered, SessionTypeOK
  <2> QED
    BY <1>6, <2>1, <2>2 DEF SignInAnswered, StreamGone, ScreensOK, SessionTypeOK
<1>7. CASE SignInRefused(d, u)
  BY <1>7 DEF SignInRefused, ShowAlert, KeepScreen, SessionTypeOK, documents
<1>8. CASE NamingAnswered(d, u)
  BY <1>8 DEF NamingAnswered, ShowAlert, KeepScreen, SessionTypeOK, documents
<1>9. CASE FetchUserAnswered(d, u)
  <2>1. /\ UNCHANGED <<accounts, profiles, answer, session, screen, create, login, naming,
                      write, welcomed>>
        /\ u \in fetch[d] /\ fetch' = [fetch EXCEPT ![d] = @ \ {u}]
        /\ screen[d] = "tabs"
    BY <1>9 DEF FetchUserAnswered, requests, SessionTypeOK
  <2>2. /\ cached' = cached \/ cached' = [cached EXCEPT ![d] = @ \cup {u}]
        /\ alert' = alert \/ alert' = [alert EXCEPT ![d] = TRUE]
        /\ listener' = listener \/ listener' = [listener EXCEPT ![d] = TRUE]
    BY <1>9 DEF FetchUserAnswered, ShowAlert
  <2>3. cached' \in [Devices -> SUBSET Users] /\ alert' \in [Devices -> BOOLEAN]
    <3>1. cached \in [Devices -> SUBSET Users] /\ alert \in [Devices -> BOOLEAN]
      BY DEF SessionTypeOK
    <3>2. alert' \in [Devices -> BOOLEAN]
      BY <2>2, <3>1
    <3>3. cached[d] \cup {u} \in SUBSET Users
      BY <2>1, <3>1
    <3>4. cached' \in [Devices -> SUBSET Users]
      BY <2>2, <3>1, <3>3
    <3> QED
      BY <3>2, <3>4
  <2>4. ScreensOK'
    <3>1. ScreensOK
      BY DEF ScreensOK, SessionTypeOK
    <3> QED
      BY <2>1, <2>2, <3>1 DEF ScreensOK
  <2> QED
    BY <2>1, <2>3, <2>4 DEF SessionTypeOK, ScreensOK
<1> QED
  BY <1>1, <1>2, <1>3, <1>4, <1>5, <1>6, <1>7, <1>8, <1>9, <1>10
     DEF CreateStep, WriteStep, LoginStep

LEMMA TypeStep == SessionTypeOK /\ [Next]_vars => SessionTypeOK'
<1> SUFFICES ASSUME SessionTypeOK, [Next]_vars PROVE SessionTypeOK'
  OBVIOUS
<1>1. CASE UNCHANGED vars
  BY <1>1 DEF vars, documents, requests, SessionTypeOK
<1>2. ASSUME NEW d \in Devices, AnswerLost(d) PROVE SessionTypeOK'
  BY <1>2 DEF AnswerLost, StreamGone, KeepScreen, SessionTypeOK, requests
<1> QED
  BY <1>1, <1>2, TypeOfUserSteps, TypeOfAnswers DEF Next

-----------------------------------------------------------------------------
(* The setData of a new account *)

\* The three things a step may do to what is pending, seen from any phone e and
\* account v: nothing new; Auth makes the account of u on d; its answer turns into
\* the queued setData.
NothingNew ==
    /\ accounts \subseteq accounts'
    /\ \A e \in Devices, v \in Users :
          /\ create'[e][v] = "made" => create[e][v] = "made"
          /\ write'[e][v] # "none" => write[e][v] # "none"
    /\ profiles' = profiles

LEMMA NothingNewKeeps == ASSUME CreatedOnce, NothingNew PROVE CreatedOnce'
<1>1. \A e \in Devices, v \in Users : Pending(e, v)' => Pending(e, v)
  BY DEF NothingNew, Pending
<1> QED
  BY <1>1 DEF NothingNew, CreatedOnce

\* Every step does nothing new, or is one of three.
LEMMA NothingNewOr ==
    ASSUME SessionTypeOK, [Next]_vars
    PROVE  \/ NothingNew
           \/ \E d \in Devices, u \in Users :
                 AuthCreates(d, u) \/ CreateAnswered(d, u) \/ ProfileStored(d, u)
<1>t. /\ create \in [Devices -> [Users -> {"idle", "sent", "made", "refused"}]]
      /\ write \in [Devices -> [Users -> {"none", "live", "restored"}]]
  BY DEF SessionTypeOK
<1> USE DEF documents, requests
<1>2. CASE UNCHANGED vars
  BY <1>2 DEF vars, NothingNew
<1>3. ASSUME NEW d \in Devices, AnswerLost(d) PROVE NothingNew
  BY <1>3 DEF AnswerLost, NothingNew
<1>6. ASSUME NEW d \in Devices, NEW u \in Users, FetchUserAnswered(d, u) PROVE NothingNew
  BY <1>6 DEF FetchUserAnswered, NothingNew
<1>4. ASSUME NEW d \in Devices, UserStep(d) PROVE NothingNew
  <2>1. CASE \/ OpenCreateAccount(d) \/ ShowLoginViewPressed(d) \/ DismissAlert(d)
            \/ SignOutAccount(d) \/ FetchBlogPosts(d)
    BY <2>1 DEF OpenCreateAccount, ShowLoginViewPressed, DismissAlert, SignOutAccount,
                FetchBlogPosts, NothingNew
  <2>2. CASE Launch(d)
    BY <1>t, <2>2 DEF Launch, NothingNew
  <2>3. ASSUME NEW u \in Users, NEW filled \in BOOLEAN,
               CreateAccountButtonPressed(d, u, filled) \/ LoginButtonPressed(d, u, filled)
        PROVE  NothingNew
    BY <1>t, <2>3 DEF CreateAccountButtonPressed, LoginButtonPressed, NothingNew
  <2> QED
    BY <1>4, <2>1, <2>2, <2>3 DEF UserStep
<1>5. ASSUME NEW d \in Devices, NEW u \in Users,
             \/ CreateFails(d, u) \/ CreateRefused(d, u)
             \/ ProfileAcknowledged(d, u) \/ ProfileRefused(d, u)
             \/ LoginStep(d, u) \/ NamingAnswered(d, u)
      PROVE  NothingNew
  <2>1. CASE CreateFails(d, u) \/ CreateRefused(d, u)
    <3>1. /\ accounts' = accounts /\ profiles' = profiles /\ write' = write
          /\ \/ create' = [create EXCEPT ![d][u] = "refused"]
             \/ create' = [create EXCEPT ![d][u] = "idle"]
      BY <2>1 DEF CreateFails, CreateRefused
    <3>2. \A e \in Devices, v \in Users : create'[e][v] = "made" => create[e][v] = "made"
      <4>1. CASE create' = [create EXCEPT ![d][u] = "refused"]
        BY <1>t, <4>1
      <4>2. CASE create' = [create EXCEPT ![d][u] = "idle"]
        BY <1>t, <4>2
      <4> QED
        BY <3>1, <4>1, <4>2
    <3> QED
      BY <3>1, <3>2 DEF NothingNew
  <2>2. CASE ProfileAcknowledged(d, u) \/ ProfileRefused(d, u)
    BY <1>t, <2>2 DEF ProfileAcknowledged, ProfileRefused, NothingNew
  <2>3. CASE LoginStep(d, u) \/ NamingAnswered(d, u)
    BY <2>3 DEF LoginStep, SignInAnswered, SignInRefused, NamingAnswered, NothingNew
  <2> QED
    BY <1>5, <2>1, <2>2, <2>3
<1> QED
  BY <1>2, <1>3, <1>4, <1>5, <1>6 DEF Next, CreateStep, WriteStep

LEMMA CreatedOnceStep ==
    ASSUME SessionTypeOK, CreatedOnce, [Next]_vars
    PROVE  CreatedOnce'
<1>t. /\ create \in [Devices -> [Users -> {"idle", "sent", "made", "refused"}]]
      /\ write \in [Devices -> [Users -> {"none", "live", "restored"}]]
  BY DEF SessionTypeOK
<1> USE DEF documents, requests
<1>1. CASE NothingNew
  BY <1>1, NothingNewKeeps
<1>6. ASSUME NEW d \in Devices, NEW u \in Users, AuthCreates(d, u) PROVE CreatedOnce'
  <2>1. \A e \in Devices : ~Pending(e, u)
    BY <1>6 DEF AuthCreates, CreatedOnce
  <2>2. u \notin profiles
    BY <1>6 DEF AuthCreates, CreatedOnce
  <2> QED
    BY <1>t, <1>6, <2>1, <2>2 DEF AuthCreates, Pending, CreatedOnce
<1>7. ASSUME NEW d \in Devices, NEW u \in Users, CreateAnswered(d, u) PROVE CreatedOnce'
  <2>1. /\ Pending(d, u)
        /\ \A e \in Devices, v \in Users : ~(e = d /\ v = u) => (Pending(e, v)' <=> Pending(e, v))
    BY <1>t, <1>7 DEF CreateAnswered, Pending
  <2>2. u \in accounts /\ \A e \in Devices \ {d} : ~Pending(e, u)
    BY <2>1 DEF CreatedOnce
  <2> QED
    BY <1>t, <1>7, <2>1, <2>2 DEF CreateAnswered, Pending, CreatedOnce
<1>8. ASSUME NEW d \in Devices, NEW u \in Users, ProfileStored(d, u) PROVE CreatedOnce'
  <2>1. /\ Pending(d, u) /\ create[d][u] # "made"
        /\ \A e \in Devices \ {d} : ~Pending(e, u)
    BY <1>8 DEF ProfileStored, Sends, Pending, CreatedOnce
  <2>2. \A e \in Devices : create[e][u] # "made"
    BY <2>1 DEF Pending
  <2>3. /\ profiles' = profiles \cup {u} /\ accounts' = accounts /\ u \in accounts
        /\ create' = create /\ write' = write
    BY <1>8, <2>1 DEF ProfileStored, CreatedOnce
  <2> QED
    BY <2>2, <2>3 DEF CreatedOnce, Pending
<1> QED
  BY <1>1, <1>6, <1>7, <1>8, NothingNewOr

-----------------------------------------------------------------------------
(* The theorems *)

LEMMA CreatedOnceInit == Init => CreatedOnce
  BY DEF Init, CreatedOnce, Pending

\* The types hold in every run, and with them that the job list's listener and its
\* pending fetchUser go away with the tab bar.
THEOREM SessionTypeCorrect == Spec => []SessionTypeOK
  BY TypeInit, TypeStep, PTL DEF Spec

\* The setData of a new account waits, from the answer of Auth on, on one phone only,
\* and as long as it is not queued its document is not stored.
THEOREM CreatedOnceCorrect == Spec => []CreatedOnce
  BY CreatedOnceInit, CreatedOnceStep, SessionTypeCorrect, PTL DEF Spec

\* A setData of a users document is queued once: AuthService calls createUser only in the
\* answer to a createUser of Auth, which takes an address once.  How often it is sent
\* is another matter: until its result is read, after every stream that is lost.
THEOREM ProfileWrittenOnceCorrect == Spec => ProfileWrittenOnce
<1> DEFINE QueuesOnce ==
        \A d \in Devices, u \in Users :
            write[d][u] = "none" /\ write'[d][u] # "none" =>
                u \notin profiles /\ \A e \in Devices : write[e][u] = "none"
<1>1. SessionTypeOK /\ CreatedOnce /\ [Next]_vars => [QueuesOnce]_vars
  <2> SUFFICES ASSUME SessionTypeOK, CreatedOnce, [Next]_vars PROVE QueuesOnce
    OBVIOUS
  <2>1. CASE NothingNew
    BY <2>1 DEF NothingNew
  <2>2. ASSUME NEW d \in Devices, NEW u \in Users, AuthCreates(d, u) \/ ProfileStored(d, u)
        PROVE  QueuesOnce
    BY <2>2 DEF AuthCreates, ProfileStored, requests
  <2>3. ASSUME NEW d \in Devices, NEW u \in Users, CreateAnswered(d, u) PROVE QueuesOnce
    <3>1. u \notin profiles /\ \A e \in Devices : write[e][u] = "none"
      BY <2>3 DEF CreateAnswered, CreatedOnce, Pending
    <3>2. \A e \in Devices, v \in Users : v # u => write'[e][v] = write[e][v]
      BY <2>3 DEF CreateAnswered, SessionTypeOK
    <3> QED
      BY <3>1, <3>2
  <2> QED
    BY <2>1, <2>2, <2>3, NothingNewOr
<1> QED
  BY <1>1, CreatedOnceCorrect, SessionTypeCorrect, PTL DEF Spec, ProfileWrittenOnce

-----------------------------------------------------------------------------
(* Who is let in *)

\* A result on its way tells of a document that is stored.
AnswersStored == \A d \in Devices : answer[d] => session[d] \in profiles

LEMMA WelcomedStep ==
    ASSUME SessionTypeOK, AnswersStored, WelcomedHaveProfile, [Next]_vars
    PROVE  AnswersStored' /\ WelcomedHaveProfile'
<1>t. /\ answer \in [Devices -> BOOLEAN]
      /\ session \in [Devices -> Users \cup {NoUser}]
  BY DEF SessionTypeOK
<1> USE DEF documents, requests
<1>1. ASSUME UNCHANGED <<profiles, welcomed>>,
             \/ UNCHANGED <<answer, session>>
             \/ \E d \in Devices : /\ answer' = StreamGone(d)
                                   /\ \/ session' = session
                                      \/ \E u \in Users \cup {NoUser} :
                                            session' = [session EXCEPT ![d] = u]
      PROVE  AnswersStored' /\ WelcomedHaveProfile'
  BY <1>t, <1>1 DEF AnswersStored, WelcomedHaveProfile, StreamGone
<1>2. CASE UNCHANGED vars
  BY <1>1, <1>2 DEF vars
<1>3. ASSUME NEW d \in Devices, UserStep(d) \/ AnswerLost(d)
      PROVE  AnswersStored' /\ WelcomedHaveProfile'
  <2>1. CASE \/ OpenCreateAccount(d) \/ ShowLoginViewPressed(d) \/ DismissAlert(d)
            \/ FetchBlogPosts(d) \/ AnswerLost(d) \/ Launch(d)
    BY <1>1, <2>1 DEF OpenCreateAccount, ShowLoginViewPressed, DismissAlert, FetchBlogPosts,
                AnswerLost, Launch
  <2>2. CASE SignOutAccount(d)
    BY <1>1, <2>2 DEF SignOutAccount
  <2>3. ASSUME NEW u \in Users, NEW filled \in BOOLEAN,
               CreateAccountButtonPressed(d, u, filled) \/ LoginButtonPressed(d, u, filled)
        PROVE  AnswersStored' /\ WelcomedHaveProfile'
    BY <1>1, <2>3 DEF CreateAccountButtonPressed, LoginButtonPressed
  <2> QED
    BY <1>3, <2>1, <2>2, <2>3 DEF UserStep
<1>4. ASSUME NEW d \in Devices, NEW u \in Users,
             \/ CreateStep(d, u) \/ LoginStep(d, u) \/ NamingAnswered(d, u)
             \/ ProfileRefused(d, u) \/ FetchUserAnswered(d, u)
      PROVE  AnswersStored' /\ WelcomedHaveProfile'
  BY <1>1, <1>4 DEF CreateStep, AuthCreates, CreateFails, CreateRefused, CreateAnswered,
                LoginStep, SignInAnswered, SignInRefused, NamingAnswered, ProfileRefused,
                FetchUserAnswered
<1>5. ASSUME NEW d \in Devices, NEW u \in Users, ProfileStored(d, u)
      PROVE  AnswersStored' /\ WelcomedHaveProfile'
  BY <1>t, <1>5 DEF ProfileStored, Sends, AnswersStored, WelcomedHaveProfile
<1>6. ASSUME NEW d \in Devices, NEW u \in Users, ProfileAcknowledged(d, u)
      PROVE  AnswersStored' /\ WelcomedHaveProfile'
  <2>1. u \in profiles /\ profiles' = profiles /\ welcomed' \subseteq welcomed \cup {u}
    BY <1>6 DEF ProfileAcknowledged, Sends, AnswersStored
  <2>2. answer' = StreamGone(d) /\ session' = session
    BY <1>6 DEF ProfileAcknowledged
  <2> QED
    BY <1>t, <2>1, <2>2 DEF AnswersStored, WelcomedHaveProfile, StreamGone
<1> QED
  BY <1>2, <1>3, <1>4, <1>5, <1>6 DEF Next, WriteStep

\* didCreateNewAccount lets nobody in whose users document is not in Firestore: the
\* result that it follows is of the write stream of the session that is still there.
THEOREM WelcomedCorrect == Spec => []WelcomedHaveProfile
<1>1. Init => AnswersStored /\ WelcomedHaveProfile
  BY DEF Init, AnswersStored, WelcomedHaveProfile
<1>2. SessionTypeOK /\ AnswersStored /\ WelcomedHaveProfile /\ [Next]_vars
        => (AnswersStored /\ WelcomedHaveProfile)'
  BY WelcomedStep
<1> QED
  BY <1>1, <1>2, SessionTypeCorrect, PTL DEF Spec

LEMMA TabsStep ==
    ASSUME SessionTypeOK, TabsNeedSession, [Next]_vars PROVE TabsNeedSession'
<1>t. /\ screen \in [Devices -> {"login", "create", "tabs", "crashed"}]
      /\ session \in [Devices -> Users \cup {NoUser}]
  BY DEF SessionTypeOK
<1>1. ASSUME NEW d \in Devices, NEW u \in Users,
             \/ screen' = screen \/ screen' = [screen EXCEPT ![d] = "tabs"],
             session' = [session EXCEPT ![d] = u]
      PROVE  TabsNeedSession'
  BY <1>t, <1>1, NoUserAssumption DEF TabsNeedSession
<1>2. ASSUME NEW d \in Devices, session' = session,
             \/ screen' = screen
             \/ screen' = [screen EXCEPT ![d] = "login"]
             \/ screen' = [screen EXCEPT ![d] = "create"]
             \/ screen' = [screen EXCEPT ![d] = "tabs"] /\ session[d] # NoUser
      PROVE  TabsNeedSession'
  BY <1>t, <1>2 DEF TabsNeedSession
<1>3. CASE UNCHANGED vars
  BY <1>3 DEF vars, TabsNeedSession
<1>4. ASSUME NEW d \in Devices, UserStep(d) PROVE TabsNeedSession'
  <2>1. CASE SignOutAccount(d)
    BY <1>t, <2>1 DEF SignOutAccount, TabsNeedSession
  <2>2. CASE Launch(d)
    BY <1>2, <2>2 DEF Launch, ShowTabs
  <2>3. CASE OpenCreateAccount(d) \/ ShowLoginViewPressed(d) \/ DismissAlert(d)
             \/ FetchBlogPosts(d)
    BY <1>2, <2>3 DEF OpenCreateAccount, ShowLoginViewPressed, DismissAlert, FetchBlogPosts
  <2>4. ASSUME NEW u \in Users, NEW filled \in BOOLEAN,
               CreateAccountButtonPressed(d, u, filled) \/ LoginButtonPressed(d, u, filled)
        PROVE  TabsNeedSession'
    BY <1>2, <2>4 DEF CreateAccountButtonPressed, LoginButtonPressed, KeepScreen
  <2> QED
    BY <1>4, <2>1, <2>2, <2>3, <2>4 DEF UserStep
<1>5. ASSUME NEW d \in Devices, AnswerLost(d) PROVE TabsNeedSession'
  BY <1>2, <1>5 DEF AnswerLost, KeepScreen
<1>9. ASSUME NEW d \in Devices, NEW u \in Users, FetchUserAnswered(d, u)
      PROVE  TabsNeedSession'
  BY <1>2, <1>9 DEF FetchUserAnswered, KeepScreen
<1>6. ASSUME NEW d \in Devices, NEW u \in Users,
             CreateAnswered(d, u) \/ SignInAnswered(d, u)
      PROVE  TabsNeedSession'
  BY <1>1, <1>6 DEF CreateAnswered, SignInAnswered, KeepScreen, ShowTabs
<1>7. ASSUME NEW d \in Devices, NEW u \in Users, ProfileAcknowledged(d, u)
      PROVE  TabsNeedSession'
  <2>1. session[d] # NoUser
    BY <1>7, NoUserAssumption DEF ProfileAcknowledged, Sends
  <2> QED
    BY <1>2, <1>7, <2>1 DEF ProfileAcknowledged, KeepScreen, ShowTabs
<1>8. ASSUME NEW d \in Devices, NEW u \in Users,
             \/ AuthCreates(d, u) \/ CreateFails(d, u) \/ CreateRefused(d, u)
             \/ ProfileStored(d, u) \/ ProfileRefused(d, u)
             \/ SignInRefused(d, u) \/ NamingAnswered(d, u)
      PROVE  TabsNeedSession'
  BY <1>2, <1>8 DEF AuthCreates, CreateFails, CreateRefused, ProfileStored, ProfileRefused,
                    SignInRefused, NamingAnswered, KeepScreen
<1> QED
  BY <1>3, <1>4, <1>5, <1>6, <1>7, <1>8, <1>9 DEF Next, CreateStep, WriteStep, LoginStep

\* Nobody sees the tab bar without being signed in, whatever answers come late.
THEOREM TabsCorrect == Spec => []TabsNeedSession
<1>1. Init => TabsNeedSession
  BY DEF Init, TabsNeedSession
<1> QED
  BY <1>1, TabsStep, SessionTypeCorrect, PTL DEF Spec
=============================================================================
