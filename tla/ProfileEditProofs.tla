------------------------- MODULE ProfileEditProofs -------------------------
(***************************************************************************)
(* Theorems about ProfileEdit, for any number of phones, users and saves.  *)
(* ProfileInv is inductive; what its steps share is that a press, once     *)
(* made, keeps its user and stays written.                                 *)
(***************************************************************************)
EXTENDS ProfileEdit, Naturals, TLAPS

SaveType == [Saves -> Save \cup {NoSave}]

SavesKept ==
    \A s \in Saves : save[s] # NoSave =>
        /\ save'[s] # NoSave
        /\ save'[s].user = save[s].user
        /\ save[s].stage = "written" => save'[s].stage = "written"

LEMMA SaveFields ==
    ASSUME NEW f \in SaveType, NEW s \in Saves, f[s] # NoSave
    PROVE  /\ f[s] \in Save
           /\ f[s].user \in Users
           /\ f[s].dev \in Devices
  BY DEF SaveType, Save

\* A press moves on to another stage.
LEMMA Advanced ==
    ASSUME NEW f \in SaveType, NEW s \in Saves, f[s] # NoSave,
           NEW v \in {"uploading", "stored", "written", "failed"}
    PROVE  /\ [f EXCEPT ![s].stage = v] \in SaveType
           /\ [f EXCEPT ![s].stage = v, ![s].live = FALSE] \in SaveType
  BY SaveFields, NobodyAssumption DEF SaveType, Save

LEMMA Ended ==
    ASSUME NEW r \in Save, NEW v \in {"uploading", "stored", "written", "failed"}
    PROVE  [r EXCEPT !.stage = v, !.live = FALSE] \in Save
  BY DEF Save

\* The saves of a phone whose editor has gone.
LEMMA OrphanedKept ==
    ASSUME save \in SaveType, NEW d \in Devices, save' = Orphaned(d)
    PROVE  /\ save' \in SaveType
           /\ SavesKept
           /\ \A s \in Saves : \A stages : InStage(s, stages)' <=> InStage(s, stages)
  BY SaveFields, NobodyAssumption DEF Orphaned, SaveType, Save, SavesKept, InStage

LEMMA AppendedType ==
    ASSUME NEW f \in [Devices -> [Sessions -> Seq(Saves)]], NEW d \in Devices,
           NEW u \in Sessions, NEW s \in Saves
    PROVE  /\ [f EXCEPT ![d][u] = Append(@, s)] \in [Devices -> [Sessions -> Seq(Saves)]]
           /\ \A e \in Devices, v \in Sessions :
                  \A i \in DOMAIN [f EXCEPT ![d][u] = Append(@, s)][e][v] :
                      \/ [f EXCEPT ![d][u] = Append(@, s)][e][v][i] = s
                      \/ /\ i \in DOMAIN f[e][v]
                         /\ [f EXCEPT ![d][u] = Append(@, s)][e][v][i] = f[e][v][i]
<1> DEFINE g == [f EXCEPT ![d][u] = Append(@, s)]
<1>1. Append(f[d][u], s) \in Seq(Saves)
  OBVIOUS
<1>2. g \in [Devices -> [Sessions -> Seq(Saves)]]
  BY <1>1
<1>3. ASSUME NEW e \in Devices, NEW v \in Sessions, NEW i \in DOMAIN g[e][v]
      PROVE  g[e][v][i] = s \/ (i \in DOMAIN f[e][v] /\ g[e][v][i] = f[e][v][i])
  <2>1. CASE e = d /\ v = u
    <3>1. g[e][v] = Append(f[e][v], s) /\ f[e][v] \in Seq(Saves)
      BY <2>1
    <3>2. i \in 1 .. Len(f[e][v]) + 1
      BY <3>1, <1>3
    <3>3. CASE i \in 1 .. Len(f[e][v])
      BY <3>1, <3>3
    <3>4. CASE i = Len(f[e][v]) + 1
      BY <3>1, <3>4
    <3> QED
      BY <3>2, <3>3, <3>4
  <2>2. CASE ~(e = d /\ v = u)
    <3>1. g[e][v] = f[e][v]
      BY <2>2
    <3> QED
      BY <3>1, <1>3
  <2> QED
    BY <2>1, <2>2
<1> QED
  BY <1>2, <1>3

LEMMA TailType ==
    ASSUME NEW f \in [Devices -> [Sessions -> Seq(Saves)]], NEW d \in Devices,
           NEW u \in Sessions, f[d][u] # << >>
    PROVE  /\ [f EXCEPT ![d][u] = Tail(@)] \in [Devices -> [Sessions -> Seq(Saves)]]
           /\ Head(f[d][u]) \in Saves
           /\ \E i \in DOMAIN f[d][u] : f[d][u][i] = Head(f[d][u])
           /\ \A e \in Devices, v \in Sessions :
                  \A i \in DOMAIN [f EXCEPT ![d][u] = Tail(@)][e][v] :
                      \E j \in DOMAIN f[e][v] : [f EXCEPT ![d][u] = Tail(@)][e][v][i] = f[e][v][j]
<1> DEFINE g == [f EXCEPT ![d][u] = Tail(@)]
<1>1. Tail(f[d][u]) \in Seq(Saves) /\ Head(f[d][u]) \in Saves
  OBVIOUS
<1>2. g \in [Devices -> [Sessions -> Seq(Saves)]]
  BY <1>1
<1>3. 1 \in DOMAIN f[d][u] /\ f[d][u][1] = Head(f[d][u])
  OBVIOUS
<1>4. ASSUME NEW e \in Devices, NEW v \in Sessions, NEW i \in DOMAIN g[e][v]
      PROVE  \E j \in DOMAIN f[e][v] : g[e][v][i] = f[e][v][j]
  <2>1. CASE e = d /\ v = u
    <3>1. g[e][v] = Tail(f[e][v]) /\ f[e][v] \in Seq(Saves) /\ f[e][v] # << >>
      BY <2>1
    <3> HIDE DEF g
    <3>2. i + 1 \in DOMAIN f[e][v] /\ g[e][v][i] = f[e][v][i + 1]
      BY <3>1, <1>4
    <3> QED
      BY <3>2
  <2>2. CASE ~(e = d /\ v = u)
    <3>1. g[e][v] = f[e][v]
      BY <2>2
    <3> QED
      BY <3>1, <1>4
  <2> QED
    BY <2>1, <2>2
<1> QED
  BY <1>1, <1>2, <1>3, <1>4

-----------------------------------------------------------------------------
LEMMA ProfileInit == Init => ProfileInv
<1> SUFFICES ASSUME Init PROVE ProfileInv
  OBVIOUS
<1>1. ProfileTypeOK
  BY DEF Init, ProfileTypeOK, Sessions
<1>2. Written
  BY NobodyAssumption DEF Init, Written, InStage, Sessions
<1>3. OwnProfile /\ PhotoStored
  BY DEF Init, OwnProfile, PhotoStored, By
<1> QED
  BY <1>1, <1>2, <1>3 DEF ProfileInv

\* The steps of the screens: Cancel orphans the saves, the others leave them alone.
LEMMA ScreenSteps ==
    ASSUME ProfileInv, NEW d \in Devices,
           \/ OwnerFetched(d) \/ WillEditProfile(d) \/ EditFields(d) \/ SaveIncomplete(d)
           \/ CancelButtonPressed(d) \/ SignOut(d) \/ (\E u \in Users : SignIn(d, u))
    PROVE  ProfileTypeOK' /\ SavesKept
           /\ (\A s \in Saves : \A stages : InStage(s, stages)' <=> InStage(s, stages))
           /\ UNCHANGED <<storeVars, naming, updates, smooth>>
<1> USE DEF ProfileInv
<1>1. CASE OwnerFetched(d) \/ WillEditProfile(d) \/ EditFields(d) \/ SaveIncomplete(d)
  <2>1. UNCHANGED <<save, storeVars, naming, updates, smooth>>
    BY <1>1 DEF OwnerFetched, WillEditProfile, EditFields, SaveIncomplete
  <2>2. SavesKept /\ \A s \in Saves : \A stages : InStage(s, stages)' <=> InStage(s, stages)
    BY <2>1 DEF SavesKept, InStage
  <2>3. CASE OwnerFetched(d)
    BY <2>1, <2>2, <2>3 DEF OwnerFetched, ProfileTypeOK, storeVars
  <2>4. CASE WillEditProfile(d)
    BY <2>1, <2>2, <2>4 DEF WillEditProfile, ProfileTypeOK, storeVars
  <2>5. CASE EditFields(d)
    BY <2>1, <2>2, <2>5 DEF EditFields, ProfileTypeOK, storeVars
  <2>6. CASE SaveIncomplete(d)
    BY <2>1, <2>2, <2>6 DEF SaveIncomplete, ProfileTypeOK, storeVars
  <2> QED
    BY <1>1, <2>3, <2>4, <2>5, <2>6
<1>2. CASE CancelButtonPressed(d)
  <2>1. save \in SaveType
    BY DEF ProfileTypeOK, SaveType
  <2> QED
    BY <1>2, <2>1, OrphanedKept DEF CancelButtonPressed, ProfileTypeOK, SaveType, storeVars
<1>3. CASE SignOut(d) \/ \E u \in Users : SignIn(d, u)
  <2>1. UNCHANGED <<save, storeVars, naming, updates, smooth>>
    BY <1>3 DEF SignOut, SignIn
  <2>2. SavesKept /\ \A s \in Saves : \A stages : InStage(s, stages)' <=> InStage(s, stages)
    BY <2>1 DEF SavesKept, InStage
  <2>3. CASE SignOut(d)
    BY <2>1, <2>2, <2>3 DEF SignOut, ProfileTypeOK, Sessions, storeVars
  <2>4. ASSUME NEW u \in Users, SignIn(d, u) PROVE ProfileTypeOK'
    <3>1. session' \in [Devices -> Sessions] /\ UNCHANGED <<owner, editor, complete, enabled>>
      BY <2>4 DEF SignIn, ProfileTypeOK, Sessions, screenVars
    <3>2. \A e \in Devices : session[e] # NoUser => session'[e] # NoUser
      BY <2>4, NobodyAssumption DEF SignIn, ProfileTypeOK
    <3> QED
      BY <3>1, <3>2, <2>1 DEF ProfileTypeOK, storeVars
  <2> QED
    BY <1>3, <2>1, <2>2, <2>3, <2>4
<1> QED
  BY <1>1, <1>2, <1>3

\* A step keeps the invariant when what it puts into a place comes from a press of
\* the user of that place, which for the profiles is one that is written.
LEMMA StepKeeps ==
    ASSUME ProfileInv, ProfileTypeOK', SavesKept,
           \A u \in Users : photo'[u] # photo[u] =>
               photo'[u] \in Saves /\ save[photo'[u]] # NoSave /\ save[photo'[u]].user = u,
           \A u \in Users : auth'[u] # auth[u] =>
               auth'[u] \in Saves /\ InStage(auth'[u], {"written"}) /\ save[auth'[u]].user = u,
           \A u \in Users : users'[u] # users[u] =>
               users'[u] \in Saves /\ InStage(users'[u], {"written"}) /\ save[users'[u]].user = u,
           Written'
    PROVE  ProfileInv'
<1>1. \A u \in Users : photo[u] # NoSave => photo'[u] # NoSave
  BY NobodyAssumption DEF ProfileInv, ProfileTypeOK
<1>2. PhotoStored'
  <2>1. ASSUME NEW u \in Users, users'[u] # NoSave \/ auth'[u] # NoSave
        PROVE  photo[u] # NoSave
    <3>1. CASE (users'[u] = users[u] /\ users[u] # NoSave) \/ (auth'[u] = auth[u] /\ auth[u] # NoSave)
      BY <3>1 DEF ProfileInv, PhotoStored
    <3>2. ASSUME NEW s \in Saves, InStage(s, {"written"}), save[s].user = u
          PROVE  photo[u] # NoSave
      BY <3>2 DEF ProfileInv, Written, InStage
    <3> QED
      BY <2>1, <3>1, <3>2
  <2> QED
    BY <1>1, <2>1 DEF PhotoStored
<1>3. OwnProfile'
  <2>1. ASSUME NEW u \in Users, NEW p \in Saves \cup {NoSave}, By(p, u)
        PROVE  p # NoSave => save'[p] # NoSave /\ save'[p].user = u
    BY <2>1 DEF By, SavesKept
  <2>2. ASSUME NEW u \in Users
        PROVE  By(photo[u], u)' /\ By(auth[u], u)' /\ By(users[u], u)'
    <3>1. By(photo[u], u) /\ By(auth[u], u) /\ By(users[u], u)
      BY DEF ProfileInv, OwnProfile
    <3>2. By(photo'[u], u) /\ By(auth'[u], u) /\ By(users'[u], u)
      BY <3>1 DEF By, InStage
    <3>3. /\ photo'[u] \in Saves \cup {NoSave}
          /\ auth'[u] \in Saves \cup {NoSave}
          /\ users'[u] \in Saves \cup {NoSave}
      BY DEF ProfileTypeOK
    <3> QED
      BY <2>1, <3>2, <3>3 DEF By
  <2> QED
    BY <2>2 DEF OwnProfile
<1> QED
  BY <1>2, <1>3 DEF ProfileInv

\* Written when no save advances, none is sent and no photo goes.
LEMMA WrittenKept ==
    ASSUME ProfileInv, ProfileTypeOK', SavesKept,
           \A s \in Saves : InStage(s, {"stored", "written"})' =>
               InStage(s, {"stored", "written"}) \/ photo'[save'[s].user] # NoSave,
           \A u \in Users : photo[u] # NoSave => photo'[u] # NoSave,
           naming' \subseteq naming,
           \A d \in Devices, u \in Sessions : \A i \in DOMAIN updates'[d][u] :
               \E j \in DOMAIN updates[d][u] : updates'[d][u][i] = updates[d][u][j]
    PROVE  Written'
<1>1. ASSUME NEW s \in Saves, InStage(s, {"written"}) PROVE InStage(s, {"written"})'
  BY <1>1 DEF InStage, SavesKept
<1>2. \A s \in naming' : InStage(s, {"written"})'
  BY <1>1 DEF ProfileInv, Written, ProfileTypeOK
<1>3. ASSUME NEW d \in Devices, NEW u \in Sessions, NEW i \in DOMAIN updates'[d][u]
      PROVE  InStage(updates[d][u][i], {"written"})'
  <2>1. PICK j \in DOMAIN updates[d][u] : updates'[d][u][i] = updates[d][u][j]
    OBVIOUS
  <2>2. updates[d][u] \in Seq(Saves)
    BY DEF ProfileInv, ProfileTypeOK
  <2>3. updates[d][u][j] \in Saves /\ InStage(updates[d][u][j], {"written"})
    BY <2>2 DEF ProfileInv, Written
  <2>4. PICK s \in Saves : s = updates[d][u][j] /\ InStage(s, {"written"})
    BY <2>3
  <2>5. InStage(s, {"written"})'
    BY <1>1, <2>4
  <2> QED
    BY <2>1, <2>4, <2>5 DEF InStage
<1>4. \A s \in Saves : InStage(s, {"stored", "written"})' => photo'[save'[s].user] # NoSave
  <2>1. ASSUME NEW s \in Saves, InStage(s, {"stored", "written"})
        PROVE  photo'[save'[s].user] # NoSave
    <3>1. save[s] # NoSave /\ save'[s].user = save[s].user
      BY <2>1 DEF InStage, SavesKept
    <3>2. save \in SaveType
      BY DEF ProfileInv, ProfileTypeOK, SaveType
    <3>3. save[s].user \in Users
      BY <3>1, <3>2, SaveFields
    <3>4. photo[save[s].user] # NoSave
      BY <2>1 DEF ProfileInv, Written
    <3> QED
      BY <3>1, <3>3, <3>4
  <2> QED
    BY <2>1
<1> QED
  <2>1. \A d \in Devices, u \in Sessions : \A i \in DOMAIN updates'[d][u] :
            InStage(updates[d][u][i], {"written"})'
    BY <1>3
  <2> QED
    BY <1>2, <1>4, <2>1 DEF Written
LEMMA StoresUnchanged ==
    ASSUME ProfileInv, ProfileTypeOK', SavesKept,
           \A s \in Saves : \A stages : InStage(s, stages)' <=> InStage(s, stages),
           UNCHANGED <<storeVars, naming, updates>>
    PROVE  ProfileInv'
<1>1. UNCHANGED <<photo, auth, users, naming, updates>>
  BY DEF storeVars
<1>2. Written'
  BY <1>1, WrittenKept
<1> QED
  BY <1>1, <1>2, StepKeeps

-----------------------------------------------------------------------------
(* The steps of a save *)

LEMMA PressKeeps ==
    ASSUME ProfileInv, NEW d \in Devices, NEW s \in Saves, SaveButtonPressed(d, s)
    PROVE  ProfileInv'
<1>1. ProfileTypeOK'
  BY DEF SaveButtonPressed, ProfileInv, ProfileTypeOK, Save, Sessions, storeVars
<1>2. SavesKept
  BY DEF SaveButtonPressed, ProfileInv, ProfileTypeOK, SavesKept
<1>3. UNCHANGED <<photo, auth, users, naming, updates>>
  BY DEF SaveButtonPressed, storeVars
<1>4. \A r \in Saves : InStage(r, {"stored", "written"})' => InStage(r, {"stored", "written"})
  BY DEF SaveButtonPressed, ProfileInv, ProfileTypeOK, InStage
<1>5. Written'
  BY <1>1, <1>2, <1>3, <1>4, WrittenKept
<1> QED
  BY <1>1, <1>2, <1>3, <1>5, StepKeeps

LEMMA ImageStoredKeeps ==
    ASSUME ProfileInv, NEW s \in Saves, ImageStored(s)
    PROVE  ProfileInv'
<1>1. save \in SaveType /\ save[s] # NoSave /\ save[s].user \in Users
  BY SaveFields DEF ImageStored, InStage, ProfileInv, ProfileTypeOK, SaveType
<1>2. save' \in SaveType
  BY <1>1, Advanced DEF ImageStored
<1>3. ProfileTypeOK'
  BY <1>1, <1>2 DEF ImageStored, ProfileInv, ProfileTypeOK, SaveType, screenVars, Target
<1>4. SavesKept
  BY <1>1, <1>2, SaveFields, NobodyAssumption DEF ImageStored, SavesKept, SaveType, Save, InStage
<1>5. UNCHANGED <<auth, users, naming, updates>>
  BY DEF ImageStored
<1>6. \A u \in Users : photo'[u] # photo[u] => photo'[u] = s /\ u = save[s].user
  BY <1>1 DEF ImageStored, ProfileInv, ProfileTypeOK, Target
<1>7. \A u \in Users : photo[u] # NoSave => photo'[u] # NoSave
  BY <1>6, NobodyAssumption
<1>8. \A r \in Saves : InStage(r, {"stored", "written"})' =>
          InStage(r, {"stored", "written"}) \/ photo'[save'[r].user] # NoSave
  <2>1. photo'[save'[s].user] # NoSave
    BY <1>1, NobodyAssumption DEF ImageStored, Target, ProfileInv, ProfileTypeOK, SaveType
  <2>2. \A r \in Saves \ {s} : save'[r] = save[r]
    BY <1>1 DEF ImageStored, SaveType
  <2> QED
    BY <2>1, <2>2 DEF InStage
<1>9. Written'
  BY <1>3, <1>4, <1>5, <1>7, <1>8, WrittenKept
<1> QED
  BY <1>1, <1>3, <1>4, <1>5, <1>6, <1>9, StepKeeps

LEMMA UploadFailedKeeps ==
    ASSUME ProfileInv, NEW s \in Saves, UploadFailed(s)
    PROVE  ProfileInv'
<1>1. save \in SaveType /\ save[s] # NoSave /\ save[s].user \in Users
  BY SaveFields DEF UploadFailed, InStage, ProfileInv, ProfileTypeOK, SaveType
<1>2. save' \in SaveType
  BY <1>1, Advanced DEF UploadFailed
<1>3. ProfileTypeOK'
  <2>1. photo' \in [Users -> Saves \cup {NoSave}] /\ smooth' \subseteq Users
    BY <1>1 DEF UploadFailed, ProfileInv, ProfileTypeOK, Target
  <2> QED
    BY <1>2, <2>1 DEF UploadFailed, ProfileInv, ProfileTypeOK, SaveType, screenVars
<1>4. SavesKept
  BY <1>1, <1>2, SaveFields, NobodyAssumption DEF UploadFailed, SavesKept, SaveType, Save, InStage
<1>5. UNCHANGED <<auth, users, naming, updates>>
  BY DEF UploadFailed
<1>6. \A u \in Users : photo'[u] # photo[u] => photo'[u] = s /\ u = save[s].user
  BY <1>1 DEF UploadFailed, ProfileInv, ProfileTypeOK, Target
<1>7. \A u \in Users : photo[u] # NoSave => photo'[u] # NoSave
  BY <1>6, NobodyAssumption
<1>8. \A r \in Saves : InStage(r, {"stored", "written"})' => InStage(r, {"stored", "written"})
  BY <1>1 DEF UploadFailed, InStage, SaveType, Save
<1>9. Written'
  BY <1>3, <1>4, <1>5, <1>7, <1>8, WrittenKept
<1> QED
  BY <1>1, <1>3, <1>4, <1>5, <1>6, <1>9, StepKeeps

LEMMA DownloadURLKeeps ==
    ASSUME ProfileInv, NEW s \in Saves, DownloadURLAnswered(s)
    PROVE  ProfileInv'
<1> DEFINE d == save[s].dev
<1>1. save \in SaveType /\ save[s] # NoSave /\ save[s].user \in Users /\ d \in Devices
  BY SaveFields DEF DownloadURLAnswered, InStage, ProfileInv, ProfileTypeOK, SaveType
<1>2. save' \in SaveType
  BY <1>1, Advanced DEF DownloadURLAnswered
<1>3. updates' = [updates EXCEPT ![d][session[d]] = Append(@, s)]
  BY DEF DownloadURLAnswered
<1>4. session[d] \in Sessions /\ updates \in [Devices -> [Sessions -> Seq(Saves)]]
  BY <1>1 DEF ProfileInv, ProfileTypeOK
<1>5. /\ updates' \in [Devices -> [Sessions -> Seq(Saves)]]
      /\ \A e \in Devices, v \in Sessions : \A i \in DOMAIN updates'[e][v] :
             updates'[e][v][i] = s \/ (i \in DOMAIN updates[e][v] /\ updates'[e][v][i] = updates[e][v][i])
  BY <1>1, <1>3, <1>4, AppendedType
<1>6. ProfileTypeOK'
  <2>1. /\ editor' \in [Devices -> {"closed", "open", "crashed"}]
        /\ enabled' \in [Devices -> BOOLEAN]
        /\ \A e \in Devices : editor'[e] = "open" => editor[e] = "open"
    BY <1>1 DEF DownloadURLAnswered, ProfileInv, ProfileTypeOK
  <2>2. naming' \subseteq Saves /\ UNCHANGED <<session, owner, complete, photo, auth, users, smooth>>
    BY DEF DownloadURLAnswered, ProfileInv, ProfileTypeOK, storeVars
  <2> QED
    BY <1>2, <1>5, <2>1, <2>2 DEF ProfileInv, ProfileTypeOK, SaveType
<1>7. SavesKept /\ InStage(s, {"written"})'
  <2>1. \A r \in Saves \ {s} : save'[r] = save[r]
    BY <1>1 DEF DownloadURLAnswered, SaveType
  <2>2. save'[s] = [save[s] EXCEPT !.stage = "written", !.live = FALSE]
    BY <1>1 DEF DownloadURLAnswered, SaveType
  <2>3. save'[s].stage = "written" /\ save'[s].user = save[s].user
    BY <1>1, <2>2, SaveFields DEF Save
  <2>4. save'[s] # NoSave
    BY <1>1, <2>2, SaveFields, Ended, NobodyAssumption
  <2> QED
    BY <2>1, <2>3, <2>4 DEF SavesKept, InStage
<1>8. UNCHANGED <<photo, auth, users>> /\ naming' = naming \cup {s}
  BY DEF DownloadURLAnswered, storeVars
<1>9. ASSUME NEW r \in Saves, InStage(r, {"written"}) PROVE InStage(r, {"written"})'
  BY <1>7, <1>9 DEF InStage, SavesKept
<1>10. Written'
  <2>1. \A r \in naming' : InStage(r, {"written"})'
    BY <1>7, <1>8, <1>9 DEF ProfileInv, Written, ProfileTypeOK
  <2>2. ASSUME NEW e \in Devices, NEW v \in Sessions, NEW i \in DOMAIN updates'[e][v]
        PROVE  InStage(updates[e][v][i], {"written"})'
    <3>1. updates'[e][v][i] \in Saves
      BY <1>5
    <3>2. PICK r \in Saves : r = updates'[e][v][i]
      BY <3>1
    <3>3. r = s \/ InStage(r, {"written"})
      BY <1>5, <3>2 DEF ProfileInv, Written
    <3>4. InStage(r, {"written"})'
      BY <1>7, <1>9, <3>3
    <3> QED
      BY <3>2, <3>4 DEF InStage
  <2>3. \A r \in Saves : InStage(r, {"stored", "written"})' => photo'[save'[r].user] # NoSave
    <3>1. photo[save[s].user] # NoSave /\ save'[s].user = save[s].user
      BY <1>1, <1>7 DEF DownloadURLAnswered, InStage, ProfileInv, Written, SavesKept
    <3>2. \A r \in Saves \ {s} : save'[r] = save[r]
      BY <1>1 DEF DownloadURLAnswered, SaveType
    <3> QED
      BY <1>8, <3>1, <3>2 DEF ProfileInv, Written, InStage
  <2> QED
    BY <2>1, <2>2, <2>3 DEF Written
<1> QED
  BY <1>6, <1>7, <1>8, <1>10, StepKeeps

LEMMA NamingKeeps ==
    ASSUME ProfileInv, NEW s \in Saves, NamingAnswered(s)
    PROVE  ProfileInv'
<1>1. InStage(s, {"written"}) /\ save[s].user \in Users
  <2>1. save \in SaveType
    BY DEF ProfileInv, ProfileTypeOK, SaveType
  <2> QED
    BY <2>1, SaveFields DEF NamingAnswered, ProfileInv, Written, InStage
<1>2. UNCHANGED <<save, photo, users, updates>> /\ naming' \subseteq naming
  BY DEF NamingAnswered
<1>3. ProfileTypeOK'
  <2>1. auth' \in [Users -> Saves \cup {NoSave}] /\ smooth' \subseteq Users
    BY <1>1 DEF NamingAnswered, ProfileInv, ProfileTypeOK, Target
  <2> QED
    BY <1>2, <2>1 DEF NamingAnswered, ProfileInv, ProfileTypeOK, screenVars
<1>4. SavesKept
  BY <1>2 DEF SavesKept
<1>5. \A u \in Users : auth'[u] # auth[u] => auth'[u] = s /\ u = save[s].user
  BY <1>1 DEF NamingAnswered, ProfileInv, ProfileTypeOK, Target
<1>6. \A r \in Saves : InStage(r, {"stored", "written"})' => InStage(r, {"stored", "written"})
  BY <1>2 DEF InStage
<1>7. Written'
  BY <1>2, <1>3, <1>4, <1>6, WrittenKept
<1> QED
  BY <1>1, <1>2, <1>3, <1>4, <1>5, <1>7, StepKeeps

LEMMA UpdateKeeps ==
    ASSUME ProfileInv, NEW d \in Devices, UpdateAnswered(d)
    PROVE  ProfileInv'
<1>1. PICK u \in Sessions : u = session[d]
  BY DEF ProfileInv, ProfileTypeOK
<1>2. updates \in [Devices -> [Sessions -> Seq(Saves)]] /\ updates[d][u] # << >>
  BY <1>1 DEF UpdateAnswered, ProfileInv, ProfileTypeOK
<1>3. PICK s \in Saves : s = Head(updates[d][u]) /\ InStage(s, {"written"})
  <2>1. Head(updates[d][u]) \in Saves /\ \E i \in DOMAIN updates[d][u] : updates[d][u][i] = Head(updates[d][u])
    BY <1>2, TailType
  <2> QED
    BY <2>1 DEF ProfileInv, Written
<1>4. updates' = [updates EXCEPT ![d][u] = Tail(@)]
  BY <1>1 DEF UpdateAnswered
<1>5. /\ updates' \in [Devices -> [Sessions -> Seq(Saves)]]
      /\ \A e \in Devices, v \in Sessions : \A i \in DOMAIN updates'[e][v] :
             \E j \in DOMAIN updates[e][v] : updates'[e][v][i] = updates[e][v][j]
  BY <1>2, <1>4, TailType
<1>6. save[s].user \in Users
  <2>1. save \in SaveType
    BY DEF ProfileInv, ProfileTypeOK, SaveType
  <2> QED
    BY <1>3, <2>1, SaveFields DEF InStage
<1>7. /\ UNCHANGED <<session, screenVars, save, photo, auth, naming>>
      /\ users' = [users EXCEPT ![save[s].user] = s] \/ users' = users
      /\ smooth' \subseteq smooth
  BY <1>1, <1>3 DEF UpdateAnswered, Target
<1>8. ProfileTypeOK'
  <2>1. users' \in [Users -> Saves \cup {NoSave}] /\ smooth' \subseteq Users
    BY <1>6, <1>7 DEF ProfileInv, ProfileTypeOK
  <2> QED
    BY <1>5, <1>7, <2>1 DEF ProfileInv, ProfileTypeOK, screenVars
<1>9. SavesKept
  BY <1>7 DEF SavesKept
<1>10. \A v \in Users : users'[v] # users[v] => users'[v] = s /\ v = save[s].user
  BY <1>6, <1>7 DEF ProfileInv, ProfileTypeOK
<1>11. \A r \in Saves : InStage(r, {"stored", "written"})' => InStage(r, {"stored", "written"})
  BY <1>7 DEF InStage
<1>12. Written'
  BY <1>5, <1>7, <1>8, <1>9, <1>11, WrittenKept
<1> QED
  BY <1>3, <1>7, <1>8, <1>9, <1>10, <1>12, StepKeeps

LEMMA RestartKeeps ==
    ASSUME ProfileInv, NEW d \in Devices, Restart(d)
    PROVE  ProfileInv'
<1>1. save \in SaveType
  BY DEF ProfileInv, ProfileTypeOK, SaveType
<1>2. /\ Orphaned(d) \in SaveType
      /\ \A s \in Saves : /\ Orphaned(d)[s] = NoSave <=> save[s] = NoSave
                          /\ save[s] # NoSave => /\ Orphaned(d)[s].user = save[s].user
                                                  /\ Orphaned(d)[s].stage = save[s].stage
  <2>1. ASSUME NEW r \in Save
        PROVE  /\ [r EXCEPT !.live = FALSE] \in Save
               /\ [r EXCEPT !.live = FALSE].user = r.user
               /\ [r EXCEPT !.live = FALSE].stage = r.stage
    BY DEF Save
  <2> QED
    BY <1>1, <2>1, NobodyAssumption DEF Orphaned, SaveType
<1>3. \A s \in Saves :
          \/ /\ InStage(s, {"uploading", "stored"})
             /\ save'[s] = [save[s] EXCEPT !.stage = "failed", !.live = FALSE]
          \/ save'[s] = Orphaned(d)[s]
  BY DEF Restart
<1>4. save' \in SaveType
  <2>1. \A s \in Saves : save'[s] \in Save \cup {NoSave}
    BY <1>1, <1>2, <1>3, SaveFields, Ended DEF InStage, SaveType
  <2>2. save' = [s \in Saves |-> save'[s]]
    BY DEF Restart
  <2> QED
    BY <2>1, <2>2 DEF SaveType
<1>5. SavesKept
  <2>1. ASSUME NEW s \in Saves, InStage(s, {"uploading", "stored"}),
               save'[s] = [save[s] EXCEPT !.stage = "failed", !.live = FALSE]
        PROVE  save'[s] # NoSave /\ save'[s].user = save[s].user /\ save[s].stage # "written"
    <3>1. save[s] \in Save
      BY <1>1, <2>1, SaveFields DEF InStage
    <3>2. save'[s] \in Save
      BY <2>1, <3>1, Ended
    <3> QED
      BY <2>1, <3>1, <3>2, NobodyAssumption DEF Save, InStage
  <2> QED
    BY <1>2, <1>3, <2>1 DEF SavesKept
<1>6. \A s \in Saves : InStage(s, {"stored", "written"})' => InStage(s, {"stored", "written"})
  <2>1. ASSUME NEW s \in Saves, InStage(s, {"uploading", "stored"}),
               save'[s] = [save[s] EXCEPT !.stage = "failed", !.live = FALSE]
        PROVE  save'[s].stage = "failed"
    BY <1>1, <2>1, SaveFields DEF InStage, Save
  <2> QED
    BY <1>2, <1>3, <2>1 DEF InStage
<1>7. /\ UNCHANGED <<session, complete, enabled, photo, users, updates>>
      /\ naming' \subseteq naming
      /\ \/ UNCHANGED auth
         \/ \E s \in naming : auth' = [auth EXCEPT ![save[s].user] = s]
  BY DEF Restart, Target
<1>8. \A s \in naming : s \in Saves /\ InStage(s, {"written"}) /\ save[s].user \in Users
  BY <1>1, SaveFields DEF ProfileInv, ProfileTypeOK, Written, InStage
<1>9. ProfileTypeOK'
  <2>1. auth' \in [Users -> Saves \cup {NoSave}]
    BY <1>7, <1>8 DEF ProfileInv, ProfileTypeOK
  <2>2. /\ owner' \in [Devices -> BOOLEAN]
        /\ editor' \in [Devices -> {"closed", "open", "crashed"}]
        /\ \A e \in Devices : editor'[e] = "open" => editor[e] = "open" /\ owner'[e] = owner[e]
    BY DEF Restart, ProfileInv, ProfileTypeOK
  <2>3. smooth' \subseteq Users
    BY DEF Restart, ProfileInv, ProfileTypeOK
  <2> QED
    BY <1>4, <1>7, <2>1, <2>2, <2>3 DEF ProfileInv, ProfileTypeOK, SaveType
<1>10. \A u \in Users : auth'[u] # auth[u] =>
           auth'[u] \in Saves /\ InStage(auth'[u], {"written"}) /\ save[auth'[u]].user = u
  BY <1>7, <1>8 DEF ProfileInv, ProfileTypeOK
<1>11. Written'
  BY <1>5, <1>6, <1>7, <1>9, WrittenKept
<1> QED
  BY <1>5, <1>7, <1>9, <1>10, <1>11, StepKeeps

-----------------------------------------------------------------------------
LEMMA ProfileStep == ProfileInv /\ [Next]_vars => ProfileInv'
<1> SUFFICES ASSUME ProfileInv, [Next]_vars PROVE ProfileInv'
  OBVIOUS
<1>1. CASE UNCHANGED vars
  <2>1. UNCHANGED <<session, screenVars, save, storeVars, naming, updates, smooth>>
    BY <1>1 DEF vars
  <2>2. ProfileTypeOK'
    BY <2>1 DEF ProfileInv, ProfileTypeOK, screenVars, storeVars
  <2>3. SavesKept /\ \A s \in Saves : \A stages : InStage(s, stages)' <=> InStage(s, stages)
    BY <2>1 DEF SavesKept, InStage
  <2> QED
    BY <2>1, <2>2, <2>3, StoresUnchanged
<1>2. ASSUME NEW d \in Devices, DeviceStep(d) PROVE ProfileInv'
  <2>1. CASE \/ OwnerFetched(d) \/ WillEditProfile(d) \/ EditFields(d) \/ SaveIncomplete(d)
             \/ CancelButtonPressed(d) \/ SignOut(d) \/ (\E u \in Users : SignIn(d, u))
    BY <2>1, ScreenSteps, StoresUnchanged
  <2> QED
    BY <1>2, <2>1, PressKeeps, UpdateKeeps, RestartKeeps DEF DeviceStep
<1>3. ASSUME NEW s \in Saves, SaveStep(s) PROVE ProfileInv'
  BY <1>3, ImageStoredKeeps, UploadFailedKeeps, DownloadURLKeeps, NamingKeeps DEF SaveStep
<1> QED
  BY <1>1, <1>2, <1>3 DEF Next

\* The inductive invariant of the profile editor holds in every run.
THEOREM ProfileInvariant == Spec => []ProfileInv
<1>1. ProfileInv /\ [Next]_vars => ProfileInv'
  BY ProfileStep
<1> QED
  BY <1>1, ProfileInit, PTL DEF Spec

\* The types of all variables (EditOwnerProfileTableViewController and what it writes).
THEOREM ProfileTypeCorrect == Spec => []ProfileTypeOK
<1>1. ProfileInv => ProfileTypeOK
  BY DEF ProfileInv
<1> QED
  BY <1>1, ProfileInvariant, PTL

\* saveButtonPressed: no value entered by one user reaches a profile of another.
THEOREM OwnProfileCorrect == Spec => []OwnProfile
<1>1. ProfileInv => OwnProfile
  BY DEF ProfileInv
<1> QED
  BY <1>1, ProfileInvariant, PTL

\* saveButtonPressed: a profile that links to a photo has one in Storage.
THEOREM PhotoStoredCorrect == Spec => []PhotoStored
<1>1. ProfileInv => PhotoStored
  BY DEF ProfileInv
<1> QED
  BY <1>1, ProfileInvariant, PTL
-----------------------------------------------------------------------------
(* What SavesAgree rests on: a smooth user has at most one save on its way, and the   *)
(* three places hold what it has reached so far.                                      *)
Of(s, u) == save[s] # NoSave /\ save[s].user = u

OnItsWay(s, u) == Of(s, u) /\ (InStage(s, {"uploading", "stored"}) \/ s \in naming \/ Queued(s))

Agree(u) == photo[u] = users[u] /\ auth[u] = users[u]

Reached(s, u) ==
    /\ InStage(s, {"uploading"}) => Agree(u)
    /\ InStage(s, {"stored"}) => photo[u] = s /\ auth[u] = users[u]
    /\ InStage(s, {"written"}) => /\ photo[u] = s
                                  /\ s \in naming \/ auth[u] = s
                                  /\ Queued(s) \/ users[u] = s

UserInStep(u) ==
    /\ \A s, t \in Saves : OnItsWay(s, u) /\ OnItsWay(t, u) => s = t
    /\ \A s \in Saves : OnItsWay(s, u) => Reached(s, u)
    /\ (\A s \in Saves : ~OnItsWay(s, u)) => Agree(u)

InStep == \A u \in smooth : UserInStep(u)

\* What a step of one user's save does to another user: nothing.
Undisturbed(u) ==
    /\ photo'[u] = photo[u] /\ auth'[u] = auth[u] /\ users'[u] = users[u]
    /\ \A s \in Saves :
           \/ ~Of(s, u) /\ ~Of(s, u)'
           \/ /\ Of(s, u) /\ Of(s, u)'
              /\ save'[s].stage = save[s].stage
              /\ s \in naming' <=> s \in naming
              /\ Queued(s)' <=> Queued(s)

LEMMA UndisturbedKept ==
    ASSUME NEW u \in Users, UserInStep(u), Undisturbed(u)
    PROVE  UserInStep(u)'
<1>1. ASSUME NEW s \in Saves PROVE OnItsWay(s, u)' <=> OnItsWay(s, u)
  BY DEF Undisturbed, OnItsWay, InStage, Of
<1>2. ASSUME NEW s \in Saves, OnItsWay(s, u), Reached(s, u) PROVE Reached(s, u)'
  BY <1>2 DEF Undisturbed, OnItsWay, Reached, InStage, Of, Agree
<1>3. Agree(u)' <=> Agree(u)
  BY DEF Undisturbed, Agree
<1> QED
  BY <1>1, <1>2, <1>3 DEF UserInStep

\* The one save of a smooth user takes a step.
LEMMA OneSaveMoves ==
    ASSUME NEW u \in Users, UserInStep(u), NEW s \in Saves, OnItsWay(s, u),
           \A t \in Saves \ {s} : OnItsWay(t, u)' => OnItsWay(t, u),
           OnItsWay(s, u)' => Reached(s, u)',
           ~OnItsWay(s, u)' => Agree(u)'
    PROVE  UserInStep(u)'
<1>1. \A t \in Saves : OnItsWay(t, u)' => t = s
  BY DEF UserInStep
<1> QED
  BY <1>1 DEF UserInStep

\* The saves of other users than that of s are not disturbed by a step of s.
LEMMA OthersUndisturbed ==
    ASSUME NEW s \in Saves, NEW u \in Users, ~Of(s, u), ~Of(s, u)',
           photo'[u] = photo[u], auth'[u] = auth[u], users'[u] = users[u],
           \A t \in Saves \ {s} : /\ save'[t] = save[t]
                                  /\ t \in naming' <=> t \in naming
                                  /\ Queued(t)' <=> Queued(t)
    PROVE  Undisturbed(u)
<1>1. ASSUME NEW t \in Saves \ {s}
      PROVE  /\ Of(t, u)' <=> Of(t, u)
             /\ save'[t].stage = save[t].stage
             /\ t \in naming' <=> t \in naming
             /\ Queued(t)' <=> Queued(t)
  BY DEF Of
<1> QED
  BY <1>1 DEF Undisturbed

LEMMA QueuedSame == UNCHANGED updates => \A s \in Saves : Queued(s)' <=> Queued(s)
  BY DEF Queued

LEMMA InStepInit == Init => InStep
<1> SUFFICES ASSUME Init, NEW u \in Users PROVE UserInStep(u)
  BY DEF InStep, Init
<1>1. \A s \in Saves : ~OnItsWay(s, u)
  BY DEF Init, OnItsWay, Of
<1>2. Agree(u)
  BY DEF Init, Agree
<1> QED
  BY <1>1, <1>2 DEF UserInStep

LEMMA ScreensInStep ==
    ASSUME ProfileInv, InStep, SavesKept,
           \A s \in Saves : \A stages : InStage(s, stages)' <=> InStage(s, stages),
           UNCHANGED <<storeVars, naming, updates, smooth>>,
           \A s \in Saves : save[s] = NoSave => save'[s] = NoSave
    PROVE  InStep'
<1> SUFFICES ASSUME NEW u \in smooth PROVE UserInStep(u)'
  BY DEF InStep
<1>1. u \in Users /\ UserInStep(u)
  BY DEF ProfileInv, ProfileTypeOK, InStep
<1>2. ASSUME NEW s \in Saves, Of(s, u)
      PROVE  Of(s, u)' /\ save'[s].stage = save[s].stage
  <2>1. InStage(s, {save[s].stage})
    BY <1>2 DEF Of, InStage
  <2> QED
    BY <1>2, <2>1 DEF Of, SavesKept, InStage
<1>3. ASSUME NEW s \in Saves, ~Of(s, u) PROVE ~Of(s, u)'
  BY <1>3 DEF Of, SavesKept
<1>4. Undisturbed(u)
  BY <1>2, <1>3, QueuedSame DEF Undisturbed, storeVars
<1> QED
  BY <1>1, <1>4, UndisturbedKept

LEMMA PressInStep ==
    ASSUME ProfileInv, InStep, NEW d \in Devices, NEW s \in Saves, SaveButtonPressed(d, s)
    PROVE  InStep'
<1>0. PICK u \in Users : u = session[d]
  BY DEF SaveButtonPressed, ProfileInv, ProfileTypeOK, Sessions
<1>1. save[s] = NoSave /\ UNCHANGED <<photo, auth, users, naming, updates>>
  BY DEF SaveButtonPressed, storeVars
<1>2. /\ save'[s] = [stage |-> "uploading", user |-> u, dev |-> d, live |-> TRUE]
      /\ \A t \in Saves \ {s} : save'[t] = save[t]
      /\ save'[s] # NoSave
  <2>1. /\ save' = [save EXCEPT ![s] = [stage |-> "uploading", user |-> u, dev |-> d, live |-> TRUE]]
        /\ save \in [Saves -> Save \cup {NoSave}]
    BY <1>0 DEF SaveButtonPressed, ProfileInv, ProfileTypeOK
  <2>2. [stage |-> "uploading", user |-> u, dev |-> d, live |-> TRUE] \in Save
    BY DEF Save
  <2> QED
    BY <2>1, <2>2, NobodyAssumption
<1>3. s \notin naming /\ ~Queued(s)
  BY <1>0, <1>1 DEF ProfileInv, Written, InStage, Queued
<1>4. Of(s, u)' /\ InStage(s, {"uploading"})' /\ ~InStage(s, {"stored"})' /\ ~InStage(s, {"written"})'
  BY <1>0, <1>2 DEF Of, InStage
<1> SUFFICES ASSUME NEW v \in smooth' PROVE UserInStep(v)'
  BY DEF InStep
<1>5. v \in Users /\ v \in smooth /\ UserInStep(v)
  BY DEF SaveButtonPressed, ProfileInv, ProfileTypeOK, InStep
<1>6. CASE v # u
  <2>1. ~Of(s, v) /\ ~Of(s, v)'
    BY <1>0, <1>1, <1>2, <1>6 DEF Of
  <2>2. Undisturbed(v)
    BY <1>0, <1>1, <1>2, <1>5, <2>1, QueuedSame, OthersUndisturbed
  <2> QED
    BY <1>5, <2>2, UndisturbedKept
<1>7. CASE v = u
  <2>1. ~Outstanding(u)
    BY <1>0, <1>7 DEF SaveButtonPressed
  <2>2. \A t \in Saves : ~OnItsWay(t, u)
    BY <2>1 DEF Outstanding, OnItsWay, Of
  <2>3. Agree(u) /\ Agree(u)'
    BY <1>0, <1>1, <1>5, <1>7, <2>2 DEF UserInStep, Agree
  <2>4. ASSUME NEW t \in Saves \ {s} PROVE OnItsWay(t, u)' <=> OnItsWay(t, u)
    <3>1. save'[t] = save[t] /\ (Queued(t)' <=> Queued(t))
      BY <1>0, <1>1, <1>2, QueuedSame
    <3> QED
      BY <1>0, <1>1, <3>1 DEF OnItsWay, Of, InStage
  <2>5. \A t \in Saves : OnItsWay(t, u)' => t = s
    BY <2>2, <2>4
  <2>6. OnItsWay(s, u)' /\ Reached(s, u)'
    BY <1>0, <1>4, <2>3 DEF OnItsWay, Reached, InStage
  <2>7. UserInStep(u)'
    BY <2>5, <2>6 DEF UserInStep
  <2> QED
    BY <1>7, <2>7
<1> QED
  BY <1>6, <1>7

LEMMA ImageStoredInStep ==
    ASSUME ProfileInv, InStep, NEW s \in Saves, ImageStored(s)
    PROVE  InStep'
<1>1. save \in SaveType /\ save[s] # NoSave /\ save[s] \in Save /\ save[s].user \in Users
  BY SaveFields DEF ImageStored, InStage, ProfileInv, ProfileTypeOK, SaveType
<1>0. PICK u \in Users : u = save[s].user
  BY <1>1
<1>2. UNCHANGED <<auth, users, naming, updates, smooth>>
  BY DEF ImageStored
<1>3. /\ save'[s] # NoSave /\ save'[s].user = u /\ save'[s].stage = "stored"
      /\ \A t \in Saves \ {s} : save'[t] = save[t]
  BY <1>0, <1>1, NobodyAssumption DEF ImageStored, SaveType, Save
<1>4. photo'[u] = s /\ \A v \in Users \ {u} : photo'[v] = photo[v]
  BY <1>0, <1>1 DEF ImageStored, Target, ProfileInv, ProfileTypeOK
<1> SUFFICES ASSUME NEW v \in smooth PROVE UserInStep(v)'
  BY <1>0, <1>2 DEF InStep
<1>5. v \in Users /\ UserInStep(v)
  BY DEF ProfileInv, ProfileTypeOK, InStep
<1>6. CASE v # u
  <2>1. ~Of(s, v) /\ ~Of(s, v)'
    BY <1>0, <1>3, <1>6 DEF Of
  <2>2. Undisturbed(v)
    BY <1>0, <1>2, <1>3, <1>4, <1>5, <1>6, <2>1, QueuedSame, OthersUndisturbed
  <2> QED
    BY <1>5, <2>2, UndisturbedKept
<1>7. CASE v = u
  <2>1. OnItsWay(s, u) /\ InStage(s, {"uploading"})
    BY <1>0, <1>1 DEF ImageStored, OnItsWay, Of, InStage
  <2>2. Agree(u)
    BY <1>5, <1>7, <2>1 DEF UserInStep, Reached
  <2>3. ASSUME NEW t \in Saves \ {s} PROVE OnItsWay(t, u)' <=> OnItsWay(t, u)
    <3>1. save'[t] = save[t] /\ (Queued(t)' <=> Queued(t))
      BY <1>0, <1>2, <1>3, QueuedSame
    <3> QED
      BY <1>0, <1>2, <3>1 DEF OnItsWay, Of, InStage
  <2>4. OnItsWay(s, u)'
    BY <1>0, <1>3 DEF OnItsWay, Of, InStage
  <2>5. Reached(s, u)'
    BY <1>0, <1>2, <1>3, <1>4, <2>2 DEF Reached, InStage, Agree
  <2>6. UserInStep(u)'
    BY <1>0, <1>1, <1>5, <1>7, <2>1, <2>3, <2>4, <2>5, OneSaveMoves
  <2> QED
    BY <1>7, <2>6
<1> QED
  BY <1>6, <1>7

LEMMA UploadFailedInStep ==
    ASSUME ProfileInv, InStep, NEW s \in Saves, UploadFailed(s)
    PROVE  InStep'
<1>1. save \in SaveType /\ save[s] # NoSave /\ save[s] \in Save /\ save[s].user \in Users
  BY SaveFields DEF UploadFailed, InStage, ProfileInv, ProfileTypeOK, SaveType
<1>0. PICK u \in Users : u = save[s].user
  BY <1>1
<1>2. UNCHANGED <<auth, users, naming, updates>> /\ smooth' = smooth \ {u}
  BY <1>0 DEF UploadFailed
<1>3. /\ save'[s] # NoSave /\ save'[s].user = u
      /\ \A t \in Saves \ {s} : save'[t] = save[t]
  BY <1>0, <1>1, NobodyAssumption DEF UploadFailed, SaveType, Save
<1>4. \A v \in Users \ {u} : photo'[v] = photo[v]
  BY <1>0, <1>1 DEF UploadFailed, Target, ProfileInv, ProfileTypeOK
<1> SUFFICES ASSUME NEW v \in smooth \ {u} PROVE UserInStep(v)'
  BY <1>0, <1>2 DEF InStep
<1>5. v \in Users /\ UserInStep(v)
  BY DEF ProfileInv, ProfileTypeOK, InStep
<1>6. ~Of(s, v) /\ ~Of(s, v)'
  BY <1>0, <1>3 DEF Of
<1>7. Undisturbed(v)
  BY <1>0, <1>2, <1>3, <1>4, <1>5, <1>6, QueuedSame, OthersUndisturbed
<1> QED
  BY <1>5, <1>7, UndisturbedKept

LEMMA DownloadURLInStep ==
    ASSUME ProfileInv, InStep, NEW s \in Saves, DownloadURLAnswered(s)
    PROVE  InStep'
<1> DEFINE d == save[s].dev
<1>1. save \in SaveType /\ save[s] # NoSave /\ save[s] \in Save /\ save[s].user \in Users /\ d \in Devices
  BY SaveFields DEF DownloadURLAnswered, InStage, ProfileInv, ProfileTypeOK, SaveType
<1>0. PICK u \in Users : u = save[s].user
  BY <1>1
<1>2. UNCHANGED <<photo, auth, users, smooth>> /\ naming' = naming \cup {s}
  BY DEF DownloadURLAnswered, storeVars
<1>3. /\ save'[s] # NoSave /\ save'[s].user = u /\ save'[s].stage = "written"
      /\ \A t \in Saves \ {s} : save'[t] = save[t]
  BY <1>0, <1>1, NobodyAssumption DEF DownloadURLAnswered, SaveType, Save
<1>4. Queued(s)' /\ \A t \in Saves \ {s} : Queued(t)' <=> Queued(t)
  <2>1. PICK e \in Devices, w \in Sessions : updates' = [updates EXCEPT ![e][w] = Append(@, s)]
    BY <1>1 DEF DownloadURLAnswered, ProfileInv, ProfileTypeOK
  <2>2. updates \in [Devices -> [Sessions -> Seq(Saves)]]
    BY DEF ProfileInv, ProfileTypeOK
  <2>3. \A f \in Devices, v \in Sessions : \A i \in DOMAIN updates'[f][v] :
            updates'[f][v][i] = s \/ (i \in DOMAIN updates[f][v] /\ updates'[f][v][i] = updates[f][v][i])
    BY <2>1, <2>2, AppendedType
  <2>4. ASSUME NEW f \in Devices, NEW v \in Sessions, NEW i \in DOMAIN updates[f][v]
        PROVE  i \in DOMAIN updates'[f][v] /\ updates'[f][v][i] = updates[f][v][i]
    <3>1. updates[f][v] \in Seq(Saves)
      BY <2>2
    <3>2. updates'[f][v] = updates[f][v] \/ updates'[f][v] = Append(updates[f][v], s)
      BY <2>1, <2>2
    <3> QED
      BY <3>1, <3>2, <2>4
  <2>5. Queued(s)'
    <3>1. PICK q \in Seq(Saves) : q = updates[e][w]
      BY <2>2
    <3>2. updates'[e][w] = Append(q, s)
      BY <2>1, <2>2, <3>1
    <3>3. Len(q) + 1 \in DOMAIN Append(q, s) /\ Append(q, s)[Len(q) + 1] = s
      OBVIOUS
    <3> QED
      BY <3>2, <3>3 DEF Queued
  <2> QED
    BY <2>3, <2>4, <2>5 DEF Queued
<1> SUFFICES ASSUME NEW v \in smooth PROVE UserInStep(v)'
  BY <1>0, <1>2 DEF InStep
<1>5. v \in Users /\ UserInStep(v)
  BY DEF ProfileInv, ProfileTypeOK, InStep
<1>6. CASE v # u
  <2>1. ~Of(s, v) /\ ~Of(s, v)'
    BY <1>0, <1>3, <1>6 DEF Of
  <2>2. Undisturbed(v)
    BY <1>0, <1>2, <1>3, <1>4, <1>5, <2>1, OthersUndisturbed
  <2> QED
    BY <1>5, <2>2, UndisturbedKept
<1>7. CASE v = u
  <2>1. OnItsWay(s, u) /\ InStage(s, {"stored"})
    BY <1>0, <1>1 DEF DownloadURLAnswered, OnItsWay, Of, InStage
  <2>2. photo[u] = s
    BY <1>5, <1>7, <2>1 DEF UserInStep, Reached
  <2>3. ASSUME NEW t \in Saves \ {s} PROVE OnItsWay(t, u)' <=> OnItsWay(t, u)
    <3>1. save'[t] = save[t] /\ (Queued(t)' <=> Queued(t))
      BY <1>0, <1>3, <1>4
    <3> QED
      BY <1>0, <1>2, <3>1 DEF OnItsWay, Of, InStage
  <2>4. OnItsWay(s, u)'
    BY <1>0, <1>3, <1>4 DEF OnItsWay, Of
  <2>5. Reached(s, u)'
    BY <1>0, <1>2, <1>3, <1>4, <2>2 DEF Reached, InStage
  <2>6. UserInStep(u)'
    BY <1>0, <1>1, <1>5, <1>7, <2>1, <2>3, <2>4, <2>5, OneSaveMoves
  <2> QED
    BY <1>7, <2>6
<1> QED
  BY <1>6, <1>7

LEMMA NamingInStep ==
    ASSUME ProfileInv, InStep, NEW s \in Saves, NamingAnswered(s)
    PROVE  InStep'
<1>0. PICK u \in Users : u = save[s].user
  <2>1. save \in SaveType
    BY DEF ProfileInv, ProfileTypeOK, SaveType
  <2> QED
    BY <2>1, SaveFields DEF NamingAnswered, ProfileInv, Written, InStage
<1>1. s \in naming /\ InStage(s, {"written"}) /\ Of(s, u)
  BY <1>0 DEF NamingAnswered, ProfileInv, Written, InStage, Of
<1>2. UNCHANGED <<save, photo, users, updates>> /\ naming' = naming \ {s}
  BY DEF NamingAnswered
<1>3. \/ /\ auth'[u] = s /\ \A v \in Users \ {u} : auth'[v] = auth[v]
         /\ smooth' = smooth
      \/ auth' = auth /\ smooth' = smooth \ {u}
  BY <1>0, <1>1 DEF NamingAnswered, Target, ProfileInv, ProfileTypeOK
<1> SUFFICES ASSUME NEW v \in smooth' PROVE UserInStep(v)'
  BY DEF InStep
<1>4. v \in Users /\ UserInStep(v)
  BY <1>0, <1>3 DEF ProfileInv, ProfileTypeOK, InStep
<1>5. CASE v # u
  <2>1. ~Of(s, v) /\ ~Of(s, v)'
    BY <1>0, <1>2, <1>5 DEF Of
  <2>2. Undisturbed(v)
    BY <1>0, <1>2, <1>3, <1>4, <1>5, <2>1, QueuedSame, OthersUndisturbed
  <2> QED
    BY <1>0, <1>4, <2>2, UndisturbedKept
<1>6. CASE v = u
  <2>1. auth'[u] = s
    BY <1>0, <1>3, <1>6
  <2>2. OnItsWay(s, u)
    BY <1>0, <1>1 DEF OnItsWay
  <2>3. photo[u] = s /\ (Queued(s) \/ users[u] = s)
    BY <1>0, <1>1, <1>4, <1>6, <2>2 DEF UserInStep, Reached
  <2>4. \A t \in Saves : Queued(t)' <=> Queued(t)
    BY <1>0, <1>2, QueuedSame
  <2>5. \A t \in Saves \ {s} : OnItsWay(t, u)' <=> OnItsWay(t, u)
    BY <1>0, <1>2, <2>4 DEF OnItsWay, Of, InStage
  <2>6. Reached(s, u)'
    BY <1>0, <1>1, <1>2, <2>1, <2>3, <2>4 DEF Reached, InStage
  <2>7. ~OnItsWay(s, u)' => Agree(u)'
    BY <1>0, <1>1, <1>2, <2>1, <2>3, <2>4 DEF OnItsWay, Of, Agree
  <2>8. UserInStep(u)'
    BY <1>0, <1>1, <1>4, <1>6, <2>2, <2>5, <2>6, <2>7, OneSaveMoves
  <2> QED
    BY <1>6, <2>8
<1> QED
  BY <1>5, <1>6

LEMMA UpdateInStep ==
    ASSUME ProfileInv, InStep, NEW d \in Devices, UpdateAnswered(d)
    PROVE  InStep'
<1>1. PICK w \in Sessions : w = session[d]
  BY DEF ProfileInv, ProfileTypeOK
<1>2. updates \in [Devices -> [Sessions -> Seq(Saves)]] /\ updates[d][w] # << >>
  BY <1>1 DEF UpdateAnswered, ProfileInv, ProfileTypeOK
<1>3. PICK s \in Saves : s = Head(updates[d][w]) /\ InStage(s, {"written"}) /\ Queued(s)
  <2>1. /\ Head(updates[d][w]) \in Saves
        /\ \E i \in DOMAIN updates[d][w] : updates[d][w][i] = Head(updates[d][w])
    BY <1>2, TailType
  <2> QED
    BY <2>1 DEF ProfileInv, Written, Queued
<1>0. PICK u \in Users : u = save[s].user
  <2>1. save \in SaveType
    BY DEF ProfileInv, ProfileTypeOK, SaveType
  <2> QED
    BY <1>3, <2>1, SaveFields DEF InStage
<1>4. Of(s, u)
  BY <1>0, <1>3 DEF Of, InStage
<1>5. UNCHANGED <<save, photo, auth, naming>> /\ updates' = [updates EXCEPT ![d][w] = Tail(@)]
  BY <1>0, <1>1 DEF UpdateAnswered
<1>6. \A t \in Saves \ {s} : Queued(t)' <=> Queued(t)
  <2>1. ASSUME NEW t \in Saves, Queued(t)' PROVE Queued(t)
    <3>1. \A e \in Devices, v \in Sessions : \A i \in DOMAIN updates'[e][v] :
              \E j \in DOMAIN updates[e][v] : updates'[e][v][i] = updates[e][v][j]
      BY <1>0, <1>2, <1>5, TailType
    <3>2. PICK e \in Devices, v \in Sessions : \E i \in DOMAIN updates'[e][v] : updates'[e][v][i] = t
      BY <2>1 DEF Queued
    <3>3. \E j \in DOMAIN updates[e][v] : updates[e][v][j] = t
      BY <3>1, <3>2
    <3> QED
      BY <3>3 DEF Queued
  <2>2. ASSUME NEW t \in Saves \ {s}, Queued(t) PROVE Queued(t)'
    <3>1. PICK e \in Devices, v \in Sessions : \E i \in DOMAIN updates[e][v] : updates[e][v][i] = t
      BY <2>2 DEF Queued
    <3>2. PICK i \in DOMAIN updates[e][v] : updates[e][v][i] = t
      BY <3>1
    <3>3. \E j \in DOMAIN updates'[e][v] : updates'[e][v][j] = t
      <4>1. CASE e = d /\ v = w
        <5>1. updates'[e][v] = Tail(updates[e][v]) /\ updates[e][v] \in Seq(Saves) /\ updates[e][v] # << >>
          BY <1>0, <1>2, <1>5, <4>1
        <5>2. i # 1
          BY <1>3, <3>2, <4>1, <5>1
        <5>3. i - 1 \in DOMAIN Tail(updates[e][v]) /\ Tail(updates[e][v])[i - 1] = updates[e][v][i]
          <6>1. PICK q \in Seq(Saves) : q = updates[e][v]
            BY <5>1
          <6>2. i \in 2 .. Len(q) /\ i - 1 \in 1 .. Len(q) - 1
            BY <5>2, <6>1
          <6>3. DOMAIN Tail(q) = 1 .. Len(q) - 1 /\ Tail(q)[i - 1] = q[i]
            BY <5>1, <6>1, <6>2
          <6> QED
            BY <6>1, <6>2, <6>3
        <5> QED
          BY <3>2, <5>1, <5>3
      <4>2. CASE ~(e = d /\ v = w)
        BY <1>0, <1>2, <1>5, <3>2, <4>2
      <4> QED
        BY <4>1, <4>2
    <3> QED
      BY <3>3 DEF Queued
  <2> QED
    BY <2>1, <2>2
<1>7. \/ /\ users'[u] = s /\ \A v \in Users \ {u} : users'[v] = users[v]
         /\ smooth' = smooth
      \/ users' = users /\ smooth' = smooth \ {u}
  BY <1>0, <1>1, <1>3, <1>4 DEF UpdateAnswered, Target, ProfileInv, ProfileTypeOK
<1> SUFFICES ASSUME NEW v \in smooth' PROVE UserInStep(v)'
  BY DEF InStep
<1>8. v \in Users /\ UserInStep(v)
  BY <1>7 DEF ProfileInv, ProfileTypeOK, InStep
<1>9. CASE v # u
  <2>1. ~Of(s, v) /\ ~Of(s, v)'
    BY <1>0, <1>5, <1>9 DEF Of
  <2>2. Undisturbed(v)
    BY <1>5, <1>6, <1>7, <1>8, <1>9, <2>1, OthersUndisturbed
  <2> QED
    BY <1>8, <2>2, UndisturbedKept
<1>10. CASE v = u
  <2>1. users'[u] = s
    BY <1>7, <1>10
  <2>2. OnItsWay(s, u)
    BY <1>0, <1>3, <1>4 DEF OnItsWay
  <2>3. photo[u] = s /\ (s \in naming \/ auth[u] = s)
    BY <1>0, <1>3, <1>8, <1>10, <2>2 DEF UserInStep, Reached
  <2>4. \A t \in Saves \ {s} : OnItsWay(t, u)' <=> OnItsWay(t, u)
    BY <1>5, <1>6 DEF OnItsWay, Of, InStage
  <2>5. Reached(s, u)'
    BY <1>0, <1>3, <1>5, <2>1, <2>3 DEF Reached, InStage
  <2>6. ~OnItsWay(s, u)' => Agree(u)'
    BY <1>0, <1>4, <1>5, <2>1, <2>3 DEF OnItsWay, Of, Agree
  <2>7. UserInStep(u)'
    BY <1>0, <1>4, <1>8, <1>10, <2>2, <2>4, <2>5, <2>6, OneSaveMoves
  <2> QED
    BY <1>10, <2>7
<1> QED
  BY <1>9, <1>10

\* A smooth user has nothing among what ends with the process.
LEMMA RestartInStep ==
    ASSUME ProfileInv, InStep, NEW d \in Devices, Restart(d)
    PROVE  InStep'
<1>1. /\ UNCHANGED <<photo, users, updates>>
      /\ naming' = naming \ Cut(d)
      /\ smooth' = smooth \ {save[s].user : s \in Cut(d)}
  BY DEF Restart
<1>2. \A s \in Saves \ Cut(d) : save'[s] = Orphaned(d)[s]
  BY DEF Restart
<1>3. ASSUME NEW s \in Saves
      PROVE  /\ Orphaned(d)[s] = NoSave <=> save[s] = NoSave
             /\ save[s] # NoSave => /\ Orphaned(d)[s].user = save[s].user
                                    /\ Orphaned(d)[s].stage = save[s].stage
  <2>1. ASSUME NEW r \in Save
        PROVE  /\ [r EXCEPT !.live = FALSE] \in Save
               /\ [r EXCEPT !.live = FALSE].user = r.user
               /\ [r EXCEPT !.live = FALSE].stage = r.stage
    BY DEF Save
  <2>2. save[s] \in Save \cup {NoSave}
    BY DEF ProfileInv, ProfileTypeOK
  <2> QED
    BY <2>1, <2>2, NobodyAssumption DEF Orphaned
<1> SUFFICES ASSUME NEW v \in smooth' PROVE UserInStep(v)'
  BY DEF InStep
<1>4. v \in Users /\ v \in smooth /\ UserInStep(v)
  BY <1>1 DEF ProfileInv, ProfileTypeOK, InStep
<1>5. \A s \in Cut(d) : ~Of(s, v) /\ save[s].user # v
  BY <1>1 DEF Of
<1>6. auth'[v] = auth[v]
  BY <1>4, <1>5 DEF Restart, Target, ProfileInv, ProfileTypeOK
<1>7. ASSUME NEW s \in Saves \ Cut(d)
      PROVE  /\ Of(s, v)' <=> Of(s, v)
             /\ Of(s, v) => save'[s].stage = save[s].stage
             /\ s \in naming' <=> s \in naming
  BY <1>1, <1>2, <1>3 DEF Of
<1>8. ASSUME NEW s \in Cut(d) PROVE ~Of(s, v)'
  <2>1. save[s] # NoSave /\ s \in Saves /\ save[s] \in Save
    BY DEF Cut, ProfileInv, ProfileTypeOK
  <2>2. \/ save'[s] = [save[s] EXCEPT !.stage = "failed", !.live = FALSE]
        \/ save'[s] = Orphaned(d)[s]
    BY <2>1 DEF Restart
  <2>3. save'[s].user = save[s].user
    BY <1>3, <2>1, <2>2 DEF Save
  <2> QED
    BY <1>5, <2>3 DEF Of
<1>9. Undisturbed(v)
  BY <1>1, <1>5, <1>6, <1>7, <1>8, QueuedSame DEF Undisturbed
<1> QED
  BY <1>4, <1>9, UndisturbedKept

LEMMA InStepStep == ProfileInv /\ InStep /\ [Next]_vars => InStep'
<1> SUFFICES ASSUME ProfileInv, InStep, [Next]_vars PROVE InStep'
  OBVIOUS
<1>1. CASE UNCHANGED vars
  <2>1. UNCHANGED <<session, screenVars, save, storeVars, naming, updates, smooth>>
    BY <1>1 DEF vars
  <2>2. SavesKept /\ \A s \in Saves : \A stages : InStage(s, stages)' <=> InStage(s, stages)
    BY <2>1 DEF SavesKept, InStage
  <2> QED
    BY <2>1, <2>2, ScreensInStep
<1>2. ASSUME NEW d \in Devices, DeviceStep(d) PROVE InStep'
  <2>1. CASE \/ OwnerFetched(d) \/ WillEditProfile(d) \/ EditFields(d) \/ SaveIncomplete(d)
             \/ CancelButtonPressed(d) \/ SignOut(d) \/ (\E u \in Users : SignIn(d, u))
    <3>1. \A s \in Saves : save[s] = NoSave => save'[s] = NoSave
      <4>1. UNCHANGED save \/ save' = Orphaned(d)
        BY <2>1 DEF OwnerFetched, WillEditProfile, EditFields, SaveIncomplete,
                    CancelButtonPressed, SignOut, SignIn
      <4> QED
        BY <4>1 DEF Orphaned
    <3> QED
      BY <2>1, <3>1, ScreenSteps, ScreensInStep
  <2> QED
    BY <1>2, <2>1, PressInStep, UpdateInStep, RestartInStep DEF DeviceStep
<1>3. ASSUME NEW s \in Saves, SaveStep(s) PROVE InStep'
  BY <1>3, ImageStoredInStep, UploadFailedInStep, DownloadURLInStep, NamingInStep DEF SaveStep
<1> QED
  BY <1>1, <1>2, <1>3 DEF Next

\* saveButtonPressed: Storage, the Auth profile and the users document end with the same
\* values when the saves of a user followed one another and none of them failed.
THEOREM SavesAgreeCorrect == Spec => []SavesAgree
<1>1. ProfileInv /\ InStep /\ [Next]_vars => (ProfileInv /\ InStep)'
  BY ProfileStep, InStepStep
<1>2. Init => ProfileInv /\ InStep
  BY ProfileInit, InStepInit
<1>3. ProfileInv /\ InStep => SavesAgree
  BY DEF InStep, UserInStep, Agree, OnItsWay, Of, Outstanding, SavesAgree
<1> QED
  BY <1>1, <1>2, <1>3, PTL DEF Spec
=============================================================================
