------------------------------ MODULE JobFeed ------------------------------
(***************************************************************************)
(* How posts reach the two screens of one session that show them all: the  *)
(* table of JobListViewController and the pins of JobPostMapViewController. *)
(*                                                                         *)
(* Both listen to the same query.  The SDK raises a snapshot when the view *)
(* of the query changes (Visible of module Firestore) and hands it to the  *)
(* main queue; the list stores it at once and reloads its table in a later *)
(* block of that queue, so between two blocks a finger may meet rows that  *)
(* the list has already replaced.                                          *)
(*                                                                         *)
(* A post is a number, greater for a later createdDate.  Of its fields only *)
(* the status is told apart; the name and photo that fetchPostCreator puts *)
(* into a cell, and the distance, are left out.                            *)
(***************************************************************************)
EXTENDS Integers, SequencesExt

CONSTANTS Posts,       \* documents of the jobPosts collection
          NoView,      \* a callback with an error instead of a snapshot
          MaxAsks,     \* bounds the runs of the list's fetchBlogPosts
          MaxChanges,  \* bounds the changes of the view
          MaxFailures, \* bounds fetchUser requests, and queries, that fail
          MaxBlocks    \* bounds the main queue

VARIABLES view,     \* the documents that match the query, in the SDK
          ready,    \* the view is in sync with the backend or known to be offline
          silent,   \* silent[t]: listeners of screen t that have heard nothing yet
          loud,     \* loud[t]: those that have
          asks,     \* asks[t]: how often screen t has run fetchBlogPosts
          asked,    \* asked[t]: its fetchUser requests that are out
          main,     \* blocks waiting in the main queue
          jobPosts, \* JobListViewController.jobPosts
          rows,     \* what the rows of its table show
          refresh,  \* its lazy refreshControl
          mapPosts, \* JobPostMapViewController.jobPosts
          pins,     \* the annotations on the map
          crashed,  \* the screen whose handler stopped the app
          astray,   \* a tap has opened an older post than the one that it showed
          vanished, \* a post has left the view
          changes, fetchFailures, queryFailures

sdkVars == <<view, ready, silent, loud>>
fetchVars == <<asks, asked, fetchFailures>>
listVars == <<jobPosts, rows>>
mapVars == <<mapPosts, pins>>
envVars == <<vanished, changes, queryFailures>>
vars == <<sdkVars, fetchVars, main, listVars, refresh, mapVars, crashed, astray, envVars>>

-----------------------------------------------------------------------------
Screens == {"list", "map"}
Statuses == {"PENDING", "BOOKED"}
Entry == [post : Posts, status : Statuses]
Views == [Posts -> Statuses \cup {"absent"}]

ASSUME FeedAssumption ==
    /\ Posts \subseteq Nat /\ IsFiniteSet(Posts)
    /\ NoView \notin Views
    /\ {MaxAsks, MaxChanges, MaxFailures, MaxBlocks} \subseteq Nat

Shown(v) == {[post |-> p, status |-> v[p]] : p \in {q \in Posts : v[q] # "absent"}}

NewestFirst(s) == \A i, j \in DOMAIN s : i < j => s[i].post > s[j].post

\* Mutant of ListOf: the sort compares the other way round.
ListOfOldestFirst(v) ==
    CHOOSE s \in SetToSeqs(Shown(v)) : \A i, j \in DOMAIN s : i < j => s[i].post < s[j].post

\* snapshot.documents sorted by createdDate, the latest first.
ListOf(v) == CHOOSE s \in SetToSeqs(Shown(v)) : NewestFirst(s)

\* The same sorted by the distance from wherever the phone is, equal ones in any
\* order: no order is excluded.
MapOrders(v) == SetToSeqs(Shown(v))

Block == [to : Screens, view : Views \cup {NoView}] \cup [to : {"table", "spinner"}, view : {NoView}]

\* The types of all variables.  The list has each post once, the newest first.
FeedTypeOK ==
    /\ view \in Views
    /\ {ready, vanished, astray} \subseteq BOOLEAN
    /\ {silent, loud, asks, asked} \subseteq [Screens -> Nat]
    /\ main \in Seq(Block) /\ Len(main) <= MaxBlocks
    /\ {jobPosts, rows, mapPosts} \subseteq Seq(Entry)
    /\ NewestFirst(jobPosts)
    /\ refresh \in {"none", "idle", "spinning"}
    /\ pins \subseteq [tag : Nat, entry : Entry]
    /\ crashed \in {"no"} \cup Screens
    /\ {changes, fetchFailures, queryFailures} \subseteq Nat

\* The app has been started with what its cache holds.
Init ==
    /\ view \in Views
    /\ ready = FALSE
    /\ silent = [t \in Screens |-> 0] /\ loud = [t \in Screens |-> 0]
    /\ asks = [t \in Screens |-> 0] /\ asked = [t \in Screens |-> 0]
    /\ main = << >>
    /\ jobPosts = << >> /\ rows = << >> /\ refresh = "none"
    /\ mapPosts = << >> /\ pins = {}
    /\ crashed = "no" /\ astray = FALSE /\ vanished = FALSE
    /\ changes = 0 /\ fetchFailures = 0 /\ queryFailures = 0

Running == crashed = "no"

-----------------------------------------------------------------------------
(* The SDK: FSTEventManager and its listeners *)

\* A callback of each of n[t] listeners of screen t.
Callbacks(n, v) ==
    [i \in 1..n["list"] |-> [to |-> "list", view |-> v]]
    \o [i \in 1..n["map"] |-> [to |-> "map", view |-> v]]

Enqueue(blocks) ==
    /\ Len(main) + Len(blocks) <= MaxBlocks
    /\ main' = main \o blocks

\* A first snapshot without documents is withheld until it is known to be true.
Raised(v) == ready \/ Shown(v) # {}

Both(t) == loud[t] + silent[t]

\* A listener that is new gets the view there is, if it is raised.
AddListener(t) ==
    IF Raised(view)
    THEN /\ loud' = [loud EXCEPT ![t] = @ + 1]
         /\ Enqueue(<<[to |-> t, view |-> view]>>)
         /\ UNCHANGED silent
    ELSE /\ silent' = [silent EXCEPT ![t] = @ + 1]
         /\ UNCHANGED <<loud, main>>

\* A post appears, is booked, goes back, or vanishes because its setData is refused.
ViewChanges(p, status) ==
    LET v == [view EXCEPT ![p] = status]
        heard == IF Raised(v) THEN [t \in Screens |-> Both(t)] ELSE loud
    IN  /\ Running
        /\ changes < MaxChanges
        /\ view[p] # status
        /\ view' = v
        /\ loud' = heard
        /\ silent' = [t \in Screens |-> Both(t) - heard[t]]
        /\ Enqueue(Callbacks(heard, v))
        /\ vanished' = (vanished \/ status = "absent")
        /\ changes' = changes + 1
        /\ UNCHANGED <<ready, fetchVars, listVars, refresh, mapVars, crashed, astray, queryFailures>>

\* The view is current, or the phone turns out to be offline.
ViewReady ==
    /\ Running
    /\ ~ready
    /\ ready' = TRUE
    /\ loud' = [t \in Screens |-> Both(t)]
    /\ silent' = [t \in Screens |-> 0]
    /\ Enqueue(Callbacks(silent, view))
    /\ UNCHANGED <<view, fetchVars, listVars, refresh, mapVars, crashed, astray, envVars>>

\* The backend refuses the query: every listener is told and dropped.
QueryFails ==
    /\ Running
    /\ queryFailures < MaxFailures
    /\ \E t \in Screens : Both(t) > 0
    /\ queryFailures' = queryFailures + 1
    /\ ready' = FALSE
    /\ loud' = [t \in Screens |-> 0]
    /\ silent' = [t \in Screens |-> 0]
    /\ Enqueue(Callbacks([t \in Screens |-> Both(t)], NoView))
    /\ UNCHANGED <<view, fetchVars, listVars, refresh, mapVars, crashed, astray, vanished, changes>>

-----------------------------------------------------------------------------
(* The screens ask for posts *)

\* The list asks when it loads and whenever it appears, the map when it loads.
FetchBlogPosts(t) ==
    /\ Running
    /\ asks[t] < (IF t = "list" THEN MaxAsks ELSE 1)
    /\ asks' = [asks EXCEPT ![t] = @ + 1]
    /\ asked' = [asked EXCEPT ![t] = @ + 1]
    /\ UNCHANGED <<sdkVars, fetchFailures, main, listVars, refresh, mapVars, crashed, astray, envVars>>

\* Mutant of PullToRefresh: the list is emptied while it loads.
PullToRefreshCleared ==
    /\ Running
    /\ refresh = "idle"
    /\ asks["list"] < MaxAsks
    /\ refresh' = "spinning"
    /\ jobPosts' = << >>
    /\ asks' = [asks EXCEPT !["list"] = @ + 1]
    /\ asked' = [asked EXCEPT !["list"] = @ + 1]
    /\ UNCHANGED <<sdkVars, fetchFailures, main, rows, mapVars, crashed, astray, envVars>>

\* The user pulls the table down; the control is there since it was first used.
PullToRefresh ==
    /\ Running
    /\ refresh = "idle"
    /\ asks["list"] < MaxAsks
    /\ refresh' = "spinning"
    /\ asks' = [asks EXCEPT !["list"] = @ + 1]
    /\ asked' = [asked EXCEPT !["list"] = @ + 1]
    /\ UNCHANGED <<sdkVars, fetchFailures, main, listVars, mapVars, crashed, astray, envVars>>

\* fetchUser finds the user: listen to the posts.
FetchAnswered(t) ==
    /\ Running
    /\ asked[t] > 0
    /\ asked' = [asked EXCEPT ![t] = @ - 1]
    /\ AddListener(t)
    /\ refresh' = IF t = "list" THEN "spinning" ELSE refresh
    /\ UNCHANGED <<view, ready, asks, fetchFailures, listVars, mapVars, crashed, astray, envVars>>

\* fetchUser ends with an error, which is shown, or with no document, of which
\* the screen hears nothing.
FetchFails(t) ==
    /\ Running
    /\ asked[t] > 0
    /\ fetchFailures < MaxFailures
    /\ asked' = [asked EXCEPT ![t] = @ - 1]
    /\ fetchFailures' = fetchFailures + 1
    /\ UNCHANGED <<sdkVars, asks, main, listVars, refresh, mapVars, crashed, astray, envVars>>

-----------------------------------------------------------------------------
(* Blocks of the main queue, in their order *)

NextBlock(to) == Running /\ main # << >> /\ Head(main).to = to

Table == [to |-> "table", view |-> NoView]
ReloadDue == \E i \in DOMAIN main : main[i].to = "table"

\* Mutants of ListSnapshot: new posts are put before the old ones; a snapshot is
\* skipped while a reload is due.
ListSnapshotPrepended ==
    /\ NextBlock("list")
    /\ Head(main).view # NoView
    /\ jobPosts' = SelectSeq(ListOf(Head(main).view), LAMBDA e : e \notin Range(jobPosts)) \o jobPosts
    /\ main' = Append(Tail(main), Table)
    /\ UNCHANGED <<sdkVars, fetchVars, rows, refresh, mapVars, crashed, astray, envVars>>

ListSnapshotSkipped ==
    /\ NextBlock("list")
    /\ Head(main).view # NoView
    /\ jobPosts' = IF ReloadDue THEN jobPosts ELSE ListOf(Head(main).view)
    /\ main' = Append(Tail(main), Table)
    /\ UNCHANGED <<sdkVars, fetchVars, rows, refresh, mapVars, crashed, astray, envVars>>

\* didSet of jobPosts leaves the reload, and the callback the end of refreshing, to
\* later blocks, one behind the other.
ListSnapshot ==
    /\ NextBlock("list")
    /\ Head(main).view # NoView
    /\ jobPosts' = ListOf(Head(main).view)
    /\ main' = Append(Tail(main), Table)
    /\ UNCHANGED <<sdkVars, fetchVars, rows, refresh, mapVars, crashed, astray, envVars>>

\* Mutant of ListError: refreshing is ended only after a snapshot.
ListErrorIgnored ==
    /\ NextBlock("list")
    /\ Head(main).view = NoView
    /\ main' = Tail(main)
    /\ UNCHANGED <<sdkVars, fetchVars, listVars, refresh, mapVars, crashed, astray, envVars>>

\* An error is logged.
ListError ==
    /\ NextBlock("list")
    /\ Head(main).view = NoView
    /\ main' = Append(Tail(main), [to |-> "spinner", view |-> NoView])
    /\ UNCHANGED <<sdkVars, fetchVars, listVars, refresh, mapVars, crashed, astray, envVars>>

\* Mutant of Reload: only a list that is refreshing is reloaded.
ReloadWhileRefreshing ==
    /\ NextBlock("table")
    /\ main' = Tail(main)
    /\ rows' = IF refresh = "spinning" THEN jobPosts ELSE rows
    /\ refresh' = "idle"
    /\ UNCHANGED <<sdkVars, fetchVars, jobPosts, mapVars, crashed, astray, envVars>>

\* reloadData, and endRefreshing.
Reload ==
    /\ NextBlock("table")
    /\ main' = Tail(main)
    /\ rows' = jobPosts
    /\ refresh' = "idle"
    /\ UNCHANGED <<sdkVars, fetchVars, jobPosts, mapVars, crashed, astray, envVars>>

EndRefreshing ==
    /\ NextBlock("spinner")
    /\ main' = Tail(main)
    /\ refresh' = "idle"
    /\ UNCHANGED <<sdkVars, fetchVars, listVars, mapVars, crashed, astray, envVars>>

\* The map replaces its posts and, with setupAnnotations, its pins, which are tagged
\* with their places.  It then centres on the first post, and stops if there is none.
MapSnapshot ==
    /\ NextBlock("map")
    /\ Head(main).view # NoView
    /\ main' = Tail(main)
    /\ mapPosts' \in MapOrders(Head(main).view)
    /\ pins' = {[tag |-> i - 1, entry |-> mapPosts'[i]] : i \in DOMAIN mapPosts'}
    /\ crashed' = IF mapPosts' = << >> THEN "map" ELSE "no"
    /\ UNCHANGED <<sdkVars, fetchVars, listVars, refresh, astray, envVars>>

MapError ==
    /\ NextBlock("map")
    /\ Head(main).view = NoView
    /\ main' = Tail(main)
    /\ UNCHANGED <<sdkVars, fetchVars, listVars, refresh, mapVars, crashed, astray, envVars>>

-----------------------------------------------------------------------------
(* The user, between two blocks *)

\* Row i comes into sight: its cell is filled from the list as it is now.
CellForRow(i) ==
    /\ Running
    /\ i \in DOMAIN rows
    /\ IF i \in DOMAIN jobPosts
       THEN rows' = [rows EXCEPT ![i] = jobPosts[i]] /\ UNCHANGED crashed
       ELSE crashed' = "list" /\ UNCHANGED rows
    /\ UNCHANGED <<sdkVars, fetchVars, main, jobPosts, refresh, mapVars, astray, envVars>>

\* A row is tapped: prepare hands over the post at its place in the list.
TapRow(i) ==
    /\ Running
    /\ i \in DOMAIN rows
    /\ IF i \in DOMAIN jobPosts
       THEN /\ astray' = (astray \/ jobPosts[i].post < rows[i].post)
            /\ UNCHANGED crashed
       ELSE crashed' = "list" /\ UNCHANGED astray
    /\ UNCHANGED <<sdkVars, fetchVars, main, listVars, refresh, mapVars, envVars>>

\* The button of a pin's callout is tapped: the post at the place its tag says.
TapPin(pin) ==
    /\ Running
    /\ IF pin.tag + 1 \in DOMAIN mapPosts
       THEN /\ astray' = (astray \/ mapPosts[pin.tag + 1].post < pin.entry.post)
            /\ UNCHANGED crashed
       ELSE crashed' = "map" /\ UNCHANGED astray
    /\ UNCHANGED <<sdkVars, fetchVars, main, listVars, refresh, mapVars, envVars>>

-----------------------------------------------------------------------------
Blocks == ListSnapshot \/ ListError \/ Reload \/ EndRefreshing \/ MapSnapshot \/ MapError

Next ==
    \/ \E p \in Posts, status \in Statuses \cup {"absent"} : ViewChanges(p, status)
    \/ ViewReady
    \/ QueryFails
    \/ \E t \in Screens : FetchBlogPosts(t) \/ FetchAnswered(t) \/ FetchFails(t)
    \/ PullToRefresh
    \/ Blocks
    \/ \E i \in DOMAIN rows : CellForRow(i) \/ TapRow(i)
    \/ \E pin \in pins : TapPin(pin)

Spec == Init /\ [][Next]_vars

\* The main queue is served, requests end, and the SDK finds out whether it is online.
FairSpec ==
    /\ Spec
    /\ WF_vars(Blocks)
    /\ WF_vars(ViewReady)
    /\ \A t \in Screens : WF_vars(FetchAnswered(t) \/ FetchFails(t))

-----------------------------------------------------------------------------
(* Properties *)

\* While a listener has been heard, the list holds what the SDK's view holds or the
\* last snapshot of the list in the main queue does; and the table shows the list
\* or a reload is due (the callbacks of fetchBlogPosts and the didSet of jobPosts).
ShownOrOnItsWay ==
    LET snapshots == {i \in DOMAIN main : main[i].to = "list" /\ main[i].view # NoView}
    IN  /\ rows = jobPosts \/ ReloadDue
        /\ loud["list"] > 0 =>
              IF snapshots = {} THEN jobPosts = ListOf(view)
              ELSE \E i \in snapshots : main[i].view = view /\ \A j \in snapshots : j <= i

\* Between the assignment of jobPosts and the reload behind it a tapped row may open
\* another post than it shows.  As long as none has vanished that is a later one, which
\* has pushed the others down, and never an older one, however many snapshots, reloads
\* and cells came between (prepare, which looks up a place in the array that the
\* callbacks of fetchBlogPosts replace and sort).
TapNeverOpensOlder == astray => vanished

\* The list looks up no row beyond its end, between any two blocks, as long as no
\* post has vanished (cellForRowAt and prepare); the map does only if it is empty.
RowsInRange ==
    /\ crashed = "list" => vanished
    /\ crashed = "map" => mapPosts = << >>

\* Again and again the table shows the view (which changes MaxChanges times), unless
\* the query was refused: no snapshot is lost on the way to the rows.
TableCatchesUp == []<>(rows = ListOf(view) \/ loud["list"] = 0 \/ ~Running)

\* Refreshing comes to an end unless a fetchUser fails, also when the query is
\* refused (the endRefreshing of fetchBlogPosts).
RefreshEnds ==
    refresh = "spinning" /\ fetchFailures = 0 ~>
        refresh = "idle" \/ fetchFailures > 0 \/ ~Running
=============================================================================
