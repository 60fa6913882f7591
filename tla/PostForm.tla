------------------------------ MODULE PostForm ------------------------------
(***************************************************************************)
(* The fields of the form of AddJobPostViewController and its location     *)
(* picker, up to the press of Post that passes the checks (what follows is *)
(* module JobPosts).  A user is signed in: the form is behind the tab bar. *)
(*                                                                         *)
(* The two text views have no placeholder of their own.  The storyboard    *)
(* gives them a text, which the code takes away when editing begins and    *)
(* replaces, after a return in an empty view, by "Blog text...".           *)
(***************************************************************************)
CONSTANTS Nowhere,  \* the coordinate (0, 0)
          Places,   \* other coordinates
          NoJob     \* nothing has been posted

VARIABLES text,           \* text[v]: what text view v holds
          filled,         \* the text fields and the photo that are filled in
          editing,        \* the text view that has the keyboard, or "none"
          locationButton, \* its title
          userLocation,   \* the location to be posted
          picker,         \* AddLocationViewController, "closed" or its center
          jobPost         \* the job that was posted

textVars == <<text, editing>>
placeVars == <<locationButton, userLocation, picker>>
vars == <<textVars, filled, placeVars, jobPost>>

-----------------------------------------------------------------------------
TextViews == {"jobDescription", "petBio"}
Others == {"timeFrame", "wages", "petImage"}

Placeholder == [jobDescription |-> "Set Tasks...", petBio |-> "Tell me about your pets..."]

Coordinates == Places \cup {Nowhere}

Init ==
    /\ text = Placeholder
    /\ filled = {}
    /\ editing = "none"
    /\ locationButton = "Add Location"
    /\ userLocation = Nowhere
    /\ picker = "closed"
    /\ jobPost = NoJob

InForm == picker = "closed"

-----------------------------------------------------------------------------
\* Either placeholder is taken away from either view; "Blog text..." stays.
TextViewDidBeginEditing(v) ==
    /\ InForm
    /\ editing # v
    /\ editing' = v
    /\ text' = [text EXCEPT ![v] = IF @ \in {Placeholder[w] : w \in TextViews} THEN "" ELSE @]
    /\ UNCHANGED <<filled, placeVars, jobPost>>

\* The user types words, all of which are "typed", or deletes everything.
Type(words) ==
    /\ InForm
    /\ editing # "none"
    /\ text[editing] # words
    /\ text' = [text EXCEPT ![editing] = words]
    /\ UNCHANGED <<editing, filled, placeVars, jobPost>>

\* A return ends editing and is not inserted (shouldChangeTextIn).
Return ==
    /\ InForm
    /\ editing # "none"
    /\ text' = [text EXCEPT ![editing] = IF @ = "" THEN "Blog text..." ELSE @]
    /\ editing' = "none"
    /\ UNCHANGED <<filled, placeVars, jobPost>>

\* A text field is used instead; it is filled in or emptied, or the photo picked.
FillIn(field) ==
    /\ InForm
    /\ filled' = IF field \in filled \ {"petImage"} THEN filled \ {field} ELSE filled \cup {field}
    /\ editing' = IF field = "petImage" THEN editing ELSE "none"
    /\ UNCHANGED <<text, placeVars, jobPost>>

\* The picker's center is not set before the map reports a region.
EditLocation ==
    /\ InForm
    /\ picker' = Nowhere
    /\ editing' = "none"
    /\ UNCHANGED <<text, filled, locationButton, userLocation, jobPost>>

\* mapView(regionDidChangeAnimated:), by the user's location or his finger.
RegionDidChange(c) ==
    /\ ~InForm
    /\ picker' = c
    /\ UNCHANGED <<textVars, filled, locationButton, userLocation, jobPost>>

UnwindFromEditLocation ==
    /\ ~InForm
    /\ userLocation' = picker
    /\ locationButton' = "Location Added"
    /\ picker' = "closed"
    /\ UNCHANGED <<textVars, filled, jobPost>>

\* Post passes the checks: a location, no text empty, every field and the photo.
PostButtonPressed ==
    /\ InForm
    /\ jobPost = NoJob
    /\ locationButton = "Location Added"
    /\ \A v \in TextViews : text[v] # ""
    /\ filled = Others
    /\ jobPost' = [jobDescription |-> text["jobDescription"], petBio |-> text["petBio"],
                   location |-> userLocation]
    /\ UNCHANGED <<textVars, filled, placeVars>>

Next ==
    \/ \E v \in TextViews : TextViewDidBeginEditing(v)
    \/ \E words \in {"", "typed"} : Type(words)
    \/ Return
    \/ \E field \in Others : FillIn(field)
    \/ EditLocation
    \/ \E c \in Coordinates : RegionDidChange(c)
    \/ UnwindFromEditLocation
    \/ PostButtonPressed

Spec == Init /\ [][Next]_vars

-----------------------------------------------------------------------------
(* What the README says and the code does not keep. *)

\* "The job posts require a general location, a job description, a pet description":
\* a job that was posted has descriptions that its owner wrote.
RequiresDescriptions ==
    jobPost # NoJob => jobPost.jobDescription = "typed" /\ jobPost.petBio = "typed"
=============================================================================
