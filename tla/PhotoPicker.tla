------------------------------ MODULE PhotoPicker ------------------------------
(***************************************************************************)
(* The photo picker in the single selection mode that every screen of the  *)
(* app asks for: the grid, the full screen viewer over it, the requests    *)
(* for full size photos they make, and the determination that Done starts. *)
(*                                                                         *)
(* An FMPhotoAsset remembers one request id and one "cancelled" flag, but  *)
(* the viewer has two requests under way for its photo and Done makes a    *)
(* third; the photo library answers them in any order. The determination   *)
(* runs on a background queue behind an overlay, which keeps new touches   *)
(* away but not the finger that is already down on another control, nor    *)
(* the swipe that is still under way. What such a finger does to the       *)
(* selection on the main queue may be read half done by the other queue.   *)
(***************************************************************************)
EXTENDS Integers, FiniteSets

CONSTANTS
    Assets,         \* photos of the library
    NoAsset,        \* the viewer is closed
    MaxRequests,    \* bound: full size requests made in a behaviour
    MayHold         \* what may be held or under way when Done is tapped

\* On the grid Cancel, a cell or the mark that selects a photo, which is named by
\* the photo; in the viewer the back button or a swipe.
GridControls == {"cancel", "cell"} \cup Assets
ViewerControls == {"back", "swipe"}

ASSUME PickerAssumption ==
    /\ MaxRequests \in Nat
    /\ NoAsset \notin Assets
    /\ Assets \cap {"nothing", "cancel", "cell", "back", "swipe"} = {}
    /\ MayHold \subseteq GridControls \cup ViewerControls

VARIABLES
    selected,   \* dataSource.selectedPhotoIndexes
    viewer,     \* the photo on the viewer's page, or NoAsset
    spare,      \* photos with a page controller off the screen, not yet freed
    open,       \* the picker is presented
    inFlight,   \* requests the photo library has not answered
    issued,     \* requests made so far
    latest,     \* fullSizePhotoRequestId of each photo, 0 for nil
    flag,       \* canceledFullSizeRequest of each photo
    phase,      \* "browsing", "queued", "requesting", "delivered"
    held,       \* what another finger holds since before Done, or "nothing"
    adding,     \* the photo a late finger selects, once the others are unselected
    chosen,     \* the photos that the determination read
    todo,       \* those it has still to request
    assigning,  \* its request whose id is not stored yet, or {}
    dict,       \* the photos it has got
    stuck,      \* why the dispatch group will never be empty, or "no"
    gone,       \* history: photos whose page was swiped away or freed
    promised    \* history: the selection at Done, until a late finger changes it

browsingVars == <<selected, viewer, spare, open>>
requestVars == <<inFlight, issued, latest, flag, gone>>
doneVars == <<phase, chosen, todo, assigning, dict, stuck>>
lateVars == <<held, adding, promised>>
vars == <<browsingVars, requestVars, doneVars, lateVars>>

Ids == 1 .. MaxRequests
Requests == [id : Ids, asset : Assets, for : {"view", "done"}, cancelled : BOOLEAN]

TypeOK ==
    /\ selected \in SUBSET Assets
    /\ viewer \in Assets \cup {NoAsset}
    /\ spare \in SUBSET Assets
    /\ open \in BOOLEAN
    /\ inFlight \in SUBSET Requests
    /\ issued \in 0 .. MaxRequests
    /\ latest \in [Assets -> 0 .. MaxRequests]
    /\ flag \in [Assets -> BOOLEAN]
    /\ phase \in {"browsing", "queued", "requesting", "delivered"}
    /\ held \in {"nothing"} \cup GridControls \cup ViewerControls
    /\ adding \in Assets \cup {NoAsset}
    /\ chosen \in SUBSET Assets
    /\ todo \in SUBSET Assets
    /\ assigning \in SUBSET (Assets \X Ids)
    /\ dict \in SUBSET Assets
    /\ stuck \in {"no", "library", "flag", "cancelled"}
    /\ gone \in SUBSET Assets
    /\ promised \in SUBSET Assets

Init ==
    /\ selected = {}
    /\ viewer = NoAsset
    /\ spare = {}
    /\ open = TRUE
    /\ inFlight = {}
    /\ issued = 0
    /\ latest = [a \in Assets |-> 0]
    /\ flag = [a \in Assets |-> FALSE]
    /\ phase = "browsing"
    /\ held = "nothing"
    /\ adding = NoAsset
    /\ promised = {}
    /\ chosen = {}
    /\ todo = {}
    /\ assigning = {}
    /\ dict = {}
    /\ stuck = "no"
    /\ gone = {}

-----------------------------------------------------------------------------
(* FMPhotoAsset: the requests of one photo.                                *)

Request(n, a, for) == [id |-> n, asset |-> a, for |-> for, cancelled |-> FALSE]

\* The viewer asks for its page twice: as edited, and with the crop undone.
\* Only the id of the second request is kept. The bound leaves one for Done as
\* long as Done has not made its own.
RequestPage(a) ==
    /\ issued + 2 <= MaxRequests
    /\ issued + 2 < MaxRequests \/ (phase = "requesting" /\ todo = {})
    /\ issued' = issued + 2
    /\ latest' = [latest EXCEPT ![a] = issued + 2]

PageRequests(a) == {Request(issued + 1, a, "view"), Request(issued + 2, a, "view")}

\* cancelImageRequest with the id that is stored. Without one nothing is
\* cancelled.
Cancelled(a, requests) ==
    {IF r.asset = a /\ r.id = latest[a] THEN [r EXCEPT !.cancelled = TRUE] ELSE r :
        r \in requests}
MarkCancelled(a) == flag' = [flag EXCEPT ![a] = @ \/ latest[a] # 0]

\* What the caller of requestFullSizePhoto is given: the flag, when it is set,
\* answers for whichever request returns first.
IsGiven(r, ok) == ok /\ ~flag[r.asset]

-----------------------------------------------------------------------------
(* Browsing.                                                               *)

Browsing == phase = "browsing" /\ open
OnGrid == Browsing /\ viewer = NoAsset
InViewer == Browsing /\ viewer # NoAsset

\* A finger that was down, or a swipe that was under way, ends behind the overlay.
Late(control) == phase \in {"queued", "requesting"} /\ held = control

\* Faulty variant of Remaining: nothing is unselected, as in multiple mode.
RemainingMultiple == selected

\* Single mode: what the loop that unselects the photos before leaves.
Remaining == {}

\* A selected photo is unselected, any other replaces the selection.
OnTapSelect(a) ==
    /\ OnGrid
    /\ selected' = IF a \in selected THEN selected \ {a} ELSE Remaining \cup {a}
    /\ UNCHANGED <<viewer, spare, open, requestVars, doneVars, lateVars>>

\* The pages beside the one shown may get controllers too.
DidSelectItem(a) ==
    /\ \/ OnGrid /\ held' = held
       \/ Late("cell") /\ open /\ viewer = NoAsset /\ held' = "nothing"
    /\ viewer' = a
    /\ \E pages \in SUBSET (Assets \ {a}) : spare' = spare \cup pages
    /\ RequestPage(a)
    /\ inFlight' = inFlight \cup PageRequests(a)
    /\ UNCHANGED <<selected, open, flag, gone, doneVars, adding, promised>>

\* Faulty variant of DidFinishAnimating: the page that appeared is cancelled.
DidFinishAnimatingCancelsNew(a) ==
    /\ InViewer
    /\ a # viewer
    /\ viewer' = a
    /\ spare' = (spare \ {a}) \cup {viewer}
    /\ RequestPage(a)
    /\ inFlight' = inFlight \cup {[r EXCEPT !.cancelled = r.id = issued + 2] : r \in PageRequests(a)}
    /\ flag' = [flag EXCEPT ![a] = TRUE]
    /\ gone' = gone \cup {viewer}
    /\ UNCHANGED <<selected, open, doneVars, lateVars>>

\* A swipe shows another page, with the controller that waited beside the page
\* if there was one, and cancels the requests of the page that went away. It may
\* have been under way when Done selected the page that now goes.
DidFinishAnimating(a) ==
    /\ \/ InViewer /\ held' = held
       \/ Late("swipe") /\ viewer # NoAsset /\ held' = "nothing"
    /\ a # viewer
    /\ viewer' = a
    /\ \E pages \in SUBSET (Assets \ {a}) : spare' = (spare \ {a}) \cup {viewer} \cup pages
    /\ RequestPage(a)
    /\ inFlight' = Cancelled(viewer, inFlight) \cup PageRequests(a)
    /\ MarkCancelled(viewer)
    /\ gone' = gone \cup {viewer}
    /\ UNCHANGED <<selected, open, doneVars, adding, promised>>

CloseViewer ==
    /\ viewer' = NoAsset
    /\ spare' = spare \cup {viewer}

\* Faulty variant of OnTapClose: a viewer that has gone is closed again.
OnTapCloseTwice ==
    /\ Browsing
    /\ CloseViewer
    /\ UNCHANGED <<selected, open, requestVars, doneVars, lateVars>>

OnTapClose ==
    /\ InViewer
    /\ CloseViewer
    /\ UNCHANGED <<selected, open, requestVars, doneVars, lateVars>>

\* An image controller that is freed cancels the requests of its photo, also
\* those that somebody else made.
Deinit(a) ==
    /\ a \in spare
    /\ spare' = spare \ {a}
    /\ inFlight' = Cancelled(a, inFlight)
    /\ MarkCancelled(a)
    /\ gone' = gone \cup {a}
    /\ UNCHANGED <<selected, viewer, open, issued, latest, doneVars, lateVars>>

OnTapCancel ==
    /\ OnGrid
    /\ open' = FALSE
    /\ UNCHANGED <<selected, viewer, spare, requestVars, doneVars, lateVars>>

-----------------------------------------------------------------------------
(* Done: processDetermination.                                             *)

\* On the grid the button is there when something is selected; in the viewer
\* it selects the photo on the page first.
OnTapDone ==
    /\ \/ /\ OnGrid
          /\ selected # {}
          /\ UNCHANGED selected
          /\ held' \in {"nothing"} \cup (MayHold \cap GridControls)
       \/ /\ InViewer
          /\ selected' = {viewer}
          /\ held' \in {"nothing"} \cup (MayHold \cap ViewerControls)
    /\ phase' = "queued"
    /\ promised' = selected'
    /\ UNCHANGED <<viewer, spare, open, requestVars, chosen, todo, assigning, dict, stuck, adding>>

\* The other finger is lifted from a button behind the overlay.
ReleaseButton ==
    /\ \/ Late("cancel") /\ open' = FALSE /\ UNCHANGED <<viewer, spare>>
       \/ Late("back") /\ CloseViewer /\ UNCHANGED open
    /\ held' = "nothing"
    /\ UNCHANGED <<selected, requestVars, doneVars, adding, promised>>

\* It is lifted from the mark of a photo: a selected photo is unselected; for any
\* other the main queue unselects what was selected and then sets the photo.
ReleaseMark(a) ==
    /\ Late(a)
    /\ held' = "nothing"
    /\ \/ /\ a \in selected
          /\ selected' = selected \ {a}
          /\ UNCHANGED adding
       \/ /\ a \notin selected
          /\ selected' = Remaining
          /\ adding' = a
    /\ promised' = IF phase = "queued" THEN {} ELSE promised
    /\ UNCHANGED <<viewer, spare, open, requestVars, doneVars>>

SetSelected ==
    /\ adding # NoAsset
    /\ selected' = selected \cup {adding}
    /\ adding' = NoAsset
    /\ UNCHANGED <<viewer, spare, open, requestVars, doneVars, held, promised>>

\* The background queue reads the selection as it is by then.
GetSelectedPhotos ==
    /\ phase = "queued"
    /\ phase' = "requesting"
    /\ chosen' = selected
    /\ todo' = selected
    /\ UNCHANGED <<browsingVars, requestVars, assigning, dict, stuck, lateVars>>

RequestFullSizePhoto(a) ==
    /\ a \in todo
    /\ assigning = {}
    /\ issued < MaxRequests
    /\ todo' = todo \ {a}
    /\ issued' = issued + 1
    /\ inFlight' = inFlight \cup {Request(issued + 1, a, "done")}
    /\ assigning' = {<<a, issued + 1>>}
    /\ UNCHANGED <<browsingVars, latest, flag, gone, phase, chosen, dict, stuck, lateVars>>

\* The id is stored when the call returns; the answer may have come before.
StoreRequestId ==
    /\ \E a \in Assets, n \in Ids :
          /\ assigning = {<<a, n>>}
          /\ latest' = [latest EXCEPT ![a] = n]
    /\ assigning' = {}
    /\ UNCHANGED <<browsingVars, inFlight, issued, flag, gone, phase, chosen, todo, dict,
                   stuck, lateVars>>

\* The library calls back, ok when it has the photo. A determination leaves its
\* group only for a photo: without one it waits for ever.
Answer(r, ok) ==
    /\ r \in inFlight
    /\ inFlight' = inFlight \ {r}
    /\ latest' = [latest EXCEPT ![r.asset] = 0]
    /\ flag' = [flag EXCEPT ![r.asset] = FALSE]
    /\ \/ /\ r.for = "view"
          /\ UNCHANGED <<dict, stuck>>
       \/ /\ r.for = "done"
          /\ IsGiven(r, ok)
          /\ dict' = dict \cup {r.asset}
          /\ UNCHANGED stuck
       \/ /\ r.for = "done"
          /\ ~IsGiven(r, ok)
          /\ stuck' = IF flag[r.asset] THEN "flag" ELSE "library"
          /\ UNCHANGED dict
    /\ UNCHANGED <<browsingVars, issued, gone, phase, chosen, todo, assigning, lateVars>>

\* A request that was cancelled may also stay without an answer.
Forget(r) ==
    /\ r \in inFlight
    /\ r.cancelled
    /\ inFlight' = inFlight \ {r}
    /\ stuck' = IF r.for = "done" THEN "cancelled" ELSE stuck
    /\ UNCHANGED <<browsingVars, issued, latest, flag, gone, phase, chosen, todo,
                   assigning, dict, lateVars>>

\* Faulty variants of Deliver: the group is left when the calls return; or the
\* main queue serves the delivery only when no finger is down.
DeliverAtOnce ==
    /\ phase = "requesting"
    /\ todo = {}
    /\ assigning = {}
    /\ phase' = "delivered"
    /\ open' = FALSE
    /\ viewer' = NoAsset
    /\ UNCHANGED <<selected, spare, requestVars, chosen, todo, assigning, dict, stuck, lateVars>>

DeliverUntouched ==
    /\ held = "nothing" /\ adding = NoAsset
    /\ phase = "requesting"
    /\ todo = {}
    /\ assigning = {}
    /\ stuck = "no"
    /\ \A r \in inFlight : r.for # "done"
    /\ phase' = "delivered"
    /\ open' = FALSE
    /\ viewer' = NoAsset
    /\ UNCHANGED <<selected, spare, requestVars, chosen, todo, assigning, dict, stuck, lateVars>>

\* multiTask.wait() returns, the overlay goes and the delegate dismisses all, on
\* the main queue and therefore not in the middle of a selection.
Deliver ==
    /\ adding = NoAsset
    /\ phase = "requesting"
    /\ todo = {}
    /\ assigning = {}
    /\ stuck = "no"
    /\ \A r \in inFlight : r.for # "done"
    /\ phase' = "delivered"
    /\ open' = FALSE
    /\ viewer' = NoAsset
    /\ UNCHANGED <<selected, spare, requestVars, chosen, todo, assigning, dict, stuck, lateVars>>

AnswerOf(n) == \E r \in inFlight : r.id = n /\ \E ok \in BOOLEAN : Answer(r, ok)

Next ==
    \/ \E a \in Assets : OnTapSelect(a) \/ DidSelectItem(a) \/ DidFinishAnimating(a) \/ Deinit(a)
    \/ OnTapClose
    \/ OnTapCancel
    \/ OnTapDone
    \/ ReleaseButton
    \/ \E a \in Assets : ReleaseMark(a)
    \/ SetSelected
    \/ GetSelectedPhotos
    \/ \E a \in Assets : RequestFullSizePhoto(a)
    \/ StoreRequestId
    \/ \E n \in Ids : AnswerOf(n)
    \/ \E r \in inFlight : Forget(r)
    \/ Deliver

Spec == Init /\ [][Next]_vars

\* The queues run, and the library answers what nobody cancelled.
FairSpec ==
    /\ Spec
    /\ WF_vars(SetSelected)
    /\ WF_vars(GetSelectedPhotos)
    /\ WF_vars(\E a \in Assets : RequestFullSizePhoto(a))
    /\ WF_vars(StoreRequestId)
    /\ \A n \in Ids : WF_vars(AnswerOf(n))
    /\ WF_vars(Deliver)

-----------------------------------------------------------------------------
(* Properties.                                                             *)

\* "In Single selection mode, it will remove all the previous selection and add
\* new photo": though the other queue may read the selection while a late finger
\* changes it, it reads one photo at most, and it reads the photo that was selected
\* when Done was tapped unless that finger was lifted from a photo first. An empty
\* pick, or one of another photo, reaches the app in no other way.
AtMostOne(S) == \A a, b \in S : a = b
SingleSelection ==
    /\ AtMostOne(selected) /\ AtMostOne(chosen)
    /\ phase \in {"requesting", "delivered"} => promised \subseteq chosen

\* A result is never partial: it holds every photo that the determination read,
\* and a determination that a photo failed to reach delivers nothing.
DeliversAllChosen == phase = "delivered" => dict = chosen

\* The flag denies a determination its photo only when the user had the page of
\* that photo on screen and left it, or its controller was freed: a photo that
\* was only selected on the grid, or whose page was never left, is not denied.
FlagOnlyAfterPage == stuck = "flag" => chosen \cap gone # {}

\* Every Done ends in a delivery, or a photo it needs was refused or cancelled;
\* requests for pages, late touches and freed controllers do not delay it.
EveryDoneEnds ==
    phase = "queued" ~> phase = "delivered" \/ stuck # "no"

\* "Indicates whether the request for the full size image was canceled.": the
\* flag denies Done its photo only when Done's own request was cancelled.
FlagMeansCancelled ==
    [][\A r \in inFlight \ inFlight' :
          r.for = "done" /\ flag[r.asset] /\ ~flag'[r.asset] => r.cancelled]_vars
===============================================================================
