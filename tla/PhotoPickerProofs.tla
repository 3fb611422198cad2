-------------------------- MODULE PhotoPickerProofs ---------------------------
(***************************************************************************)
(* Proofs about PhotoPicker for any photos, late touches and bound on      *)
(* requests: one photo at most is delivered, and that of Done unless a     *)
(* late touch replaced it; a delivery is complete; and a photo is denied   *)
(* to Done by the flag only after its page was left or freed.              *)
(***************************************************************************)
EXTENDS PhotoPicker, TLAPS

ForDone == {r \in inFlight : r.for = "done"}

\* Before the determination reads the selection it has nothing to wait for.
NothingBefore ==
    phase \in {"browsing", "queued"} =>
        chosen = {} /\ todo = {} /\ dict = {} /\ ForDone = {} /\ stuck = "no"

\* The determination requests and gets nothing but what it read.
OnlyChosen ==
    /\ todo \subseteq chosen
    /\ dict \subseteq chosen
    /\ \A r \in ForDone : r.asset \in chosen

\* As long as nothing was refused, each photo it read is still to be requested,
\* on its way or there: none is forgotten between two of these.
ChosenIsAccounted ==
    stuck = "no" =>
        \A a \in chosen : a \in todo \/ a \in dict \/ \E r \in ForDone : r.asset = a

\* Whatever is answered after the delivery, it was asked for a page.
NothingAfter == phase = "delivered" => todo = {} /\ ForDone = {} /\ dict = chosen

\* The flag is set for a photo whose page was swiped away or freed only.
FlagIsOfGone == \A a \in Assets : flag[a] => a \in gone

\* Fingers that stay down count from Done on, and one on the back button is on a
\* page that is there until it is lifted.
BackIsOnPage ==
    /\ phase = "browsing" => held = "nothing"
    /\ held = "back" /\ phase # "delivered" => viewer # NoAsset

\* While a late finger replaces the selection, nothing is selected and no other
\* finger is down.
AddingIsAlone ==
    adding # NoAsset => selected = {} /\ phase # "browsing" /\ held = "nothing"

\* Until it is read, the selection is that of Done, or a finger took that back.
PromisedIsSelected == phase = "queued" => promised \subseteq selected

PickerInv ==
    /\ TypeOK
    /\ SingleSelection
    /\ NothingBefore
    /\ OnlyChosen
    /\ ChosenIsAccounted
    /\ NothingAfter
    /\ FlagIsOfGone
    /\ FlagOnlyAfterPage
    /\ BackIsOnPage
    /\ AddingIsAlone
    /\ PromisedIsSelected

LEMMA InitPickerInv == Init => PickerInv
<1> SUFFICES ASSUME Init PROVE PickerInv
  OBVIOUS
<1>1. TypeOK
  BY PickerAssumption DEF Init, TypeOK
<1>2. BackIsOnPage /\ FlagIsOfGone /\ FlagOnlyAfterPage
  BY DEF Init, BackIsOnPage, FlagIsOfGone, FlagOnlyAfterPage
<1> QED
  BY <1>1, <1>2
     DEF Init, PickerInv, AddingIsAlone, PromisedIsSelected, SingleSelection, AtMostOne, NothingBefore, OnlyChosen,
         ChosenIsAccounted, NothingAfter, ForDone

-----------------------------------------------------------------------------
(* Requests.                                                               *)

\* Cancelling marks requests: it neither makes nor answers any.
LEMMA CancelledKeeps ==
    ASSUME inFlight \subseteq Requests, NEW a
    PROVE  /\ Cancelled(a, inFlight) \subseteq Requests
           /\ \A r \in Cancelled(a, inFlight) :
                 \E q \in inFlight : q.asset = r.asset /\ q.for = r.for
           /\ \A q \in inFlight :
                 \E r \in Cancelled(a, inFlight) : q.asset = r.asset /\ q.for = r.for
<1> DEFINE mark(q) == IF q.asset = a /\ q.id = latest[a] THEN [q EXCEPT !.cancelled = TRUE] ELSE q
<1>1. \A q \in inFlight : mark(q) \in Requests /\ mark(q).asset = q.asset /\ mark(q).for = q.for
  BY DEF Requests
<1>2. Cancelled(a, inFlight) = {mark(q) : q \in inFlight}
  BY DEF Cancelled
<1> HIDE DEF mark
<1> QED
  BY <1>1, <1>2

\* What a page that appears asks for.
LEMMA PageAsks ==
    ASSUME TypeOK, NEW a \in Assets, RequestPage(a)
    PROVE  /\ PageRequests(a) \subseteq Requests
           /\ \A r \in PageRequests(a) : r.for = "view"
           /\ issued' \in 0 .. MaxRequests
           /\ latest' \in [Assets -> 0 .. MaxRequests]
<1>1. issued + 1 \in Ids /\ issued + 2 \in Ids /\ issued + 2 \in 0 .. MaxRequests
  BY PickerAssumption DEF TypeOK, RequestPage, Ids
<1> QED
  BY <1>1 DEF TypeOK, RequestPage, PageRequests, Request, Requests

\* The determination does not notice requests that are made for pages, nor
\* marks on its own: the same photos are on their way to it.
LEMMA SameForDone ==
    ASSUME PickerInv,
           UNCHANGED <<phase, chosen, todo, dict, stuck>>,
           \A r \in ForDone' : \E q \in ForDone : q.asset = r.asset,
           \A q \in ForDone : \E r \in ForDone' : q.asset = r.asset
    PROVE  (NothingBefore /\ OnlyChosen /\ ChosenIsAccounted /\ NothingAfter)'
<1> USE DEF PickerInv
<1>1. NothingBefore'
  BY DEF NothingBefore
<1>2. OnlyChosen'
  BY DEF OnlyChosen
<1>3. ChosenIsAccounted'
  BY DEF ChosenIsAccounted
<1>4. NothingAfter'
  BY DEF NothingAfter
<1> QED
  BY <1>1, <1>2, <1>3, <1>4

\* A photo that leaves the screen is flagged and remembered.
LEMMA FlagsWhatLeaves ==
    ASSUME PickerInv, NEW a \in Assets, MarkCancelled(a), gone' = gone \cup {a},
           UNCHANGED <<stuck, chosen>>
    PROVE  FlagIsOfGone' /\ FlagOnlyAfterPage' /\ flag' \in [Assets -> BOOLEAN]
<1>1. \A b \in Assets : b # a => flag'[b] = flag[b]
  BY DEF PickerInv, TypeOK, MarkCancelled
<1>2. FlagIsOfGone'
  BY <1>1 DEF PickerInv, FlagIsOfGone
<1>3. FlagOnlyAfterPage'
  BY DEF PickerInv, FlagOnlyAfterPage
<1>4. flag' \in [Assets -> BOOLEAN]
  BY DEF PickerInv, TypeOK, MarkCancelled
<1> QED
  BY <1>2, <1>3, <1>4

-----------------------------------------------------------------------------
(* Browsing.                                                               *)

LEMMA OnTapSelectStep ==
    ASSUME PickerInv, NEW a \in Assets, OnTapSelect(a)
    PROVE  PickerInv'
<1> USE DEF PickerInv
<1>1. /\ UNCHANGED <<viewer, spare, open, requestVars, doneVars, lateVars>>
      /\ selected' = IF a \in selected THEN selected \ {a} ELSE {a}
      /\ phase = "browsing"
  BY DEF OnTapSelect, Remaining, OnGrid, Browsing
<1>2. selected' \subseteq Assets /\ AtMostOne(selected')
  BY <1>1 DEF TypeOK, SingleSelection, AtMostOne
<1>3. TypeOK'
  BY <1>1, <1>2 DEF TypeOK, requestVars, doneVars, lateVars
<1>4. SingleSelection'
  BY <1>1, <1>2 DEF SingleSelection, doneVars, lateVars
<1>5. (NothingBefore /\ OnlyChosen /\ ChosenIsAccounted /\ NothingAfter)'
  BY <1>1, SameForDone DEF ForDone, requestVars, doneVars
<1>6. AddingIsAlone' /\ PromisedIsSelected'
  BY <1>1 DEF AddingIsAlone, PromisedIsSelected, doneVars, lateVars
<1> QED
  BY <1>1, <1>3, <1>4, <1>5, <1>6
     DEF FlagIsOfGone, FlagOnlyAfterPage, BackIsOnPage, requestVars, doneVars, lateVars

LEMMA DidSelectItemStep ==
    ASSUME PickerInv, NEW a \in Assets, DidSelectItem(a)
    PROVE  PickerInv'
<1> USE DEF PickerInv
<1>1. /\ viewer' = a /\ spare' \subseteq Assets
      /\ inFlight' = inFlight \cup PageRequests(a)
      /\ UNCHANGED <<selected, open, flag, gone, doneVars, adding, promised>>
      /\ held' \in {held, "nothing"}
  BY DEF DidSelectItem, TypeOK
<1>2. /\ PageRequests(a) \subseteq Requests
      /\ \A r \in PageRequests(a) : r.for = "view"
      /\ issued' \in 0 .. MaxRequests
      /\ latest' \in [Assets -> 0 .. MaxRequests]
  BY PageAsks DEF DidSelectItem
<1>3. TypeOK'
  BY <1>1, <1>2 DEF TypeOK, doneVars
<1>4. ForDone' = ForDone
  BY <1>1, <1>2 DEF ForDone
<1>5. (NothingBefore /\ OnlyChosen /\ ChosenIsAccounted /\ NothingAfter)'
  BY <1>1, <1>4, SameForDone DEF doneVars
<1>6. SingleSelection' /\ FlagIsOfGone' /\ FlagOnlyAfterPage'
  BY <1>1 DEF SingleSelection, FlagIsOfGone, FlagOnlyAfterPage, doneVars
<1>7. BackIsOnPage' /\ AddingIsAlone' /\ PromisedIsSelected'
  BY <1>1, PickerAssumption DEF BackIsOnPage, AddingIsAlone, PromisedIsSelected, doneVars
<1> QED
  BY <1>3, <1>5, <1>6, <1>7

\* A mark on requests in flight, some more for pages.
LEMMA CancelledForDone ==
    ASSUME PickerInv, NEW a, NEW more, \A r \in more : r.for = "view",
           inFlight' = Cancelled(a, inFlight) \cup more
    PROVE  /\ \A r \in ForDone' : \E q \in ForDone : q.asset = r.asset
           /\ \A q \in ForDone : \E r \in ForDone' : q.asset = r.asset
<1>1. /\ \A r \in Cancelled(a, inFlight) :
            \E q \in inFlight : q.asset = r.asset /\ q.for = r.for
      /\ \A q \in inFlight :
            \E r \in Cancelled(a, inFlight) : q.asset = r.asset /\ q.for = r.for
  BY CancelledKeeps DEF PickerInv, TypeOK
<1> QED
  BY <1>1 DEF ForDone

LEMMA DidFinishAnimatingStep ==
    ASSUME PickerInv, NEW a \in Assets, DidFinishAnimating(a)
    PROVE  PickerInv'
<1> USE DEF PickerInv
<1>1. viewer \in Assets
  BY DEF DidFinishAnimating, InViewer, TypeOK
<1>2. /\ viewer' = a /\ spare' \subseteq Assets
      /\ inFlight' = Cancelled(viewer, inFlight) \cup PageRequests(a)
      /\ MarkCancelled(viewer)
      /\ gone' = gone \cup {viewer}
      /\ UNCHANGED <<selected, open, doneVars, adding, promised>>
      /\ held' \in {held, "nothing"}
  BY <1>1 DEF DidFinishAnimating, TypeOK
<1>3. /\ PageRequests(a) \subseteq Requests
      /\ \A r \in PageRequests(a) : r.for = "view"
      /\ issued' \in 0 .. MaxRequests
      /\ latest' \in [Assets -> 0 .. MaxRequests]
  BY PageAsks DEF DidFinishAnimating
<1>4. FlagIsOfGone' /\ FlagOnlyAfterPage' /\ flag' \in [Assets -> BOOLEAN]
  BY <1>1, <1>2, FlagsWhatLeaves DEF doneVars
<1>5. Cancelled(viewer, inFlight) \subseteq Requests
  BY CancelledKeeps DEF TypeOK
<1>6. TypeOK'
  BY <1>1, <1>2, <1>3, <1>4, <1>5 DEF TypeOK, doneVars
<1>7. (NothingBefore /\ OnlyChosen /\ ChosenIsAccounted /\ NothingAfter)'
  BY <1>2, <1>3, CancelledForDone, SameForDone DEF doneVars
<1>8. SingleSelection' /\ BackIsOnPage' /\ AddingIsAlone' /\ PromisedIsSelected'
  BY <1>2, PickerAssumption
     DEF SingleSelection, BackIsOnPage, AddingIsAlone, PromisedIsSelected, doneVars
<1> QED
  BY <1>4, <1>6, <1>7, <1>8

LEMMA DeinitStep ==
    ASSUME PickerInv, NEW a \in Assets, Deinit(a)
    PROVE  PickerInv'
<1> USE DEF PickerInv
<1>1. /\ spare' \subseteq spare
      /\ inFlight' = Cancelled(a, inFlight)
      /\ MarkCancelled(a)
      /\ gone' = gone \cup {a}
      /\ UNCHANGED <<selected, viewer, open, issued, latest, doneVars, lateVars>>
  BY DEF Deinit
<1>2. FlagIsOfGone' /\ FlagOnlyAfterPage' /\ flag' \in [Assets -> BOOLEAN]
  BY <1>1, FlagsWhatLeaves DEF doneVars
<1>3. Cancelled(a, inFlight) \subseteq Requests
  BY CancelledKeeps DEF TypeOK
<1>4. TypeOK'
  BY <1>1, <1>2, <1>3 DEF TypeOK, doneVars, lateVars
<1>5. /\ \A r \in ForDone' : \E q \in ForDone : q.asset = r.asset
      /\ \A q \in ForDone : \E r \in ForDone' : q.asset = r.asset
  <2>1. inFlight \subseteq Requests /\ inFlight' = Cancelled(a, inFlight)
    BY <1>1 DEF TypeOK
  <2> QED
    BY <2>1, CancelledKeeps DEF ForDone
<1>6. (NothingBefore /\ OnlyChosen /\ ChosenIsAccounted /\ NothingAfter)'
  BY <1>1, <1>5, SameForDone DEF doneVars
<1>7. SingleSelection' /\ BackIsOnPage' /\ AddingIsAlone' /\ PromisedIsSelected'
  BY <1>1 DEF SingleSelection, BackIsOnPage, AddingIsAlone, PromisedIsSelected, doneVars, lateVars
<1> QED
  BY <1>2, <1>4, <1>6, <1>7

\* Closing the viewer or the picker, with no finger left on the back button.
LEMMA CloseStep ==
    ASSUME PickerInv, OnTapClose \/ OnTapCancel
    PROVE  PickerInv'
<1> USE DEF PickerInv
<1>1. /\ UNCHANGED <<selected, requestVars, doneVars, lateVars>>
      /\ open' \in BOOLEAN /\ spare' \subseteq Assets
      /\ viewer' \in Assets \cup {NoAsset}
  BY DEF OnTapClose, OnTapCancel, CloseViewer, InViewer, TypeOK
<1>2. TypeOK'
  BY <1>1 DEF TypeOK, requestVars, lateVars, doneVars, lateVars
<1>3. (NothingBefore /\ OnlyChosen /\ ChosenIsAccounted /\ NothingAfter)'
  BY <1>1, SameForDone DEF ForDone, requestVars, doneVars
<1>4. BackIsOnPage' /\ AddingIsAlone' /\ PromisedIsSelected'
  BY <1>1 DEF BackIsOnPage, AddingIsAlone, PromisedIsSelected, OnTapClose, OnTapCancel, OnGrid,
              InViewer, Browsing, doneVars, lateVars
<1> QED
  BY <1>1, <1>2, <1>3, <1>4
     DEF FlagIsOfGone, FlagOnlyAfterPage, SingleSelection, requestVars, doneVars, lateVars

-----------------------------------------------------------------------------
(* Done.                                                                   *)

LEMMA OnTapDoneStep ==
    ASSUME PickerInv, OnTapDone
    PROVE  PickerInv'
<1> USE DEF PickerInv
<1>1. /\ phase = "browsing" /\ phase' = "queued"
      /\ UNCHANGED <<viewer, spare, open, requestVars, chosen, todo, assigning, dict, stuck>>
      /\ selected' = selected \/ (viewer \in Assets /\ selected' = {viewer})
      /\ promised' = selected' /\ adding' = adding
      /\ held' \in {"nothing"} \cup GridControls \cup ViewerControls
      /\ held' = "back" => viewer # NoAsset
  BY PickerAssumption
     DEF OnTapDone, OnGrid, InViewer, Browsing, GridControls, ViewerControls, TypeOK
<1>2. selected' \subseteq Assets /\ AtMostOne(selected')
  BY <1>1 DEF SingleSelection, AtMostOne, TypeOK
<1>3. TypeOK'
  BY <1>1, <1>2 DEF TypeOK, requestVars, lateVars
<1>4. (NothingBefore /\ OnlyChosen /\ ChosenIsAccounted /\ NothingAfter)'
  BY <1>1 DEF NothingBefore, OnlyChosen, ChosenIsAccounted, NothingAfter, ForDone, requestVars
<1> QED
  BY <1>1, <1>2, <1>3, <1>4
     DEF SingleSelection, FlagIsOfGone, FlagOnlyAfterPage, BackIsOnPage, AddingIsAlone,
         PromisedIsSelected, lateVars, requestVars

\* A late finger on a button leaves the selection alone.
LEMMA ReleaseButtonStep ==
    ASSUME PickerInv, ReleaseButton
    PROVE  PickerInv'
<1> USE DEF PickerInv
<1>1. /\ UNCHANGED <<selected, requestVars, doneVars, adding, promised>>
      /\ held' = "nothing"
      /\ phase \in {"queued", "requesting"}
  BY DEF ReleaseButton, Late
<1>2. viewer' \in Assets \cup {NoAsset} /\ spare' \subseteq Assets /\ open' \in BOOLEAN
  <2>1. CASE open' = FALSE /\ UNCHANGED <<viewer, spare>>
    BY <2>1 DEF TypeOK
  <2>2. CASE held = "back" /\ CloseViewer /\ UNCHANGED open
    <3>1. viewer \in Assets
      BY <1>1, <2>2 DEF BackIsOnPage, TypeOK
    <3> QED
      BY <2>2, <3>1 DEF TypeOK, CloseViewer
  <2> QED
    BY <2>1, <2>2 DEF ReleaseButton, Late
<1>3. TypeOK'
  BY <1>1, <1>2 DEF TypeOK, requestVars, doneVars
<1>4. (NothingBefore /\ OnlyChosen /\ ChosenIsAccounted /\ NothingAfter)'
  BY <1>1, SameForDone DEF ForDone, requestVars, doneVars
<1> QED
  BY <1>1, <1>3, <1>4
     DEF SingleSelection, FlagIsOfGone, FlagOnlyAfterPage, BackIsOnPage, AddingIsAlone,
         PromisedIsSelected, requestVars, doneVars

\* One on a mark may unselect what Done promised, but adds nothing to it.
LEMMA ReleaseMarkStep ==
    ASSUME PickerInv, NEW a \in Assets, ReleaseMark(a)
    PROVE  PickerInv'
<1> USE DEF PickerInv
<1>1. /\ UNCHANGED <<viewer, spare, open, requestVars, doneVars>>
      /\ held' = "nothing"
      /\ phase \in {"queued", "requesting"}
      /\ promised' = IF phase = "queued" THEN {} ELSE promised
      /\ \/ selected' = selected \ {a} /\ adding' = adding
         \/ selected' = {} /\ adding' = a
  BY DEF ReleaseMark, Remaining, Late
<1>2. held # "nothing"
  BY PickerAssumption DEF ReleaseMark, Late
<1>3. adding = NoAsset
  BY <1>2 DEF AddingIsAlone
<1>4. TypeOK'
  BY <1>1 DEF TypeOK, requestVars, doneVars
<1>5. (NothingBefore /\ OnlyChosen /\ ChosenIsAccounted /\ NothingAfter)'
  BY <1>1, SameForDone DEF ForDone, requestVars, doneVars
<1>6. SingleSelection'
  BY <1>1 DEF SingleSelection, AtMostOne, doneVars
<1>7. AddingIsAlone' /\ PromisedIsSelected'
  BY <1>1, <1>3 DEF AddingIsAlone, PromisedIsSelected, doneVars
<1> QED
  BY <1>1, <1>4, <1>5, <1>6, <1>7
     DEF FlagIsOfGone, FlagOnlyAfterPage, BackIsOnPage, requestVars, doneVars

\* The photo is added to an empty selection.
LEMMA SetSelectedStep ==
    ASSUME PickerInv, SetSelected
    PROVE  PickerInv'
<1> USE DEF PickerInv
<1>1. /\ UNCHANGED <<viewer, spare, open, requestVars, doneVars, held, promised>>
      /\ adding \in Assets /\ adding' = NoAsset
      /\ selected = {} /\ selected' = {adding}
  BY DEF SetSelected, AddingIsAlone, TypeOK
<1>2. TypeOK'
  BY <1>1 DEF TypeOK, requestVars, doneVars
<1>3. (NothingBefore /\ OnlyChosen /\ ChosenIsAccounted /\ NothingAfter)'
  BY <1>1, SameForDone DEF ForDone, requestVars, doneVars
<1>4. SingleSelection'
  BY <1>1 DEF SingleSelection, AtMostOne, doneVars
<1> QED
  BY <1>1, <1>2, <1>3, <1>4
     DEF FlagIsOfGone, FlagOnlyAfterPage, BackIsOnPage, AddingIsAlone, PromisedIsSelected,
         requestVars, doneVars

LEMMA GetSelectedPhotosStep ==
    ASSUME PickerInv, GetSelectedPhotos
    PROVE  PickerInv'
<1> USE DEF PickerInv
<1>1. /\ phase = "queued" /\ phase' = "requesting"
      /\ chosen' = selected /\ todo' = selected
      /\ UNCHANGED <<browsingVars, requestVars, assigning, dict, stuck, lateVars>>
  BY DEF GetSelectedPhotos
<1>2. TypeOK'
  BY <1>1 DEF TypeOK, browsingVars, lateVars, requestVars
<1>3. dict = {} /\ ForDone' = {} /\ stuck = "no"
  BY <1>1 DEF NothingBefore, ForDone, requestVars
<1>4. (NothingBefore /\ OnlyChosen /\ ChosenIsAccounted /\ NothingAfter)'
  BY <1>1, <1>3 DEF NothingBefore, OnlyChosen, ChosenIsAccounted, NothingAfter
<1> QED
  BY <1>1, <1>2, <1>3, <1>4
     DEF SingleSelection, FlagIsOfGone, FlagOnlyAfterPage, BackIsOnPage, AddingIsAlone,
         PromisedIsSelected, lateVars, browsingVars, requestVars

LEMMA RequestFullSizePhotoStep ==
    ASSUME PickerInv, NEW a \in Assets, RequestFullSizePhoto(a)
    PROVE  PickerInv'
<1> USE DEF PickerInv
<1> DEFINE asked == Request(issued + 1, a, "done")
<1>1. /\ a \in todo /\ todo' = todo \ {a}
      /\ inFlight' = inFlight \cup {asked}
      /\ issued' = issued + 1
      /\ assigning' = {<<a, issued + 1>>}
      /\ UNCHANGED <<browsingVars, latest, flag, gone, phase, chosen, dict, stuck, lateVars>>
  BY DEF RequestFullSizePhoto
<1>2. issued + 1 \in Ids /\ issued + 1 \in 0 .. MaxRequests
  BY PickerAssumption DEF RequestFullSizePhoto, TypeOK, Ids
<1>3. asked \in Requests /\ asked.asset = a /\ asked.for = "done"
  BY <1>2 DEF Request, Requests
<1> HIDE DEF asked
<1>4. TypeOK'
  BY <1>1, <1>2, <1>3 DEF TypeOK, browsingVars, lateVars
<1>5. ForDone' = ForDone \cup {asked}
  BY <1>1, <1>3 DEF ForDone
<1>6. phase = "requesting" /\ a \in chosen
  BY <1>1 DEF NothingBefore, NothingAfter, OnlyChosen, TypeOK
<1>7. OnlyChosen'
  BY <1>1, <1>3, <1>5, <1>6 DEF OnlyChosen
<1>8. ChosenIsAccounted'
  BY <1>1, <1>3, <1>5 DEF ChosenIsAccounted
<1>9. NothingBefore' /\ NothingAfter'
  BY <1>1, <1>6 DEF NothingBefore, NothingAfter
<1> QED
  BY <1>1, <1>4, <1>7, <1>8, <1>9
     DEF SingleSelection, FlagIsOfGone, FlagOnlyAfterPage, BackIsOnPage, AddingIsAlone,
         PromisedIsSelected, lateVars, browsingVars

LEMMA StoreRequestIdStep ==
    ASSUME PickerInv, StoreRequestId
    PROVE  PickerInv'
<1> USE DEF PickerInv
<1>1. /\ assigning' = {}
      /\ UNCHANGED <<browsingVars, inFlight, issued, flag, gone, phase, chosen, todo, dict,
                     stuck, lateVars>>
  BY DEF StoreRequestId
<1>2. latest' \in [Assets -> 0 .. MaxRequests]
  BY PickerAssumption DEF StoreRequestId, TypeOK, Ids
<1>3. TypeOK'
  BY <1>1, <1>2 DEF TypeOK, browsingVars, lateVars
<1>4. (NothingBefore /\ OnlyChosen /\ ChosenIsAccounted /\ NothingAfter)'
  BY <1>1, SameForDone DEF ForDone
<1> QED
  BY <1>1, <1>3, <1>4
     DEF SingleSelection, FlagIsOfGone, FlagOnlyAfterPage, BackIsOnPage, AddingIsAlone,
         PromisedIsSelected, lateVars, browsingVars

\* A request of the determination belongs to a photo that it read.
LEMMA DoneIsOfChosen ==
    ASSUME PickerInv, NEW r \in inFlight, r.for = "done"
    PROVE  phase = "requesting" /\ r.asset \in chosen
BY DEF PickerInv, TypeOK, NothingBefore, NothingAfter, OnlyChosen, ForDone

LEMMA AnswerStep ==
    ASSUME PickerInv, NEW r \in inFlight, NEW ok \in BOOLEAN, Answer(r, ok)
    PROVE  PickerInv'
<1> USE DEF PickerInv
<1>1. /\ inFlight' = inFlight \ {r}
      /\ UNCHANGED <<browsingVars, issued, gone, phase, chosen, todo, assigning, lateVars>>
  BY DEF Answer
<1>2. r \in Requests /\ r.asset \in Assets
  BY DEF TypeOK, Requests
<1>3. /\ latest' \in [Assets -> 0 .. MaxRequests]
      /\ flag' \in [Assets -> BOOLEAN]
      /\ \A a \in Assets : flag'[a] => flag[a]
  <2>1. /\ latest' = [latest EXCEPT ![r.asset] = 0]
        /\ flag' = [flag EXCEPT ![r.asset] = FALSE]
    BY DEF Answer
  <2>2. latest' \in [Assets -> 0 .. MaxRequests]
    <3>1. 0 \in 0 .. MaxRequests
      BY PickerAssumption
    <3>2. latest \in [Assets -> 0 .. MaxRequests]
      BY DEF TypeOK
    <3> QED
      BY <2>1, <3>1, <3>2
  <2>3. flag' \in [Assets -> BOOLEAN]
    BY <2>1 DEF TypeOK
  <2>4. ASSUME NEW a \in Assets, flag'[a] PROVE flag[a]
    BY <1>2, <2>1, <2>4 DEF TypeOK
  <2> QED
    BY <2>2, <2>3, <2>4
<1>4. CASE r.for = "view" /\ UNCHANGED <<dict, stuck>>
  <2>1. ForDone' = ForDone
    BY <1>1, <1>4 DEF ForDone
  <2>2. TypeOK'
    BY <1>1, <1>3, <1>4 DEF TypeOK, browsingVars, lateVars
  <2>3. (NothingBefore /\ OnlyChosen /\ ChosenIsAccounted /\ NothingAfter)'
    BY <1>1, <1>4, <2>1, SameForDone
  <2> QED
    BY <1>1, <1>3, <1>4, <2>2, <2>3
       DEF SingleSelection, FlagIsOfGone, FlagOnlyAfterPage, BackIsOnPage, AddingIsAlone,
         PromisedIsSelected, lateVars, browsingVars
<1>5. CASE r.for = "done" /\ dict' = dict \cup {r.asset} /\ UNCHANGED stuck
  <2>1. ForDone' = ForDone \ {r}
    BY <1>1 DEF ForDone
  <2>2. phase = "requesting" /\ r.asset \in chosen
    BY <1>5, DoneIsOfChosen
  <2>3. TypeOK'
    BY <1>1, <1>2, <1>3, <1>5 DEF TypeOK, browsingVars, lateVars
  <2>4. OnlyChosen' /\ ChosenIsAccounted'
    BY <1>1, <1>5, <2>1, <2>2 DEF OnlyChosen, ChosenIsAccounted
  <2>5. NothingBefore' /\ NothingAfter'
    BY <1>1, <2>2 DEF NothingBefore, NothingAfter
  <2> QED
    BY <1>1, <1>3, <1>5, <2>3, <2>4, <2>5
       DEF SingleSelection, FlagIsOfGone, FlagOnlyAfterPage, BackIsOnPage, AddingIsAlone,
         PromisedIsSelected, lateVars, browsingVars
<1>6. CASE /\ r.for = "done"
           /\ stuck' = IF flag[r.asset] THEN "flag" ELSE "library"
           /\ UNCHANGED dict
  <2>1. ForDone' = ForDone \ {r}
    BY <1>1 DEF ForDone
  <2>2. phase = "requesting" /\ r.asset \in chosen
    BY <1>6, DoneIsOfChosen
  <2>3. TypeOK'
    BY <1>1, <1>3, <1>6 DEF TypeOK, browsingVars, lateVars
  <2>4. OnlyChosen' /\ ChosenIsAccounted'
    BY <1>1, <1>6, <2>1 DEF OnlyChosen, ChosenIsAccounted
  <2>5. NothingBefore' /\ NothingAfter'
    BY <1>1, <2>2 DEF NothingBefore, NothingAfter
  <2>6. FlagOnlyAfterPage'
    BY <1>1, <1>2, <1>6, <2>2 DEF FlagOnlyAfterPage, FlagIsOfGone
  <2> QED
    BY <1>1, <1>3, <2>3, <2>4, <2>5, <2>6
       DEF SingleSelection, FlagIsOfGone, BackIsOnPage, AddingIsAlone,
         PromisedIsSelected, lateVars, browsingVars
<1> QED
  BY <1>4, <1>5, <1>6 DEF Answer

LEMMA ForgetStep ==
    ASSUME PickerInv, NEW r \in inFlight, Forget(r)
    PROVE  PickerInv'
<1> USE DEF PickerInv
<1>1. /\ inFlight' = inFlight \ {r}
      /\ stuck' = IF r.for = "done" THEN "cancelled" ELSE stuck
      /\ UNCHANGED <<browsingVars, issued, latest, flag, gone, phase, chosen, todo,
                     assigning, dict, lateVars>>
  BY DEF Forget
<1>2. TypeOK'
  BY <1>1 DEF TypeOK, browsingVars, lateVars
<1>3. ForDone' = ForDone \ {r}
  BY <1>1 DEF ForDone
<1>4. OnlyChosen' /\ NothingAfter'
  BY <1>1, <1>3 DEF OnlyChosen, NothingAfter
<1>5. NothingBefore'
  BY <1>1, <1>3, DoneIsOfChosen DEF NothingBefore
<1>6. ChosenIsAccounted'
  BY <1>1, <1>3 DEF ChosenIsAccounted, ForDone
<1> QED
  BY <1>1, <1>2, <1>4, <1>5, <1>6
     DEF SingleSelection, FlagIsOfGone, FlagOnlyAfterPage, BackIsOnPage, AddingIsAlone,
         PromisedIsSelected, lateVars, browsingVars

\* Nothing refused, nothing left to request and nothing on its way: all is there.
LEMMA DeliverStep ==
    ASSUME PickerInv, Deliver
    PROVE  PickerInv'
<1> USE DEF PickerInv
<1>1. /\ phase = "requesting" /\ phase' = "delivered" /\ open' = FALSE /\ viewer' = NoAsset
      /\ UNCHANGED <<selected, spare, requestVars, chosen, todo, assigning, dict, stuck, lateVars>>
  BY DEF Deliver
<1>2. TypeOK'
  BY <1>1 DEF TypeOK, requestVars, lateVars
<1>3. todo = {} /\ ForDone = {} /\ stuck = "no" /\ ForDone' = {}
  BY <1>1 DEF Deliver, ForDone, requestVars
<1>4. dict = chosen
  BY <1>3 DEF ChosenIsAccounted, OnlyChosen
<1>5. (NothingBefore /\ OnlyChosen /\ ChosenIsAccounted /\ NothingAfter)'
  BY <1>1, <1>3, <1>4 DEF NothingBefore, OnlyChosen, ChosenIsAccounted, NothingAfter
<1> QED
  BY <1>1, <1>2, <1>5
     DEF SingleSelection, FlagIsOfGone, FlagOnlyAfterPage, BackIsOnPage, AddingIsAlone,
         PromisedIsSelected, lateVars, requestVars

LEMMA NextPickerInv == PickerInv /\ [Next]_vars => PickerInv'
<1> SUFFICES ASSUME PickerInv, [Next]_vars PROVE PickerInv'
  OBVIOUS
<1>1. ASSUME NEW a \in Assets,
             OnTapSelect(a) \/ DidSelectItem(a) \/ DidFinishAnimating(a) \/ Deinit(a)
      PROVE  PickerInv'
  BY <1>1, OnTapSelectStep, DidSelectItemStep, DidFinishAnimatingStep, DeinitStep
<1>2. CASE OnTapClose \/ OnTapCancel
  BY <1>2, CloseStep
<1>3. CASE OnTapDone \/ ReleaseButton \/ SetSelected
  BY <1>3, OnTapDoneStep, ReleaseButtonStep, SetSelectedStep
<1>4. CASE GetSelectedPhotos \/ StoreRequestId \/ Deliver
  BY <1>4, GetSelectedPhotosStep, StoreRequestIdStep, DeliverStep
<1>5. ASSUME NEW a \in Assets, RequestFullSizePhoto(a) \/ ReleaseMark(a) PROVE PickerInv'
  BY <1>5, RequestFullSizePhotoStep, ReleaseMarkStep
<1>6. ASSUME NEW n \in Ids, AnswerOf(n) PROVE PickerInv'
  BY <1>6, AnswerStep DEF AnswerOf
<1>7. ASSUME NEW r \in inFlight, Forget(r) PROVE PickerInv'
  BY <1>7, ForgetStep
<1>8. CASE UNCHANGED vars
  <2>1. UNCHANGED <<selected, viewer, spare, open, inFlight, issued, latest, flag, gone,
                    phase, chosen, todo, assigning, dict, stuck, held, adding, promised>>
    BY <1>8 DEF vars, browsingVars, requestVars, doneVars, lateVars
  <2>2. TypeOK'
    BY <2>1 DEF PickerInv, TypeOK
  <2>3. (NothingBefore /\ OnlyChosen /\ ChosenIsAccounted /\ NothingAfter)'
    BY <2>1, SameForDone DEF ForDone
  <2> QED
    BY <2>1, <2>2, <2>3
       DEF PickerInv, SingleSelection, FlagIsOfGone, FlagOnlyAfterPage, BackIsOnPage,
           AddingIsAlone, PromisedIsSelected
<1> QED
  BY <1>1, <1>2, <1>3, <1>4, <1>5, <1>6, <1>7, <1>8
     DEF Next

LEMMA PickerInvariant == Spec => []PickerInv
BY InitPickerInv, NextPickerInv, PTL DEF Spec

-----------------------------------------------------------------------------
(* Theorems.                                                               *)

\* Every variable of the picker keeps its type.
THEOREM TypeCorrect == Spec => []TypeOK
<1>1. PickerInv => TypeOK
  BY DEF PickerInv
<1> QED
  BY <1>1, PickerInvariant, PTL

\* Grid, viewer and a finger lifted late never leave two photos to deliver, however
\* the other queue reads between their steps, and no other photo than Done's unless
\* that finger changed the selection before it was read.
THEOREM OnePhotoIsSelected == Spec => []SingleSelection
<1>1. PickerInv => SingleSelection
  BY DEF PickerInv
<1> QED
  BY <1>1, PickerInvariant, PTL

\* What is delivered is all that the determination read.
THEOREM DeliveriesAreComplete == Spec => []DeliversAllChosen
<1>1. PickerInv => DeliversAllChosen
  BY DEF PickerInv, NothingAfter, DeliversAllChosen
<1> QED
  BY <1>1, PickerInvariant, PTL

\* The flag denies Done no photo whose page was never left or freed.
THEOREM FlagDeniesLeftPagesOnly == Spec => []FlagOnlyAfterPage
<1>1. PickerInv => FlagOnlyAfterPage
  BY DEF PickerInv
<1> QED
  BY <1>1, PickerInvariant, PTL
===============================================================================
