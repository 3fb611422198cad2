# Smart Photo Kit: specifications

TLA+ specifications of the parts of Smart Photo Kit (an iOS photo editor in Swift) and
of the libraries it ships with whose behaviour depends on the order of user gestures, callbacks and background
work, model-checked with TLC and in part proved with TLAPS. Paths below are relative
to `src/Smart Photo Kit/`; `A/` stands for `Smart Photo Kit/`, `P/` for `Pods/`.

## 1. Inventory

| Component | State it keeps | Operations | Talks to |
|---|---|---|---|
| Home work place, `A/Controller/Dashboard/HomeViewController.swift`, `A/Controller/BaseViewController.swift` | the image, two hidden flags, what is presented | photo, camera, delete, share, save, seven menu tools, seven result handlers | presents every other screen; receives results by delegate, closure, notification and selector |
| Brightroom renderer, `P/Brightroom/.../ImageRenderer.swift` | a serial queue of edits | render, completion on the main queue | called by home after crop and basic editor were dismissed |
| Sticker canvas, `P/StickerView/StickerView/StickerView.swift` and the `selectedStickerView` of its screens | subviews and their order, handles, selection | add, tap, move, tap beside, close, (rotate, resize, flip) | photo creator and five frame screens |
| Photo creator, `A/Controller/AddBackground/AddBackgroundViewController.swift` | background, flag for the next pick, canvas | colours, pictures, stickers, picker, catalog, clear, Done, Cancel | picker, catalog; delivers to home |
| Photo picker, `P/FMPhotoPicker/.../source` (single selection) | selection, viewer page, request id and cancelled flag per photo | select, view, swipe, close, Done, Cancel | photo library (asynchronous), overlay window, delegate |
| Text canvas, `A/Controller/AddText/AddTextViewController.swift`, `P/JLStickerTextView/Source` | labels, their handles, current label, first responder, styles | add, tap, type, tap beside, close, style panels, Done, Cancel | keyboard; delivers to home |
| Frame gallery and nine frame screens, `A/Controller/GalleryCollection` | the frames added over one another, the slot each is filling, pictures of the slots | choose frame, fill slot, Done, Cancel | picker; posts a notification to home |
| Sticker catalog and panel, `A/Controller/Sticker`, `A/ViewModel`, `ToolsFrameView.swift` | stickers by group, chosen menu row, reused cells | fetch, scroll, choose row, choose sticker | Firestore client; Kingfisher; delivers to creator and frames |
| Firestore client, `P/FirebaseFirestore/Firestore/core/src` | listeners, view, local cache, watch stream, online state | one-shot read of the sticker collection | the server; called by the sticker view model on the main queue |
| CoreMLHelpers, `A/CoreMLHelpers` | none | non-maximum suppression, top-k, pixel buffer conversions | nobody in the app |
| Filter editor, mask tool, cells, models, app delegate | own, or none | edit and return an image; layout | home |

Almost everything runs on the main thread, so that interleavings come from seven
places: renders that arrive after their screen has gone; picks that load behind an
overlay, and screens that come up, while a finger is already down on another button; the background queue that
reads the selection of the picker while a late finger changes it; answers of the photo library, in any order or not
at all; UIKit calling back (keyboard, freed controllers) in the middle of a
handler; pictures that arrive for a cell that shows another row by then; and the worker
queue of the Firestore client, with its timers and a stream that breaks. The hard question for each component:

- *Home*: is the image on the work place the one the user sees and the open tool has?
- *Sticker canvas*: can two stickers be edited at once, or one that is covered?
- *Creator*: does a late pick go where it was asked for, and what was the home screen
  handed by a creator that is done, open, cancelled or lost?
- *Picker*: does Done always end, and with everything that was selected?
- *Text*: do handles, keyboard and panels agree on which label is edited, and is
  the picture free of handles and complete?
- *Frames*: does a photo reach the slot that asked for it, with frames piled up and
  pickers cancelled, and is what is seen what is delivered?
- *Catalog*: does a tap hand over the sticker the user sees, with cells reused and two
  orders (menu and groups) written down in two files?
- *Firestore read*: is every read answered, once, offline and through breaks, and is
  nothing left listening?
- *Non-maximum suppression*: is every missing box missing for a reason?

## 2. Modules

| Module | Models |
|---|---|
| `HomeWorkspace` | the home screen with renderer, late picks and album writes |
| `ExclusiveEditing` | abstract: what any canvas of editable items promises |
| `StickerCanvas` | stickers; implements `ExclusiveEditing` |
| `PhotoCreator` | EXTENDS `StickerCanvas`; the creator around it |
| `PhotoPicker` | single selection, viewer, requests, determination |
| `TextCanvas` | text labels; implements `ExclusiveEditing` |
| `OneShotRead` | abstract: what a caller of `getDocuments` may rely on |
| `FirestoreGet` | the client library and the server; implements `OneShotRead` |
| `StickerCatalog` | EXTENDS `OneShotRead`; panel, strip, catalog, late pictures |
| `FrameGallery` | the frames over one another, pickers, several fingers |
| `NonMaxSuppression` | the multi-class selection of boxes, loop by loop |
| `HomeWorkspaceProofs`, `PhotoCreatorProofs`, `TextCanvasProofs`, `PhotoPickerProofs`, `FrameGalleryProofs`, `FirestoreGetProofs`, `StickerCatalogProofs`, `NonMaxSuppressionProofs` | theorems |
| `MCNonMaxSuppression` | the rectangles, for TLC |

Each handler is one action named after it. `PROJECT.json` maps every definition to
its lines. Beside some definitions stand *faulty variants*, never used by a
specification: each is a bug that could be made there, and one of the properties fails
when the variant takes the place of the definition.

**HomeWorkspace.** An image is the photo it comes from and the set of edits
(tool, serial number) it carries, which is all the properties tell apart. `source` is
the image a tool was opened with. `RenderedToolDidFinish` dismisses and queues,
`RenderNext` is the renderer (a failed render posts nothing that changes the image),
`RenderLands` is the closure on the main queue: it assigns the image and nothing else.
The mask, filter and text handlers assign the image and do not touch the hidden
flags; camera, picker, creator and frames show the image view. The picker is seen
from outside: Done starts loading behind an overlay, a held finger may still cancel,
the pick may be empty, and its handler dismisses whatever is presented by then.
`writer` and `awaited` are history. UIKit shows one presented screen at a time and
refuses a second, which matters for the alert of a finished save. Menu row 7
(background removal without the mask tool) is not modelled: the menu has seven rows,
0 to 6.

**StickerCanvas.** `handles` is kept for every sticker ever made, since closing does
not reset it, and `selected` may be a sticker that was closed. `above` is the order
of the subviews. `Select` is the setter of `selectedStickerView`, given the handles
as they are when it is called.

**PhotoCreator.** The canvas actions are those of `StickerCanvas`. A press is a touch
and a release: only what is uncovered can be touched, but a finger in `held` is
released over its control whatever came up meanwhile, and the handler runs without
asking (`Pressed`). `Present` is refused while something is presented; `Dismiss`, the code's
`self.dismiss`, takes what is presented and only otherwise the creator. `design` is what
Done last handed over: canvas, handles, background; the home screen's own handling of
it is `CreatorDidFinish` of `HomeWorkspace`, where the creator's Done is one action.
`phase = "lost"` is the late pick whose dismissal closes the creator itself, since the
picker it meant has gone already. `asked`, `crossed` and `rested` are history. Three
observations no comment contradicts: the button of the other kind, released with a
picker up, redirects the pick although it opens nothing; Done released with a picker up
hands the design over and leaves the creator open, to be changed and finished again, and
Cancel likewise takes the picker only; and a pick that arrives after its picker was
cancelled closes the creator.

**PhotoPicker.** A request is (id, photo, who made it, cancelled). The viewer makes two
requests per page and the photo remembers the second's id; Done makes one and stores
its id when the call returns, before or after the answer (`StoreRequestId`). `Answer`
is the result handler with the cancelled flag; `Forget` is a cancelled request that is
never answered. `held` is the finger that was already down when Done was tapped, or the
swipe that was under way then: the overlay keeps away new touches only. Such a finger
may cancel, open or close the viewer, finish a swipe or change the selection, and the
last takes two steps, as the code unselects in a loop and then appends (`ReleaseMark`,
`SetSelected`), because the background queue may read the selection between them. On the
grid before Done nobody else reads it, so `OnTapSelect` is one step. `MayHold` says what
may be held; it is empty in `picker_flag`. One late finger is modelled: a Done held
beneath another Done, and one whose button was hidden meanwhile, are not. The selection is
a Swift array read and written by two threads without a lock; the model has the values
a reader may see, and not that such a race may also end the program. `stuck` says why
a determination will never leave its dispatch group: the closure returns without
`leave()` when it is given no photo.

**TextCanvas.** `showing`, `current` and `focus` are kept in three classes by the code
(label, image view, UIKit) and tied together by callbacks only. `made` is the list
`labels`, from which nothing is ever removed. `Autocorrection` says whether the keyboard
may commit a suggestion while it is dismissed. A style stands for colour, size, font
and alignment.

**FirestoreGet.** The program makes one query, so there is one target and at most one
view. The main queue asks (`GetDocuments`) and runs callbacks (`OnEvent`), which remove
the listener; the worker queue runs `ListenTask` and `RemoveTask`, the stream's
handlers and the timers; the server reads requests and sends changes. A document is
the version of the collection it belongs to, and the resume token is the version the
cache was last told is complete. The online-state tracker is a set of functions from
its state to the next, with its HARD_ASSERTs beside them; `aborted` records that one
failed. `Queued` appends to the events of each read: the executor keeps the order of
one listener's events, and the properties do not depend on the order between reads.
`lastRemote` is the version of the last snapshot that was
applied: an older one is not raised (`remote_store.cc:282`). What is assumed of the outside: the server sends a global snapshot only after it said
that the target is current, its rules always allow or always deny, it never ends a
stream without an error, and credentials come (late, perhaps, and for a stream that
was closed meanwhile). The transport may report a stream open before the server has
seen anything.

**StickerCatalog.** The read is that of `OneShotRead`, which is what `FirestoreGet` is
shown to implement: the two are composed through the abstract module. `StickersArrive`
is the closure of `getSticker` with its grouping and its order of groups. `OneReadAssumption` fits
`ToolsFrameView`, which reads when it is made; the photo creator reads again in every
`viewDidAppear`, and its row of stickers is not part of this module. Documents
are abstracted to the number of items of the first group and of the others. A
collection view is a pool of cells: `EndDisplaying` puts one back with its image,
`CellForItem` takes one for a row and asks Kingfisher for its picture, `DownloadEnds`
is the answer, taken only if its identifier is the one left on the image view. Two
observations no comment contradicts: the row that opens the catalog does not cancel
the download of the row its cell showed before, so a late sticker may replace its icon;
and it exists only when the first group does not fit the strip, so with ten stickers or
fewer in the first group the other groups cannot be reached.

**FrameGallery.** `children` is the list of child controllers, which only grows. A press
is a touch and a release with other fingers and screens between them: the release runs
the handler although a picker is up by then. `crossed` says that two fingers were down
at once at some time. Three observations no comment contradicts: a second finger can
redirect a pick to another slot of the same frame; Done lifted with a picker up posts
the picture but dismisses the picker only; and a photo that arrives after its picker was
cancelled closes the gallery. The colours and the stickers of five frames are left out.

**NonMaxSuppression.** One step is one iteration of the inner or outer loop. A sorted
array that is walked through is a set of which a box of the greatest score is taken
again and again, which covers every order of equal scores that an unstable sort may
produce.

## 3. Runs

| Run | Bounds | Question |
|---|---|---|
| `home` | 2 photos, 2 edits, 1 save, fair | which image is on the work place, which one has the tool, does an edit stay queued |
| `sticker_canvas` | 4 stickers | editing is exclusive, in front, and ends with a tap beside |
| `photo_creator` | 3 stickers, 1 photo, 1 finger held | where late picks go, what the home screen is handed and when, handles in the picture |
| `photo_picker` | 2 photos, 5 requests, 1 late finger or swipe, fair | what a Done delivers, and when it cannot |
| `text_canvas` | 3 labels, 2 styles, no autocorrection | one label for handles, keyboard and panels; clean picture |
| `firestore_get` | 2 reads, 2 versions, 2 breaks, fair | is a read answered once and always; assertions; what is left behind |
| `sticker_catalog` | 1 read, 2 cells a view, strip of 2, groups of 3, 2 documents, 2 pictures | cells in sight, taps, menu and groups |
| `frame_gallery` | 2 photos, 2 frames of 1 to 3 slots, 2 fingers | where a pick goes, what is delivered |
| `non_max_suppression` | 3 boxes, 3 classes of which 2 count, 3 scores, 4 rectangles, limits 0 to 2 | is the selection right |
| `picker_flag` | 2 photos, 5 requests, no late finger | finding: the cancelled flag answers for the wrong request |
| `text_autocorrection` | 2 labels, autocorrection | finding: a label reported as hidden shows its handles |
| `firestore_timer` | 2 reads, 1 version, 1 break, silent server | finding: a read waits in Unknown with no timer |

*Why these bounds are enough.* Two edits (`MaxEdits`) are the least with which two
renders can be under way or an edit can be made on a late render; one save (`MaxSaves`)
suffices for its alert to meet any screen. On the sticker canvas the setter relates the
sticker it is given, the one selected before and a third that must not change; the
fourth shows that two unrelated ones keep their order. The theorems hold for any
number. In the creator three stickers allow one at start, one late and one closed; one
finger held (`MaxHeld`) beside the one that presses is enough for a control to be
released with any screen over it, and a second picture would be handled as the first. In
the picker five requests (`MaxRequests`) are two pages and one Done, which is what a
stale flag or a stale id needs: one photo whose page was left, another, and the
determination; the viewer always leaves one request for Done. Three labels are the
current one, another and a closed one.

Two reads are what it takes for one to be answered while the other waits, joins or
leaves; two versions tell a view that is fresh from one that is not; two breaks
(`MaxBreaks`) are one for the failure and one for what follows it. Three reads and two
breaks, checked once, give 1.6 million states and no error. The library's constant
`kMaxWatchStreamFailures` is 1, its value in the code. In the catalog two cells are
one reused and one beside it, two pictures (`MaxDownloads`) are a late one and the one
the cell waits for, and a group of three does not fit a strip of two; three pictures
were checked once, with one cell, and with two cells and a strip of one (6.2 million
states). Two frames are one covered and one seen; two fingers are all that can differ
from one. In the selection of boxes the third rectangle overlaps the first by
exactly the threshold and the second by more, which gives chains; the fourth has no area.

*What the properties say.*

- `ToolSeesCurrentImage`: unless a render was under way when it was opened, the open
  tool works on the very image its result will replace. It says nothing of a tool opened
  with a render under way: that render does replace the image beneath it.
- `HiddenImageIsLateRender`: an image behind the empty view went through the crop or
  the basic editor. So a late render after a delete is the only way to get there, and
  it is a way: the handler that lands it shows no view.
- `BlankOnlyFromEmptyPick`: an image view without an image is what an empty pick leaves.
- `RendersLandInOrder`, `EveryRenderLands`: renders arrive in the order they were
  finished, and none stays queued.
- `EditedIsSelectedInFront`, `TapRestsCanvas`, `OnlyTouchedIsRaised`, `EditsExclusively`:
  the canvas, including stickers that were closed while selected.
- `PickGoesWhereAsked`: the flag is never stale, whatever was opened and cancelled; only
  the button of the other kind, released meanwhile, redirects a pick.
  `DesignHandlesInFront`: a design may show handles, since Done does not hide them, but of
  the selected sticker only, in front of all, and of none after a tap beside the
  stickers. `HomeGetsWhatWasDone`: a creator that is done handed over the work place as it
  still is; one that is open, cancelled or lost handed over nothing, unless a screen came
  up under a finger, and then it may have (see above).
- `SingleSelection`: what the background queue reads is one photo at most, and the one
  that Done was tapped for unless a late finger was lifted from a photo first. The
  pick may then be empty, or of the other photo.
- `DeliversAllChosen`, `FlagOnlyAfterPage`, `EveryDoneEnds`: the rest of the picker.
- `EditedIsCurrent`, `StylesWhatIsEdited`, `PictureIsClean`, `EditsExclusively`: the
  text canvas.
- `NeverAborts`, `SyncedViewIsFresh`, `OfflineAnswersFromCache`, `NothingLeftListening`,
  `ImplementsOneShotRead`, `EveryGetAnswered`: the Firestore read. `ImplementsOneShotRead`
  is the refinement of the abstract module. `NeverAborts` is about the assertions that
  are modelled (starting, opening and failing of the stream, its idle timer, the
  tracker's), not about every HARD_ASSERT of the library. `TypeOK` also says that
  the aggregator never counts an answer against a request that was not made.
- `CellShowsItsRow`, `PassesWhatWasTapped`: the catalog. `TypeOK` there also says that a
  catalog that is presented has a group for each row of its menu, so that neither the
  forced `sticker.first` nor the index of the menu can end the program.
- `PickStaysWithItsFrame`, `DeliversWhatIsSeen`: the frames; the second for one finger
  at a time, since with two it does not hold.
- `SelectionIsRight`: the boxes returned do not overlap within a class, keep to both
  limits, and each candidate that is missing overlaps a box that was returned and is no
  worse, or gave way to a full class or a full result of boxes that are no worse.

*Deadlock.* It is checked where the screen can always go on (home, sticker canvas). The
others end: Done, Cancel, a delivered pick, a determination that waits for ever, a
program that makes no more reads, pictures that are used up, a selection that returns.

*Fairness.* `home`: weak fairness of the renderer's queue and of the main
queue; nothing is assumed of the user. `photo_picker`: weak fairness of the background
queue, of storing the id, of the delivery, and of the library answering each request
(a photo or none); no fairness of the user, of the held finger, of swiping or of
controllers being freed. `EveryDoneEnds` therefore says that nothing but a photo that
was refused or cancelled can keep a Done from its delivery. `firestore_get` (`FairSpec`):
weak fairness of both queues, of the timers, of credentials, and of the server and the
transport handling what was sent; none of the caller, of failures, of changes of the
collection or the network. Queues run what they are given and timers fire; that the
server answers on a stream that lasts is an assumption, and `breaks` bounds how often it
does not last. `firestore_timer` (`SilentServerSpec`) drops the server and the transport,
because the timer it is about is there for a server that is silent.

## 4. Findings

- `picker_flag`. "Indicates whether the request for the full size image was canceled."
  (`FMPhotoAsset.swift:33`). The flag is the photo's, not the request's. Counterexample,
  with one finger: select a photo on the grid, open it in the viewer, leave its page,
  close the viewer, Done. Leaving the page (by a swipe, or by closing the viewer and its
  controller being freed) cancels the second of the page's requests and sets the flag;
  Done's own request, which nobody cancelled, may be answered before it and is given no
  image. The determination never ends and the overlay stays.
- `text_autocorrection`. "Occurs when border and control buttons was hidden."
  (`JLStickerLabelView.swift:564`). A label that resigns the keyboard in the middle of
  hiding may be shown again by `shouldChangeTextIn` and then reports that it is hidden,
  so that it keeps its handles while the image view has no current label. This depends on
  UIKit committing a suggestion through that delegate method when the keyboard goes,
  which is an assumption about the environment, stated as the constant `Autocorrection`.

- `firestore_timer`. "To deal with stream attempts that don't succeed or fail in a timely
  manner, we have a timeout for OnlineState to reach Online or Offline."
  (`online_state_tracker.cc:47`). The timer is armed when a stream is started. If the
  read that started it is answered from the cache and stops listening while the stream
  is still starting, `remote_store.cc:183-187` sets Unknown, which cancels the timer; the
  next read finds the stream started and arms nothing. It waits until the server answers
  or the stream fails. So `EveryGetAnswered` needs the fairness of the server.

## 5. Proofs

`tlapm` checks eight modules, for any constants that meet the named assumptions, which
TLC evaluates in every run.

**PhotoCreatorProofs, the canvas.** `EditedIsSelectedInFront` is not inductive: a tap beside the
stickers hides the handles of the selected sticker only, and a later tap shows them
again, so one has to know that no other sticker on the canvas shows handles
(`OnlySelectedShows`) and that the selected sticker is in front even while its handles
are hidden (`SelectedIsFront`). With the types and `canvas \subseteq made` this is
`CanvasInv`. `SelectHandsOver` is the setter; one lemma per handler says what it does
to `CanvasInv` and to the set of edited stickers, and both the invariance and the
refinement of `ExclusiveEditing` (`StickerCanvasRefines`) are put together from them.
`OnlyTouchedStickerIsRaised` and `TapBesideRestsCanvas` are action properties.

**PhotoCreatorProofs, the creator.** Every step of the creator is a step of the canvas or leaves it
alone (`CanvasSteps`), so `CanvasInv` and the refinement carry over from the lemmas about
the canvas: it implements `ExclusiveEditing` under all the screens and
late picks (`CreatorRefines`). `CreatorInv` adds `FinishedIsAlone` (a creator that is gone
has nothing presented and no pick on its way, so that nothing changes what it handed over);
`CoveredIsUntouched` (as long as no screen came up under a finger, what covers the creator
keeps every finger away, so that Done finds nothing presented and takes the creator along);
`FlagSaysWhatWasAsked` (the flag is that of the button that opened the last picker,
unless another was released over a screen since); and `RestedShowsNoHandles` (after
a tap beside the stickers no sticker of the canvas shows handles until one is tapped or
added). The theorems hold for any number of stickers, photos and fingers.

**TextCanvasProofs.** Two theorems hold of any keyboard: types are kept, and a panel restyles only what is seen as edited; `AnyKeyboardInv` adds
to the types that a current label on the image shows its handles (`CurrentShows`). The
other three assume `~Autocorrection`, because TLC refutes each of `EditedIsCurrent`,
`PictureIsClean` and `EditsExclusively` without it: a label that a suggestion shows again
keeps its handles while another is edited or the picture is taken, the consequence of what
run `text_autocorrection` finds.
`EditedIsCurrent` speaks of labels on the image; the inductive `OnlyCurrentShows` has to
speak of all that were ever made, since a closed label stays in `labels` and keeps its
handles until another is chosen, and `CurrentWasMade` says that even a closed current
label is one of them. `ShowingOne` says what hiding some labels and showing others does,
and `NextTextInv` has one step per handler, for the invariant and the refinement at once.

**PhotoPickerProofs.** `DeliversAllChosen` speaks of the end of a determination;
`ChosenIsAccounted` is what holds on the way: as long as nothing was refused, each photo
that was read is still to be requested, in a request of its own that is in flight, or
there. With `OnlyChosen` and `NothingAfter` (what is answered late was asked for a page)
this makes a delivery complete. `FlagIsOfGone` ties the flag to pages that were left,
which `FlagOnlyAfterPage` needs when a request is refused, and `BackIsOnPage` says that
the late finger on the back button closes a page that is still there. For
`SingleSelection` the two steps of a late selection meet the background queue's read:
`AddingIsAlone` says that nothing is selected while a photo is about to be, so that a read
in between finds none and the step after it leaves one; `PromisedIsSelected` that until
a late finger is lifted from a photo the selection of Done is still there. `SameForDone` covers all
handlers that make, mark or answer requests for pages.

**HomeWorkspaceProofs.** `HomeInv` adds to the three properties: a pick under way keeps
the tools away (`PickKeepsToolsAway`), so that only a render can change the image
beneath a tool; everything queued came from a rendered tool (`RendersAreLate`); and
the open tool has an image which, opened with no render under way, is still the one
on the work place with nothing queued since (`ToolHasImage`). `QuietStep` covers all
handlers that only present or dismiss, `ShowStep` all that show a new image.
`RendersLandInOrder` is about the two queues only and says nothing of the next edit. It
becomes inductive as `OrderInv`: no image on the screen, in a tool or in a queue carries
a serial number that was not issued yet, and each image in a queue has a last edit. A
tool works on such an image, so its edit is later than everything it is queued behind
(`EditedEndsWith`); a render takes the head of a queue and keeps the order of the rest.

**FrameGalleryProofs.** `DeliversWhatIsSeen` holds with one finger at a time. What makes it
so is `Uncrossed`: there is one finger at most, nothing was presented over the gallery
since it went down, the control it is on belongs to the frame that is seen, the flag of every
frame names the slot of its last picker, what was picked is where it was asked for, and
nothing was sent. `FingersOnControls` says that the control under a finger is still there
(frames are never removed) and `FlagsOfFrames` that a frame that was not added yet has asked
for nothing. `PickStaysWithItsFrame` needs the types only.

**FirestoreGetProofs.** Four inductive invariants. `Safe` is for the assertions and for
Offline: the online-state timer runs only in Unknown with a stream that was started,
failures are forgotten once Online, credentials are awaited only by a starting stream
(so that late ones are told apart), an open stream is idle only without a target
(`ClientInOrder`), and without a view there is no listener (`ViewsAreShown`).
`Answering` is for the refinement: no read has two listen tasks (`ListensOnce`), and
`Once` follows one read from its task to its answer. An error is the last event of
its queue and finds the read no longer a listener, which is why a snapshot queued
before it cannot lead to a second answer. From them and the types come
`ClientNeverAborts`, `OfflineAnswers` and the refinement `FirestoreReadsOnce`, action by
action. `Leaving` is for what stays behind: a view has listeners, and a listener that
got its answer has a removal among the worker's tasks, an error being the case where it is
no listener any more (`Once` again).

`Fresh` is for the synced view, and is about whole queues. If the server refuses the
target it says nothing else and no view is ever synced. Otherwise `AllCounted`: the
aggregator's count is at least the number of requests not handled and of answers not read,
so that at zero nothing on its way belongs to an earlier listen. Message `i` is `Live` if it
will be read after the last answer; `SnapshotsVouched` says that a live snapshot is no
older than the view and that the documents it stands for were received or come, live, before
it. That the count never falls below zero, which
`TypeCorrect` states, follows from `AllCounted` and, for a server that refuses, from its
silence (`NextCounted`): the types alone (`Typed`) do not give it, and the rest of the proof needs no more than those.
The premise that the count is exact keeps the invariant from saying anything of a
request the server ignored. `DocsInOrder`, `TokenIsBehind` and `UpToNow` compare versions: the
token the client resumes from is never ahead of its cache, which is why a server that sends
no documents has none to send. No flag of the aggregator is part of the argument: `current`
may survive from an earlier listen, and it is the snapshot that is fresh. One lemma for
reading a message (`ReadingFresh`), one for what the server says (`SayingFresh`), and
`QuietFresh`, `ResetFresh` and `AskingFresh` for the rest. `Fresh` was model-checked with
three versions before it was proved.

**StickerCatalogProofs.** `CellShowsItsRow` is not inductive: a picture on its way may
carry the identifier of a cell that has moved on. `CatalogInv` adds that identifiers
are issued once and only grow (`IdsAreIssued`), that a picture a cell in sight waits for is
the one of its row (`AwaitsItsRow`), that rows in sight are rows on offer, and that the
groups are whole once the one read was answered (`GroupsAreWhole`, which needs
`OneReadAssumption`: a second answer could exchange the groups beneath a catalog).

**NonMaxSuppressionProofs.** `SelectionInv` says of the class at hand that what is kept
comes before the rest and that what is neither was dropped for a kept box
(`ClassAtHand`), and of each class before that it is `Settled`: a missing candidate was
displaced or the class is full of boxes that are no worse. The final cut is
`CutOffForAReason`; a box that was displaced by one that the cut drops is covered by the
same lemma, scores being ordered. That overlap is symmetric (`OverlapsCommutes`) is what
lets a kept box be compared in one direction only.

Only model-checked: liveness (`EveryRenderLands`, `EveryDoneEnds`, `EveryGetAnswered`),
which is out of the prover's reach. Every invariant, action property and refinement of
the passing runs is a theorem; three of the text screen's, `EditedIsCurrent`,
`PictureIsClean` and `EditsExclusively`, for a keyboard that commits no suggestion, as in
their run.

## 6. Not modelled

- What images contain: filters, crops, masks, rendering. Geometry and layout:
  positions, sizes, rotation, screen ratios, fitting.
- The picker's thumbnails, videos, animations, permission dialogue and multiple
  selection, which the app never configures.
- The filter editor and the mask tool beyond opening, cancelling and finishing; TCMask
  is a binary framework.
- Colours and stickers of the frames (their canvas is the code of `StickerCanvas`); the
  colour strips of the panel, which are constant tables.
- CoreMLHelpers beyond non-maximum suppression: one-line wrappers of library calls and
  conversions of pixel buffers, without state and called by no screen. Float's
  rounding of an overlap.
- Shadow values of the text screen: each slider writes all of them to the label that is
  edited, by design, and `StylesWhatIsEdited` says that no other label is restyled.
- In the Firestore client: writes, transactions, several queries, shutdown,
  `disableNetwork` and a change of user, none of which the program causes. Existence filters
  and limbo resolution, which a client that only reads may meet when documents leave the
  collection: in the model the collection only changes as a whole. gRPC below the stream; LevelDB below the local store.
- That a finished album write may report while another screen is up: UIKit refuses the
  alert, which `HomeWorkspace` models, but nothing in the code promises it to the user.
- Errors of the album write and of a render, which the code only logs; the render's is
  the branch of `RenderNext` that posts nothing.
- The rest of `Pods/` (gRPC, BoringSSL, abseil, LevelDB, Kingfisher beyond its image
  view extension and so on): vendored libraries, among them almost all of the C and C++
  in the repository. The program itself is Swift; of the C++ only what a sticker read runs
  is part of its behaviour, and that is `FirestoreGet`. A share of the C and C++ lines
  that would count as a large one could only be had by modelling libraries for their own
  sake.

## 7. Left to do

The stickers of the five frames that have them, composed with `StickerCanvas`, and the
theorems that carry over.
