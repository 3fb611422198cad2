----------------------------- MODULE PhotoCreator -----------------------------
(***************************************************************************)
(* The photo creator: a sticker canvas over a background, the photo picker *)
(* and the sticker catalog it presents, and the design it hands back to    *)
(* the home screen. One flag, isSlectMoreBgIgm, says whether the photo that*)
(* the picker delivers is a background or a sticker; the pick is loaded    *)
(* behind an overlay and may arrive after its picker was cancelled.        *)
(*                                                                         *)
(* A press is a touch and a release. A screen or the overlay covers the    *)
(* creator, but a finger that was down before is still released over the   *)
(* control it touched, and no handler asks what is presented by then.      *)
(***************************************************************************)
EXTENDS StickerCanvas, Naturals, FiniteSets

CONSTANTS
    Photos,     \* photos and pictures of the background lists
    NoImage,    \* imageView.image = nil
    MaxHeld     \* bound: fingers held down besides the one that presses

ASSUME MaxHeldAssumption == MaxHeld \in Nat

VARIABLES
    background,         \* imageView.image and imageView.backgroundColor
    isSlectMoreBgIgm,
    presented,          \* "picker", "loading" (a picker after its Done), "stickers" or "none"
    picking,            \* a pick is being loaded and the overlay is up
    held,               \* the controls that fingers are held down on
    phase,              \* "editing", "done", "cancelled", "lost"
    design,             \* history: what the home screen was handed last
    asked,              \* history: the button that opened the picker, while no other redirects it
    crossed,            \* history: a screen came up under a finger that was held down
    rested              \* history: the canvas was last touched beside its stickers

history == <<design, asked, crossed, rested>>
screenVars == <<background, isSlectMoreBgIgm, presented, picking, held, phase, history>>
vars == <<canvasVars, screenVars>>

Backgrounds == [image : Photos \cup {NoImage}, colored : BOOLEAN]
Picture == [given |-> TRUE, stickers |-> canvas,
            handles |-> Edited, background |-> background]
NoDesign == [given |-> FALSE, stickers |-> {}, handles |-> {},
             background |-> [image |-> NoImage, colored |-> FALSE]]
Designs == [given : BOOLEAN, stickers : SUBSET Stickers, handles : SUBSET Stickers,
            background : Backgrounds]

\* What can be touched: a sticker, its cross, the work place beside them, the
\* rows of stickers and backgrounds, the rows that present, and the buttons.
Control(kind, s) == [kind |-> kind, sticker |-> s]
Button(kind) == Control(kind, NoSticker)
Buttons == {"beside", "sticker", "background", "photo", "more", "catalog", "done", "cancel"}
Controls == [kind : Buttons \cup {"tap", "close"}, sticker : Stickers \cup {NoSticker}]

TypeOK ==
    /\ CanvasTypeOK
    /\ background \in Backgrounds
    /\ {isSlectMoreBgIgm, picking, crossed, rested} \subseteq BOOLEAN
    /\ presented \in {"none", "picker", "loading", "stickers"}
    /\ held \subseteq Controls
    /\ phase \in {"editing", "done", "cancelled", "lost"}
    /\ design \in Designs
    /\ asked \in {"nothing", "sticker", "background"}

\* viewDidLoad: the home screen's image, when it has one, becomes the first
\* sticker; the background is the first of the list.
Init ==
    /\ \/ CanvasInit
       \/ \E s \in Stickers :
             /\ canvas = {s}
             /\ above = {}
             /\ handles = [t \in Stickers |-> TRUE]
             /\ selected = s
             /\ made = {s}
    /\ background \in [image : Photos, colored : {FALSE}]
    /\ isSlectMoreBgIgm = FALSE
    /\ presented = "none"
    /\ picking = FALSE
    /\ held = {}
    /\ phase = "editing"
    /\ design = NoDesign
    /\ asked = "nothing"
    /\ crossed = FALSE
    /\ rested = FALSE

-----------------------------------------------------------------------------
(* Fingers.                                                                *)

Uncovered == phase = "editing" /\ presented = "none" /\ ~picking

Touchable ==
    {Control("tap", s) : s \in canvas} \cup {Control("close", s) : s \in Edited}
    \cup {Button(kind) : kind \in Buttons}

\* A finger goes down and stays.
Touch(x) ==
    /\ Uncovered
    /\ x \in Touchable \ held
    /\ Cardinality(held) < MaxHeld
    /\ held' = held \cup {x}
    /\ UNCHANGED <<canvasVars, background, isSlectMoreBgIgm, presented, picking, phase, history>>

\* A control is pressed by a finger that goes down and up, or it is released by
\* one that is held down, whatever was presented in between.
Pressed(x) ==
    /\ phase = "editing"
    /\ \/ Uncovered /\ x \in Touchable \ held /\ held' = held
       \/ x \in held /\ held' = held \ {x}

\* A touch that ends elsewhere does nothing.
LiftOutside(x) ==
    /\ phase = "editing"
    /\ x \in held
    /\ held' = held \ {x}
    /\ UNCHANGED <<canvasVars, background, isSlectMoreBgIgm, presented, picking, phase, history>>

\* self.present: UIKit refuses to present over another screen.
Present(screen) ==
    /\ presented' = IF presented = "none" THEN screen ELSE presented
    /\ crossed' = (crossed \/ held' # {})

\* self.dismiss takes away what is presented, and the creator when nothing is. A
\* creator that is gone receives no pick.
Dismiss(outcome) ==
    /\ presented' = "none"
    /\ phase' = IF presented = "none" THEN outcome ELSE phase
    /\ picking' = (picking /\ presented # "none")

-----------------------------------------------------------------------------
(* The work place.                                                         *)

\* The canvas's own gestures.
CanvasGesture ==
    /\ \/ \E s \in Stickers :
             \/ Pressed(Control("tap", s)) /\ StickerViewDidTap(s) /\ rested' = FALSE
             \/ Pressed(Control("close", s)) /\ HandleCloseGesture(s) /\ rested' = rested
       \/ Pressed(Button("beside")) /\ HandelDidTapImageView /\ rested' = TRUE
    /\ UNCHANGED <<background, isSlectMoreBgIgm, presented, picking, phase, design, asked, crossed>>

\* A sticker of the row under the canvas.
ChooseSticker(s) ==
    /\ Pressed(Button("sticker"))
    /\ AddSticker(s)
    /\ rested' = FALSE
    /\ UNCHANGED <<background, isSlectMoreBgIgm, presented, picking, phase, design, asked, crossed>>

\* A colour replaces the picture; a picture leaves the colour beneath it; the
\* clear buttons take both away.
ChooseBackground ==
    /\ Pressed(Button("background"))
    /\ \/ background' \in [image : {NoImage}, colored : BOOLEAN]
       \/ \E p \in Photos : background' = [background EXCEPT !.image = p]
    /\ UNCHANGED <<canvasVars, isSlectMoreBgIgm, presented, picking, phase, history>>

\* Faulty variant of AsksFor: the flag is set for a background, never reset.
AsksForOnce(background_) ==
    /\ isSlectMoreBgIgm' = (isSlectMoreBgIgm \/ background_)
    /\ asked' = IF Uncovered THEN IF background_ THEN "background" ELSE "sticker" ELSE "nothing"
    /\ Present("picker")
    /\ UNCHANGED <<canvasVars, background, picking, phase, design, rested>>

\* The flag is set before the picker is presented: when that is refused, the
\* pick of the picker that is up, or on its way, goes where this button says.
AsksFor(background_) ==
    /\ isSlectMoreBgIgm' = background_
    /\ asked' = IF Uncovered THEN IF background_ THEN "background" ELSE "sticker" ELSE "nothing"
    /\ Present("picker")
    /\ UNCHANGED <<canvasVars, background, picking, phase, design, rested>>

\* The photo button asks for a sticker.
SelectPhotoButtonWasPressed == Pressed(Button("photo")) /\ AsksFor(FALSE)

\* Row 0 of the background pictures asks for a background.
SelectMoreBackground == Pressed(Button("more")) /\ AsksFor(TRUE)

\* Row 10 of the stickers opens the catalog.
SelectMoreSticker ==
    /\ Pressed(Button("catalog"))
    /\ Present("stickers")
    /\ UNCHANGED <<canvasVars, background, isSlectMoreBgIgm, picking, phase, design, asked, rested>>

\* Nothing is handed over; the picker of a pick is all that is dismissed when
\* one is up.
CancelButtonWasPressed ==
    /\ Pressed(Button("cancel"))
    /\ Dismiss("cancelled")
    /\ UNCHANGED <<canvasVars, background, isSlectMoreBgIgm, history>>

\* Faulty variants of DoneButtonWasPressed: the selected sticker is taken for the
\* one that shows handles; the design is handed over and the screen stays.
DoneWithSelected ==
    /\ Pressed(Button("done"))
    /\ design' = [Picture EXCEPT !.handles = {selected}]
    /\ Dismiss("done")
    /\ UNCHANGED <<canvasVars, background, isSlectMoreBgIgm, asked, crossed, rested>>
DoneStays ==
    /\ Pressed(Button("done"))
    /\ design' = Picture
    /\ UNCHANGED <<canvasVars, background, isSlectMoreBgIgm, presented, picking, phase, asked,
                   crossed, rested>>

\* The picture is rendered as the work place looks, handles included, and handed
\* over; then the dismissal takes the creator, or only what covers it.
DoneButtonWasPressed ==
    /\ Pressed(Button("done"))
    /\ design' = Picture
    /\ Dismiss("done")
    /\ UNCHANGED <<canvasVars, background, isSlectMoreBgIgm, asked, crossed, rested>>

-----------------------------------------------------------------------------
(* The screens it presents.                                                *)

\* The catalog passes the chosen sticker and goes away.
PassStickerImage(s) ==
    /\ presented = "stickers" /\ ~picking
    /\ presented' = "none"
    /\ AddSticker(s)
    /\ rested' = FALSE
    /\ UNCHANGED <<background, isSlectMoreBgIgm, picking, held, phase, design, asked, crossed>>

\* The catalog or the picker is closed.
ClosePresented ==
    /\ presented \in {"picker", "stickers"} /\ ~picking
    /\ presented' = "none"
    /\ UNCHANGED <<canvasVars, background, isSlectMoreBgIgm, picking, held, phase, history>>

PickerDone ==
    /\ presented = "picker" /\ ~picking
    /\ presented' = "loading"
    /\ picking' = TRUE
    /\ UNCHANGED <<canvasVars, background, isSlectMoreBgIgm, held, phase, history>>

\* A finger that was down on the picker's Cancel before the overlay came up.
CancelBehindOverlay ==
    /\ presented = "loading"
    /\ presented' = "none"
    /\ UNCHANGED <<canvasVars, background, isSlectMoreBgIgm, picking, held, phase, history>>

\* The handler dismisses first. With its picker already gone the dismissal takes
\* a screen opened since, or the creator itself with its design. An empty pick
\* adds a sticker without a picture, or clears the background's.
PickerDidFinish(img) ==
    /\ picking
    /\ picking' = FALSE
    /\ presented' = "none"
    /\ phase' = IF presented = "none" THEN "lost" ELSE phase
    /\ \/ /\ ~isSlectMoreBgIgm
          /\ \E s \in Stickers : AddSticker(s)
          /\ rested' = FALSE
          /\ UNCHANGED background
       \/ /\ isSlectMoreBgIgm
          /\ background' = [background EXCEPT !.image = img]
          /\ UNCHANGED <<canvasVars, rested>>
    /\ UNCHANGED <<isSlectMoreBgIgm, held, design, asked, crossed>>

Next ==
    \/ \E x \in Touchable : Touch(x)
    \/ \E x \in held : LiftOutside(x)
    \/ CanvasGesture
    \/ \E s \in Stickers : ChooseSticker(s) \/ PassStickerImage(s)
    \/ ChooseBackground
    \/ SelectPhotoButtonWasPressed
    \/ SelectMoreBackground
    \/ SelectMoreSticker
    \/ CancelButtonWasPressed
    \/ DoneButtonWasPressed
    \/ ClosePresented
    \/ PickerDone
    \/ CancelBehindOverlay
    \/ \E img \in Photos \cup {NoImage} : PickerDidFinish(img)

Spec == Init /\ [][Next]_vars

-----------------------------------------------------------------------------
(* Properties.                                                             *)

\* A pick becomes what the button that opened its picker asked for, whatever
\* pickers and catalogs were opened and cancelled before, unless the other button
\* is released while the picker is up or its pick is on the way (asked is then
\* "nothing"): the flag of isSlectMoreBgIgm is never stale.
PickGoesWhereAsked ==
    [][picking /\ ~picking' =>
          /\ asked = "sticker" => background' = background
          /\ asked = "background" => canvas' = canvas]_vars

\* A design shows handles of the selected sticker only and only where nothing
\* covers them; after a tap beside the stickers it shows none, whatever was
\* closed, opened or picked as a background since.
DesignHandlesInFront ==
    [][design' # design =>
          \A s \in design'.handles : s = selected /\ Front(s) /\ ~rested]_vars

\* What the home screen was handed is the work place as it was left by Done. As
\* long as no screen comes up under a finger, a creator that is still open, or
\* was cancelled, or was taken away by a late pick has handed over nothing.
HomeGetsWhatWasDone ==
    /\ phase = "done" => design = Picture
    /\ design.given /\ ~crossed => phase = "done"
===============================================================================
