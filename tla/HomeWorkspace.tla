---------------------------- MODULE HomeWorkspace ----------------------------
(***************************************************************************)
(* The home screen: one image on a work place, the screens it presents to  *)
(* change that image, and the results those screens send back.             *)
(*                                                                         *)
(* Everything here runs on the main thread, but two kinds of result arrive *)
(* after the screen that started them has gone or may have gone:           *)
(*   - the crop and the basic editor are dismissed first and their edit is *)
(*     rendered on Brightroom's serial queue, which then posts the result  *)
(*     to the main queue (rendering, landing);                             *)
(*   - the photo picker loads its photo in the background behind a loading *)
(*     overlay (picking), and a finger that was already down on Cancel     *)
(*     still cancels it.                                                   *)
(* An image is the photo it comes from and the edits it carries, each edit *)
(* being the tool that made it and a serial number.                        *)
(***************************************************************************)
EXTENDS Integers, Sequences, FiniteSets

CONSTANTS
    Photos,     \* pictures that a picker, a camera or a creator can deliver
    NoImage,    \* imageView.image = nil
    MaxEdits,   \* bound: edits finished in a behaviour
    MaxSaves    \* bound: writes to the album under way at once

ASSUME BoundsAssumption == MaxEdits \in Nat /\ MaxSaves \in Nat

VARIABLES
    image,          \* imageView.image
    imageHidden,    \* imageView.isHidden
    emptyHidden,    \* emptyView.isHidden
    presented,      \* the screen or alert over the home screen, or "none"
    source,         \* the image handed to the tool that is open
    rendering,      \* Brightroom's serial queue of edits to render
    landing,        \* rendered results posted to the main queue
    picking,        \* a pick is being loaded and the overlay covers the window
    saves,          \* album writes whose callback has not come
    edits,          \* edits finished so far: the next serial number
    writer,         \* history: the handler that last assigned imageView.image
    awaited         \* history: the open tool was opened with a render under way

vars == <<image, imageHidden, emptyHidden, presented, source, rendering,
          landing, picking, saves, edits, writer, awaited>>

RenderedTools == {"crop", "basic"}
DirectTools == {"mask", "filter", "text"}
Tools == RenderedTools \cup DirectTools
Screens == Tools \cup {"picker", "camera", "creator", "frames", "share",
                       "confirmDelete", "alert"}
Writers == Tools \cup {"init", "delete", "picker", "camera", "creator", "frames"}

Edit == Tools \X (1 .. MaxEdits)
Image == [photo : Photos, edits : SUBSET Edit]
ASSUME NoImageAssumption == NoImage \notin Image

Fresh(p) == [photo |-> p, edits |-> {}]
Edited(img, tool) ==
    [photo |-> img.photo, edits |-> img.edits \cup {<<tool, edits + 1>>}]

TypeOK ==
    /\ image \in Image \cup {NoImage}
    /\ imageHidden \in BOOLEAN
    /\ emptyHidden \in BOOLEAN
    /\ presented \in Screens \cup {"none"}
    /\ source \in Image \cup {NoImage}
    /\ rendering \in Seq(RenderedTools \X Image)
    /\ landing \in Seq(RenderedTools \X Image)
    /\ picking \in BOOLEAN
    /\ saves \in 0 .. MaxSaves
    /\ edits \in 0 .. MaxEdits
    /\ writer \in Writers
    /\ awaited \in BOOLEAN

Init ==
    /\ image = NoImage
    /\ imageHidden = TRUE
    /\ emptyHidden = FALSE
    /\ presented = "none"
    /\ source = NoImage
    /\ rendering = <<>>
    /\ landing = <<>>
    /\ picking = FALSE
    /\ saves = 0
    /\ edits = 0
    /\ writer = "init"
    /\ awaited = FALSE

-----------------------------------------------------------------------------
(* What the handlers do to the work place.                                 *)

\* imageView.image = img and nothing else
SetImage(img, by) ==
    /\ image' = img
    /\ writer' = by

\* Faulty variant of ShowImageView: the empty view goes, the image view stays hidden.
ShowImageViewHidden ==
    /\ emptyHidden' = TRUE
    /\ UNCHANGED imageHidden

\* the work place shows the image view instead of the empty view
ShowImageView ==
    /\ imageHidden' = FALSE
    /\ emptyHidden' = TRUE

KeepImage == UNCHANGED <<image, writer>>
KeepViews == UNCHANGED <<imageHidden, emptyHidden>>
KeepRenders == UNCHANGED <<rendering, landing>>
KeepHistory == UNCHANGED <<source, edits, awaited>>

\* The overlay and every presented screen cover the buttons of this one.
OnHome == presented = "none" /\ ~picking
On(screen) == presented = screen /\ ~picking

\* self.present(...) with nothing presented yet
Present(screen) == presented' = screen

-----------------------------------------------------------------------------
(* Buttons of the home screen.                                             *)

PhotoButtonWasPressed ==
    /\ OnHome
    /\ Present("picker")
    /\ UNCHANGED <<picking, saves>> /\ KeepImage /\ KeepViews /\ KeepRenders /\ KeepHistory

\* Without a camera the press only logs a line.
CameraButtonWasPressed ==
    /\ OnHome
    /\ Present("camera")
    /\ UNCHANGED <<picking, saves>> /\ KeepImage /\ KeepViews /\ KeepRenders /\ KeepHistory

DeleteButtonWasPressed ==
    /\ OnHome
    /\ Present(IF image # NoImage THEN "confirmDelete" ELSE "alert")
    /\ UNCHANGED <<picking, saves>> /\ KeepImage /\ KeepViews /\ KeepRenders /\ KeepHistory

ShareButtonWasPressed ==
    /\ OnHome
    /\ Present(IF image # NoImage THEN "share" ELSE "alert")
    /\ UNCHANGED <<picking, saves>> /\ KeepImage /\ KeepViews /\ KeepRenders /\ KeepHistory

SaveButtonWasPressed ==
    /\ OnHome
    /\ \/ /\ image # NoImage
          /\ saves < MaxSaves
          /\ saves' = saves + 1
          /\ UNCHANGED presented
       \/ /\ image = NoImage
          /\ Present("alert")
          /\ UNCHANGED saves
    /\ UNCHANGED picking /\ KeepImage /\ KeepViews /\ KeepRenders /\ KeepHistory

\* Faulty variant of OpenTool: the screen is made once and keeps its first image.
OpenToolOnce(tool) ==
    /\ OnHome
    /\ image # NoImage
    /\ Present(tool)
    /\ source' = IF source = NoImage THEN image ELSE source
    /\ awaited' = (rendering \o landing # <<>>)
    /\ UNCHANGED <<picking, saves, edits>> /\ KeepImage /\ KeepViews /\ KeepRenders

\* Crop, basic editor, filter, background removal and text need an image and
\* get the one on the work place.
OpenTool(tool) ==
    /\ OnHome
    /\ \/ /\ image # NoImage
          /\ Present(tool)
          /\ source' = image
          /\ awaited' = (rendering \o landing # <<>>)
       \/ /\ image = NoImage
          /\ Present("alert")
          /\ UNCHANGED <<source, awaited>>
    /\ UNCHANGED <<picking, saves, edits>> /\ KeepImage /\ KeepViews /\ KeepRenders

\* The photo creator takes the image as a sticker when there is one; the
\* frame gallery takes nothing.
OpenCreator(screen) ==
    /\ screen \in {"creator", "frames"}
    /\ OnHome
    /\ Present(screen)
    /\ UNCHANGED <<picking, saves>> /\ KeepImage /\ KeepViews /\ KeepRenders /\ KeepHistory

-----------------------------------------------------------------------------
(* Screens that end without a result, and the delete alert.                *)

Dismissed ==
    /\ presented # "none"
    /\ presented' = "none"

\* Cancel buttons, the alert's OK, the share sheet going away. An alert that a
\* finished save brings up lies over the overlay.
CancelScreen ==
    /\ ~picking \/ presented = "alert"
    /\ Dismissed
    /\ UNCHANGED <<picking, saves>> /\ KeepImage /\ KeepViews /\ KeepRenders /\ KeepHistory

\* Faulty variant of DeleteConfirmed: the empty view is not shown again.
DeleteConfirmedBlank ==
    /\ On("confirmDelete")
    /\ Dismissed
    /\ SetImage(NoImage, "delete")
    /\ imageHidden' = TRUE
    /\ UNCHANGED emptyHidden
    /\ UNCHANGED <<picking, saves>> /\ KeepRenders /\ KeepHistory

DeleteConfirmed ==
    /\ On("confirmDelete")
    /\ Dismissed
    /\ SetImage(NoImage, "delete")
    /\ imageHidden' = TRUE
    /\ emptyHidden' = FALSE
    /\ UNCHANGED <<picking, saves>> /\ KeepRenders /\ KeepHistory

-----------------------------------------------------------------------------
(* Results delivered while their screen is still there.                    *)

CameraDidFinish(p) ==
    /\ On("camera")
    /\ SetImage(Fresh(p), "camera")
    /\ ShowImageView
    /\ Dismissed
    /\ UNCHANGED <<picking, saves>> /\ KeepRenders /\ KeepHistory

\* The mask, filter and text screens return the edited image and go away. None
\* of their handlers touches the hidden flags.
DirectToolDidFinish(tool) ==
    /\ tool \in DirectTools
    /\ On(tool)
    /\ edits < MaxEdits
    /\ SetImage(Edited(source, tool), tool)
    /\ edits' = edits + 1
    /\ Dismissed
    /\ UNCHANGED <<picking, saves, source, awaited>> /\ KeepViews /\ KeepRenders

\* A picture composed on the creator's or a frame's canvas.
CreatorDidFinish(screen, p) ==
    /\ screen \in {"creator", "frames"}
    /\ On(screen)
    /\ SetImage(Fresh(p), screen)
    /\ ShowImageView
    /\ Dismissed
    /\ UNCHANGED <<picking, saves>> /\ KeepRenders /\ KeepHistory

-----------------------------------------------------------------------------
(* Crop and basic editor: dismissed first, rendered after.                 *)

RenderedToolDidFinish(tool) ==
    /\ tool \in RenderedTools
    /\ On(tool)
    /\ edits < MaxEdits
    /\ Dismissed
    /\ rendering' = Append(rendering, <<tool, Edited(source, tool)>>)
    /\ edits' = edits + 1
    /\ UNCHANGED <<landing, picking, saves, source, awaited>> /\ KeepImage /\ KeepViews

\* Faulty variant of RenderNext: a concurrent queue, where the edit that was
\* queued last may be rendered first.
RenderAny ==
    /\ rendering # <<>>
    /\ rendering' = SubSeq(rendering, 1, Len(rendering) - 1)
    /\ landing' = Append(landing, rendering[Len(rendering)])
    /\ UNCHANGED <<presented, picking, saves>> /\ KeepImage /\ KeepViews /\ KeepHistory

\* The renderer's queue takes one edit at a time and posts its result to the
\* main queue. A failed render posts an error, which the handler only logs.
RenderNext ==
    /\ rendering # <<>>
    /\ rendering' = Tail(rendering)
    /\ landing' \in {Append(landing, Head(rendering)), landing}
    /\ UNCHANGED <<presented, picking, saves>> /\ KeepImage /\ KeepViews /\ KeepHistory

\* Faulty variant of RenderLands: the result waits until nothing is presented.
RenderLandsAtHome ==
    /\ landing # <<>>
    /\ presented = "none"
    /\ landing' = Tail(landing)
    /\ SetImage(Head(landing)[2], Head(landing)[1])
    /\ UNCHANGED <<presented, rendering, picking, saves>> /\ KeepViews /\ KeepHistory

RenderLands ==
    /\ landing # <<>>
    /\ landing' = Tail(landing)
    /\ SetImage(Head(landing)[2], Head(landing)[1])
    /\ UNCHANGED <<presented, rendering, picking, saves>> /\ KeepViews /\ KeepHistory

-----------------------------------------------------------------------------
(* Photo picker: Done starts loading behind the overlay.                   *)

PickerDone ==
    /\ On("picker")
    /\ picking' = TRUE
    /\ UNCHANGED <<presented, saves>> /\ KeepImage /\ KeepViews /\ KeepRenders /\ KeepHistory

\* A finger that was down on Cancel before the overlay came up.
CancelBehindOverlay ==
    /\ picking
    /\ presented = "picker"
    /\ Dismissed
    /\ UNCHANGED <<picking, saves>> /\ KeepImage /\ KeepViews /\ KeepRenders /\ KeepHistory

\* The handler dismisses whatever is presented and assigns photos.first.
PickerDidFinish(photos) ==
    /\ picking
    /\ picking' = FALSE
    /\ presented' = "none"
    /\ SetImage(IF photos = <<>> THEN NoImage ELSE Fresh(Head(photos)), "picker")
    /\ ShowImageView
    /\ UNCHANGED saves /\ KeepRenders /\ KeepHistory

-----------------------------------------------------------------------------
(* The album write reports back; the alert it asks for is refused by UIKit *)
(* while something else is presented. A failed write is only logged.       *)

\* Faulty variant of DidFinishSaving: a write may report more than once.
DidFinishSavingTwice ==
    /\ saves' = saves - 1
    /\ presented' \in {presented, IF presented = "none" THEN "alert" ELSE presented}
    /\ UNCHANGED picking /\ KeepImage /\ KeepViews /\ KeepRenders /\ KeepHistory

DidFinishSaving ==
    /\ saves > 0
    /\ saves' = saves - 1
    /\ presented' \in {presented, IF presented = "none" THEN "alert" ELSE presented}
    /\ UNCHANGED picking /\ KeepImage /\ KeepViews /\ KeepRenders /\ KeepHistory

-----------------------------------------------------------------------------

User ==
    \/ PhotoButtonWasPressed
    \/ CameraButtonWasPressed
    \/ DeleteButtonWasPressed
    \/ ShareButtonWasPressed
    \/ SaveButtonWasPressed
    \/ \E tool \in Tools : OpenTool(tool)
    \/ \E screen \in {"creator", "frames"} : OpenCreator(screen)
    \/ CancelScreen
    \/ DeleteConfirmed
    \/ \E p \in Photos : CameraDidFinish(p)
    \/ \E tool \in DirectTools : DirectToolDidFinish(tool)
    \/ \E screen \in {"creator", "frames"}, p \in Photos : CreatorDidFinish(screen, p)
    \/ \E tool \in RenderedTools : RenderedToolDidFinish(tool)
    \/ PickerDone
    \/ CancelBehindOverlay

Background ==
    \/ RenderNext
    \/ RenderLands
    \/ \E photos \in {<<>>} \cup {<<p>> : p \in Photos} : PickerDidFinish(photos)
    \/ DidFinishSaving

Next == User \/ Background

Spec == Init /\ [][Next]_vars

\* The renderer's queue and the main queue are served; the user need not act.
FairSpec == Spec /\ WF_vars(RenderNext) /\ WF_vars(RenderLands)

-----------------------------------------------------------------------------
(* Properties.                                                             *)

\* The tool on screen works on the image of the work place: an edit that is
\* finished replaces the image it was made from and no other. Only a render
\* that was under way when the tool was opened can change the image beneath
\* it, because every other handler that assigns the image needs the screen.
ToolSeesCurrentImage ==
    presented \in Tools /\ ~awaited => source = image

\* Deleting hides the image view, and none of the editors shows it again: an
\* image behind the empty view can only be a crop or a basic edit that landed
\* after the delete, or an edit made on top of such an image.
HiddenImageIsLateRender ==
    imageHidden /\ image # NoImage => \E e \in image.edits : e[1] \in RenderedTools

\* The work place never shows an image view with no image, unless the picker
\* delivered no photo at all.
BlankOnlyFromEmptyPick ==
    emptyHidden /\ image = NoImage => writer = "picker"

SerialNumbers(img) == {e[2] : e \in img.edits}
LastEdit(img) == CHOOSE n \in SerialNumbers(img) : \A m \in SerialNumbers(img) : m <= n

\* Two edits rendered at the same time land in the order they were finished:
\* an earlier result never arrives to overwrite a later one.
Pending == landing \o rendering
RendersLandInOrder ==
    \A i, j \in 1 .. Len(Pending) :
        i < j => LastEdit(Pending[i][2]) < LastEdit(Pending[j][2])

\* What the user finished in the crop or the basic editor is delivered or has
\* failed: it does not stay in a queue, whatever the user opens or closes next.
Rendering(n) == \E i \in 1 .. Len(Pending) : LastEdit(Pending[i][2]) = n
EveryRenderLands == \A n \in 1 .. MaxEdits : Rendering(n) ~> ~Rendering(n)
=============================================================================
