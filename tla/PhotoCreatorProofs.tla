-------------------------- MODULE PhotoCreatorProofs --------------------------
(***************************************************************************)
(* Proofs about StickerCanvas and PhotoCreator for any stickers and photos.*)
(* First the canvas by itself: at most one sticker is edited, the selected *)
(* one, in front; a tap beside the stickers leaves no handles; the canvas  *)
(* implements ExclusiveEditing. Then the creator, with any number of       *)
(* fingers: a late pick goes where it was asked for, a design shows the    *)
(* handles of one sticker at most and is handed over by Done alone, and    *)
(* the canvas beneath the screens keeps all that it promises, from the     *)
(* lemmas about it.                                                        *)
(***************************************************************************)
EXTENDS PhotoCreator, TLAPS

-----------------------------------------------------------------------------
(* The canvas.                                                             *)

\* The inductive invariant. A sticker on the canvas can only show its handles
\* while it is selected, and a selected sticker is in front even while its
\* handles are hidden: that is what a tap beside the stickers relies on.
SelectedIsFront == selected \in canvas => Front(selected)
OnlySelectedShows == \A s \in canvas : handles[s] => s = selected
CanvasInv ==
    /\ CanvasTypeOK
    /\ canvas \subseteq made
    /\ SelectedIsFront
    /\ OnlySelectedShows

\* Selecting a sticker hides the handles of the one selected before, so that the
\* stickers of the canvas show handles only where they are selected.
LEMMA SelectHandsOver ==
    ASSUME NEW s \in Stickers, NEW views \in SUBSET Stickers, s \in views,
           NEW shown \in [Stickers -> BOOLEAN],
           \A t \in views : shown[t] => t = selected \/ t = s,
           CanvasTypeOK,
           Select(s, views, shown)
    PROVE  /\ selected' = s
           /\ handles' \in [Stickers -> BOOLEAN]
           /\ above' \in SUBSET (Stickers \X Stickers)
           /\ \A t \in views : handles'[t] <=> t = s
           /\ \A t \in views \ {s} : <<s, t>> \in above' /\ <<t, s>> \notin above'
<1>1. selected' = s
  BY DEF Select
<1>2. handles' \in [Stickers -> BOOLEAN]
  BY DEF Select
<1>3. above' = {p \in above : p[2] # s} \cup {<<s, t>> : t \in views \ {s}}
  BY DEF Select, Raised, InFront
<1>4. above' \in SUBSET (Stickers \X Stickers)
  BY <1>3 DEF CanvasTypeOK
<1>5. ASSUME NEW t \in views
      PROVE  handles'[t] <=> t = s
  BY DEF Select
<1>6. \A t \in views \ {s} : <<s, t>> \in above' /\ <<t, s>> \notin above'
  BY <1>3
<1> QED
  BY <1>1, <1>2, <1>4, <1>5, <1>6

LEMMA InitCanvasInv == CanvasInit => CanvasInv
BY NoStickerAssumption
   DEF CanvasInit, CanvasInv, CanvasTypeOK, SelectedIsFront, OnlySelectedShows, Front

\* What each handler does to the canvas and to the edited stickers.
LEMMA AddStickerStep ==
    ASSUME CanvasInv, NEW s \in Stickers, AddSticker(s)
    PROVE  CanvasInv' /\ Edited' = {s}
<1> DEFINE shown == [handles EXCEPT ![s] = FALSE]
<1>1. canvas' = canvas \cup {s} /\ made' = made \cup {s} /\ Select(s, canvas', shown)
  BY DEF AddSticker
<1>2. canvas' \in SUBSET Stickers /\ s \in canvas' /\ shown \in [Stickers -> BOOLEAN]
  BY <1>1 DEF CanvasInv, CanvasTypeOK
<1>3. \A t \in canvas' : shown[t] => t = selected \/ t = s
  BY <1>1 DEF CanvasInv, CanvasTypeOK, OnlySelectedShows
<1>4. /\ selected' = s
      /\ handles' \in [Stickers -> BOOLEAN]
      /\ above' \in SUBSET (Stickers \X Stickers)
      /\ \A t \in canvas' : handles'[t] <=> t = s
      /\ \A t \in canvas' \ {s} : <<s, t>> \in above' /\ <<t, s>> \notin above'
  <2> HIDE DEF shown
  <2> QED
    BY <1>1, <1>2, <1>3, SelectHandsOver DEF CanvasInv
<1> QED
  BY <1>1, <1>2, <1>4
     DEF CanvasInv, CanvasTypeOK, SelectedIsFront, OnlySelectedShows, Front, Edited

LEMMA DidTapStep ==
    ASSUME CanvasInv, NEW s \in Stickers, StickerViewDidTap(s)
    PROVE  CanvasInv' /\ Edited' = {s} /\ canvas' = canvas /\ made' = made
<1>1. s \in canvas /\ canvas' = canvas /\ made' = made /\ Select(s, canvas, handles)
  BY DEF StickerViewDidTap
<1>2. /\ selected' = s
      /\ handles' \in [Stickers -> BOOLEAN]
      /\ above' \in SUBSET (Stickers \X Stickers)
      /\ \A t \in canvas : handles'[t] <=> t = s
      /\ \A t \in canvas \ {s} : <<s, t>> \in above' /\ <<t, s>> \notin above'
  BY <1>1, SelectHandsOver DEF CanvasInv, CanvasTypeOK, OnlySelectedShows
<1> QED
  BY <1>1, <1>2 DEF CanvasInv, CanvasTypeOK, SelectedIsFront, OnlySelectedShows, Front, Edited

LEMMA TapBesideStep ==
    ASSUME CanvasInv, HandelDidTapImageView
    PROVE  CanvasInv' /\ Edited' = {} /\ canvas' = canvas /\ made' = made
BY DEF HandelDidTapImageView, CanvasInv, CanvasTypeOK, SelectedIsFront, OnlySelectedShows, Front,
       Edited

LEMMA CloseStep ==
    ASSUME CanvasInv, NEW s \in Stickers, HandleCloseGesture(s)
    PROVE  CanvasInv' /\ Edited' = Edited \ {s} /\ canvas' = canvas \ {s} /\ made' = made
BY DEF HandleCloseGesture, CanvasInv, CanvasTypeOK, SelectedIsFront, OnlySelectedShows, Front,
       Edited

LEMMA StutterStep ==
    ASSUME CanvasInv, UNCHANGED canvasVars
    PROVE  CanvasInv' /\ Edited' = Edited /\ canvas' = canvas /\ made' = made
BY DEF canvasVars, CanvasInv, CanvasTypeOK, SelectedIsFront, OnlySelectedShows, Front, Edited

LEMMA NextCanvasInv == CanvasInv /\ [CanvasNext]_canvasVars => CanvasInv'
<1> SUFFICES ASSUME CanvasInv, [CanvasNext]_canvasVars PROVE CanvasInv'
  OBVIOUS
<1>1. ASSUME NEW s \in Stickers, AddSticker(s) PROVE CanvasInv'
  BY <1>1, AddStickerStep
<1>2. ASSUME NEW s \in Stickers, StickerViewDidTap(s) PROVE CanvasInv'
  BY <1>2, DidTapStep
<1>3. ASSUME NEW s \in Stickers, HandleCloseGesture(s) PROVE CanvasInv'
  BY <1>3, CloseStep
<1>4. CASE HandelDidTapImageView
  BY <1>4, TapBesideStep
<1>5. CASE UNCHANGED canvasVars
  BY <1>5, StutterStep
<1> QED
  BY <1>1, <1>2, <1>3, <1>4, <1>5 DEF CanvasNext

\* The invariant holds in every state of the canvas.
THEOREM CanvasInvariant == CanvasSpec => []CanvasInv
BY InitCanvasInv, NextCanvasInv, PTL DEF CanvasSpec

\* Every variable of the canvas keeps its type.
THEOREM CanvasTypeCorrect == CanvasSpec => []CanvasTypeOK
<1>1. CanvasInv => CanvasTypeOK
  BY DEF CanvasInv
<1> QED
  BY <1>1, CanvasInvariant, PTL

\* At most one sticker on the canvas shows handles; it is the selected one and
\* lies in front of the others.
THEOREM EditedStickerIsSelectedInFront == CanvasSpec => []EditedIsSelectedInFront
<1>1. CanvasInv => EditedIsSelectedInFront
  BY DEF CanvasInv, EditedIsSelectedInFront, Edited, SelectedIsFront, OnlySelectedShows
<1> QED
  BY <1>1, CanvasInvariant, PTL

\* After a tap beside the stickers nothing on the canvas shows handles.
THEOREM TapBesideRestsCanvas == CanvasSpec => TapRestsCanvas
<1>1. CanvasInv => [HandelDidTapImageView => Edited' = {}]_canvasVars
  BY TapBesideStep
<1> QED
  BY <1>1, CanvasInvariant, PTL DEF TapRestsCanvas

\* Two stickers that stay on the canvas change places only when the lower one is
\* the one the user touched.
THEOREM OnlyTouchedStickerIsRaised == CanvasSpec => OnlyTouchedIsRaised
<1> DEFINE Kept == \A s, t \in canvas \cap canvas' :
                      <<s, t>> \in above /\ <<s, t>> \notin above' => t = selected'
<1>1. ASSUME CanvasNext PROVE Kept
  <2> SUFFICES ASSUME NEW s \in canvas, NEW t \in canvas, s \in canvas', t \in canvas',
                      <<s, t>> \in above, <<s, t>> \notin above'
               PROVE  t = selected'
    OBVIOUS
  <2>1. ASSUME NEW x, NEW views, NEW shown, Select(x, views, shown) PROVE t = selected'
    BY <2>1 DEF Select, Raised, InFront
  <2>2. ASSUME NEW x \in Stickers, AddSticker(x) PROVE t = selected'
    BY <2>1, <2>2 DEF AddSticker
  <2>3. ASSUME NEW x \in Stickers, StickerViewDidTap(x) PROVE t = selected'
    BY <2>1, <2>3 DEF StickerViewDidTap
  <2>4. ASSUME NEW x \in Stickers, HandleCloseGesture(x) PROVE t = selected'
    BY <2>4 DEF HandleCloseGesture
  <2>5. CASE HandelDidTapImageView
    BY <2>5 DEF HandelDidTapImageView
  <2> QED
    BY <1>1, <2>2, <2>3, <2>4, <2>5 DEF CanvasNext
<1>2. [CanvasNext]_canvasVars => [Kept]_canvasVars
  BY <1>1
<1> QED
  BY <1>2, PTL DEF CanvasSpec, OnlyTouchedIsRaised

-----------------------------------------------------------------------------

\* A handler of the canvas is a step of ExclusiveEditing.
LEMMA CanvasStepRefines ==
    CanvasInv /\ [CanvasNext]_canvasVars => [Exclusive!Next]_(Exclusive!exclusiveVars)
<1> SUFFICES ASSUME CanvasInv, [CanvasNext]_canvasVars
             PROVE  [Exclusive!Next]_(Exclusive!exclusiveVars)
  OBVIOUS
<1>1. ASSUME NEW s \in Stickers, AddSticker(s) PROVE Exclusive!Place(s)
  <2>1. s \notin made /\ made' = made \cup {s} /\ canvas' = canvas \cup {s}
    BY <1>1 DEF AddSticker
  <2> QED
    BY <1>1, <2>1, AddStickerStep DEF Exclusive!Place
<1>2. ASSUME NEW s \in Stickers, StickerViewDidTap(s) PROVE Exclusive!Focus(s)
  <2>1. s \in canvas
    BY <1>2 DEF StickerViewDidTap
  <2> QED
    BY <1>2, <2>1, DidTapStep DEF Exclusive!Focus
<1>3. ASSUME NEW s \in Stickers, HandleCloseGesture(s) PROVE Exclusive!Remove(s)
  <2>1. s \in canvas
    BY <1>3 DEF HandleCloseGesture
  <2> QED
    BY <1>3, <2>1, CloseStep DEF Exclusive!Remove
<1>4. CASE HandelDidTapImageView
  BY <1>4, TapBesideStep DEF Exclusive!Rest, Exclusive!Next
<1>5. CASE UNCHANGED canvasVars
  BY <1>5, StutterStep DEF Exclusive!exclusiveVars
<1> QED
  BY <1>1, <1>2, <1>3, <1>4, <1>5 DEF CanvasNext, Exclusive!Next

LEMMA CanvasInitRefines == CanvasInit => Exclusive!Init
BY DEF CanvasInit, Exclusive!Init, Exclusive!AtMostOne, Edited

\* The sticker canvas implements the specification of exclusive editing.
THEOREM StickerCanvasRefines == CanvasSpec => EditsExclusively
<1>1. CanvasSpec => Exclusive!Init
  BY CanvasInitRefines DEF CanvasSpec
<1> QED
  BY <1>1, CanvasInvariant, CanvasStepRefines, PTL DEF CanvasSpec, EditsExclusively, Exclusive!Spec

-----------------------------------------------------------------------------
(* The creator.                                                            *)

\* A creator that is gone has nothing presented and no pick on its way: that is
\* why nothing can change its work place any more.
FinishedIsAlone == phase # "editing" => presented = "none" /\ ~picking

\* The flag is written by the two buttons that ask for a picker and by nobody else.
FlagSaysWhatWasAsked ==
    asked # "nothing" => (isSlectMoreBgIgm <=> asked = "background")

\* A finger on a creator that is covered was there when the screen came up.
CoveredIsUntouched == ~crossed /\ (presented # "none" \/ picking) => held = {}

\* Closing stickers, opening screens and a background leave no handles behind that
\* a tap beside the stickers has hidden.
RestedShowsNoHandles == rested => Edited = {}

CreatorInv ==
    /\ TypeOK
    /\ CanvasInv
    /\ FinishedIsAlone
    /\ FlagSaysWhatWasAsked
    /\ CoveredIsUntouched
    /\ RestedShowsNoHandles
    /\ HomeGetsWhatWasDone

-----------------------------------------------------------------------------
(* The screens leave the canvas to its handlers.                           *)

\* The home screen's image as the first sticker is a canvas in order, too.
LEMMA InitCanvas == Init => CanvasInv /\ Exclusive!Init
<1> SUFFICES ASSUME Init PROVE CanvasInv /\ Exclusive!Init
  OBVIOUS
<1>1. CASE CanvasInit
  BY <1>1, InitCanvasInv, CanvasInitRefines
<1>2. ASSUME NEW s \in Stickers, canvas = {s}, above = {}, selected = s, made = {s},
             handles = [t \in Stickers |-> TRUE]
      PROVE  CanvasInv /\ Exclusive!Init
  BY <1>2 DEF CanvasInv, CanvasTypeOK, SelectedIsFront, OnlySelectedShows, Front, Edited,
              Exclusive!Init, Exclusive!AtMostOne
<1> QED
  BY <1>1, <1>2 DEF Init

\* The steps that leave the work place alone.
ScreenStep ==
    \/ \E x \in Touchable : Touch(x)
    \/ \E x \in held : LiftOutside(x)
    \/ SelectPhotoButtonWasPressed
    \/ SelectMoreBackground
    \/ SelectMoreSticker
    \/ CancelButtonWasPressed
    \/ DoneButtonWasPressed
    \/ ClosePresented
    \/ PickerDone
    \/ CancelBehindOverlay

LEMMA ScreenStepsKeepCanvas ==
    ScreenStep => UNCHANGED <<canvasVars, background, rested>>
BY DEF ScreenStep, Touch, LiftOutside, SelectPhotoButtonWasPressed, SelectMoreBackground, AsksFor,
       SelectMoreSticker, CancelButtonWasPressed, DoneButtonWasPressed, ClosePresented, PickerDone,
       CancelBehindOverlay, history

\* Whatever is presented, cancelled or delivered late, the canvas takes a step
\* of its own or none.
LEMMA CanvasSteps == [Next]_vars => [CanvasNext]_canvasVars
<1> SUFFICES ASSUME [Next]_vars PROVE CanvasNext \/ UNCHANGED canvasVars
  OBVIOUS
<1>1. CASE CanvasGesture
  BY <1>1 DEF CanvasGesture, CanvasNext
<1>2. ASSUME NEW s \in Stickers, ChooseSticker(s) \/ PassStickerImage(s)
      PROVE  CanvasNext
  BY <1>2 DEF ChooseSticker, PassStickerImage, CanvasNext
<1>3. ASSUME NEW img, PickerDidFinish(img) PROVE CanvasNext \/ UNCHANGED canvasVars
  BY <1>3 DEF PickerDidFinish, CanvasNext
<1>4. CASE ChooseBackground
  BY <1>4 DEF ChooseBackground
<1>5. CASE ScreenStep
  BY <1>5, ScreenStepsKeepCanvas
<1>6. CASE UNCHANGED vars
  BY <1>6 DEF vars
<1> QED
  BY <1>1, <1>2, <1>3, <1>4, <1>5, <1>6 DEF Next, ScreenStep

-----------------------------------------------------------------------------
(* The invariant.                                                          *)

LEMMA InitCreatorInv == Init => CreatorInv
<1> SUFFICES ASSUME Init PROVE CreatorInv
  OBVIOUS
<1>1. CanvasInv
  BY InitCanvas
<1>2. TypeOK
  <2>1. CanvasTypeOK
    BY <1>1 DEF CanvasInv
  <2>2. background \in Backgrounds /\ design \in Designs
    BY DEF Init, Backgrounds, Designs, NoDesign
  <2> QED
    BY <2>1, <2>2 DEF Init, TypeOK
<1>3. FinishedIsAlone /\ FlagSaysWhatWasAsked /\ CoveredIsUntouched /\ RestedShowsNoHandles
  BY DEF Init, FinishedIsAlone, FlagSaysWhatWasAsked, CoveredIsUntouched, RestedShowsNoHandles
<1>4. HomeGetsWhatWasDone
  BY DEF Init, HomeGetsWhatWasDone, NoDesign
<1> QED
  BY <1>1, <1>2, <1>3, <1>4 DEF CreatorInv

\* A creator that is gone does not move any more.
LEMMA FinishedRests ==
    ASSUME CreatorInv, phase # "editing", [Next]_vars
    PROVE  UNCHANGED vars
<1>1. presented = "none" /\ ~picking
  BY DEF CreatorInv, FinishedIsAlone
<1>2. \A x : ~Pressed(x) /\ ~Touch(x) /\ ~LiftOutside(x)
  BY DEF Pressed, Touch, LiftOutside, Uncovered
<1>3. ~Next
  BY <1>1, <1>2 DEF Next, CanvasGesture, ChooseSticker, PassStickerImage, ChooseBackground,
              SelectPhotoButtonWasPressed, SelectMoreBackground, SelectMoreSticker,
              ClosePresented, PickerDone, CancelBehindOverlay, PickerDidFinish,
              CancelButtonWasPressed, DoneButtonWasPressed
<1> QED
  BY <1>3

LEMMA StutterCreatorInv ==
    ASSUME CreatorInv, UNCHANGED vars
    PROVE  CreatorInv'
<1>1. CanvasInv'
  BY StutterStep DEF CreatorInv, vars
<1>2. UNCHANGED screenVars /\ UNCHANGED canvasVars
  BY DEF vars
<1>3. Edited' = Edited
  BY <1>2 DEF Edited, canvasVars
<1>4. TypeOK'
  BY <1>1, <1>2 DEF CreatorInv, TypeOK, CanvasInv, screenVars, history
<1>5. /\ FinishedIsAlone' /\ FlagSaysWhatWasAsked' /\ CoveredIsUntouched'
      /\ RestedShowsNoHandles' /\ HomeGetsWhatWasDone'
  BY <1>2, <1>3 DEF CreatorInv, FinishedIsAlone, FlagSaysWhatWasAsked, CoveredIsUntouched,
                    RestedShowsNoHandles, HomeGetsWhatWasDone, Picture, screenVars, canvasVars,
                    history
<1> QED
  BY <1>1, <1>4, <1>5 DEF CreatorInv

\* What is held down is a control, and a press puts no finger down.
LEMMA HeldTypes ==
    ASSUME CreatorInv, Next
    PROVE  held' \subseteq Controls
<1>1. \A x : Pressed(x) \/ LiftOutside(x) => held' \subseteq held
  BY DEF Pressed, LiftOutside
<1>2. ASSUME NEW x \in Touchable, Touch(x) PROVE held' \subseteq Controls
  <2>1. Touchable \subseteq Controls
    BY DEF CreatorInv, TypeOK, CanvasTypeOK, Touchable, Controls, Control, Button, Buttons, Edited
  <2> QED
    BY <1>2, <2>1 DEF Touch, CreatorInv, TypeOK
<1>3. \/ held' \subseteq held
      \/ \E x \in Touchable : Touch(x)
  BY <1>1 DEF Next, CanvasGesture, ChooseSticker, PassStickerImage, ChooseBackground,
              SelectPhotoButtonWasPressed, SelectMoreBackground, SelectMoreSticker,
              ClosePresented, PickerDone, CancelBehindOverlay, PickerDidFinish,
              CancelButtonWasPressed, DoneButtonWasPressed
<1> QED
  BY <1>2, <1>3 DEF CreatorInv, TypeOK

LEMMA BackgroundTypes ==
    ASSUME CreatorInv, Next
    PROVE  background' \in Backgrounds
<1>1. background \in [image : Photos \cup {NoImage}, colored : BOOLEAN]
  BY DEF CreatorInv, TypeOK, Backgrounds
<1>2. \A img \in Photos \cup {NoImage} : [background EXCEPT !.image = img] \in Backgrounds
  BY <1>1 DEF Backgrounds
<1>3. CASE ChooseBackground
  BY <1>2, <1>3 DEF ChooseBackground, Backgrounds
<1>4. CASE \E img \in Photos \cup {NoImage} : PickerDidFinish(img)
  BY <1>1, <1>2, <1>4 DEF PickerDidFinish, Backgrounds
<1>5. CASE CanvasGesture \/ (\E s \in Stickers : ChooseSticker(s) \/ PassStickerImage(s)) \/ ScreenStep
  BY <1>1, <1>5, ScreenStepsKeepCanvas
     DEF CanvasGesture, ChooseSticker, PassStickerImage, Backgrounds
<1> QED
  BY <1>3, <1>4, <1>5 DEF Next, ScreenStep

\* Done is the only step that hands anything over.
LEMMA OnlyDoneHandsOver ==
    ASSUME Next, ~DoneButtonWasPressed
    PROVE  design' = design /\ (phase' = "done" => phase = "done")
BY DEF Next, Touch, LiftOutside, CanvasGesture, ChooseSticker, PassStickerImage, ChooseBackground,
       SelectPhotoButtonWasPressed, SelectMoreBackground, AsksFor, SelectMoreSticker,
       ClosePresented, PickerDone, CancelBehindOverlay, PickerDidFinish, CancelButtonWasPressed,
       Dismiss, history

LEMMA DesignTypes ==
    ASSUME CreatorInv, Next
    PROVE  design' \in Designs
<1>1. CASE DoneButtonWasPressed
  <2>1. Picture \in Designs
    BY DEF CreatorInv, TypeOK, CanvasTypeOK, Picture, Designs, Edited
  <2> QED
    BY <1>1, <2>1 DEF DoneButtonWasPressed
<1>2. CASE ~DoneButtonWasPressed
  BY <1>2, OnlyDoneHandsOver DEF CreatorInv, TypeOK
<1> QED
  BY <1>1, <1>2

\* The flags, the screen that is up and the phase.
LEMMA FlagTypes ==
    ASSUME CreatorInv, Next
    PROVE  /\ {isSlectMoreBgIgm, picking, crossed, rested}' \subseteq BOOLEAN
           /\ presented' \in {"none", "picker", "loading", "stickers"}
           /\ phase' \in {"editing", "done", "cancelled", "lost"}
           /\ asked' \in {"nothing", "sticker", "background"}
<1> USE DEF CreatorInv, TypeOK
<1>1. CASE CanvasGesture \/ \E s \in Stickers : ChooseSticker(s) \/ PassStickerImage(s)
  BY <1>1 DEF CanvasGesture, ChooseSticker, PassStickerImage
<1>2. CASE ChooseBackground
  BY <1>2 DEF ChooseBackground, history
<1>3. CASE \E img \in Photos \cup {NoImage} : PickerDidFinish(img)
  BY <1>3 DEF PickerDidFinish
<1>4. CASE \/ \E x \in Touchable : Touch(x)
           \/ \E x \in held : LiftOutside(x)
           \/ ClosePresented \/ PickerDone \/ CancelBehindOverlay
  BY <1>4 DEF Touch, LiftOutside, ClosePresented, PickerDone, CancelBehindOverlay, history
<1>5. CASE CancelButtonWasPressed \/ DoneButtonWasPressed
  BY <1>5 DEF CancelButtonWasPressed, DoneButtonWasPressed, Dismiss, history
<1>6. CASE SelectPhotoButtonWasPressed \/ SelectMoreBackground \/ SelectMoreSticker
  BY <1>6 DEF SelectPhotoButtonWasPressed, SelectMoreBackground, AsksFor, SelectMoreSticker,
              Present
<1> QED
  BY <1>1, <1>2, <1>3, <1>4, <1>5, <1>6 DEF Next

\* The late pick takes its overlay with it and a dismissal that ends the creator
\* its pick; only the two buttons that ask for a picker touch the flag.
LEMMA ScreenInOrder ==
    ASSUME CreatorInv, Next, phase = "editing"
    PROVE  FinishedIsAlone' /\ FlagSaysWhatWasAsked'
<1> USE DEF CreatorInv, FinishedIsAlone, FlagSaysWhatWasAsked, TypeOK
<1>1. CASE CanvasGesture \/ \E s \in Stickers : ChooseSticker(s) \/ PassStickerImage(s)
  BY <1>1 DEF CanvasGesture, ChooseSticker, PassStickerImage
<1>2. CASE ChooseBackground
  BY <1>2 DEF ChooseBackground, history
<1>3. CASE \E img \in Photos \cup {NoImage} : PickerDidFinish(img)
  BY <1>3 DEF PickerDidFinish
<1>4. CASE \/ \E x \in Touchable : Touch(x)
           \/ \E x \in held : LiftOutside(x)
           \/ ClosePresented \/ PickerDone \/ CancelBehindOverlay
  BY <1>4 DEF Touch, LiftOutside, ClosePresented, PickerDone, CancelBehindOverlay, history
<1>5. CASE CancelButtonWasPressed \/ DoneButtonWasPressed
  <2>1. PICK outcome : Dismiss(outcome)
    BY <1>5 DEF CancelButtonWasPressed, DoneButtonWasPressed
  <2>2. FinishedIsAlone'
    BY <2>1 DEF Dismiss
  <2>3. UNCHANGED <<asked, isSlectMoreBgIgm>>
    BY <1>5 DEF CancelButtonWasPressed, DoneButtonWasPressed, history
  <2> QED
    BY <2>2, <2>3
<1>6. CASE SelectPhotoButtonWasPressed \/ SelectMoreBackground \/ SelectMoreSticker
  BY <1>6 DEF SelectPhotoButtonWasPressed, SelectMoreBackground, AsksFor, SelectMoreSticker,
              Uncovered
<1> QED
  BY <1>1, <1>2, <1>3, <1>4, <1>5, <1>6 DEF Next

\* A finger goes down only where nothing covers the creator, and a screen that
\* comes up over a finger is noticed.
LEMMA FingersInOrder ==
    ASSUME CreatorInv, Next
    PROVE  CoveredIsUntouched'
<1> USE DEF CreatorInv, CoveredIsUntouched
<1>1. \A x : Pressed(x) => held' \subseteq held
  BY DEF Pressed
<1>2. CASE CanvasGesture \/ \E s \in Stickers : ChooseSticker(s)
  BY <1>1, <1>2 DEF CanvasGesture, ChooseSticker
<1>3. CASE ChooseBackground
  BY <1>1, <1>3 DEF ChooseBackground, history
<1>4. CASE \/ \E img \in Photos \cup {NoImage} : PickerDidFinish(img)
           \/ \E s \in Stickers : PassStickerImage(s)
  BY <1>4 DEF PickerDidFinish, PassStickerImage
<1>5. CASE \E x \in Touchable : Touch(x)
  BY <1>5 DEF Touch, Uncovered
<1>6. CASE \/ \E x \in held : LiftOutside(x)
           \/ ClosePresented \/ PickerDone \/ CancelBehindOverlay
  BY <1>6 DEF LiftOutside, ClosePresented, PickerDone, CancelBehindOverlay, history
<1>7. CASE CancelButtonWasPressed \/ DoneButtonWasPressed
  BY <1>1, <1>7 DEF CancelButtonWasPressed, DoneButtonWasPressed, Dismiss, history
<1>8. CASE SelectPhotoButtonWasPressed \/ SelectMoreBackground \/ SelectMoreSticker
  BY <1>8 DEF SelectPhotoButtonWasPressed, SelectMoreBackground, AsksFor, SelectMoreSticker,
              Present
<1> QED
  BY <1>2, <1>3, <1>4, <1>5, <1>6, <1>7, <1>8 DEF Next

\* Handles come back only with a tap on a sticker or with a new one.
LEMMA RestInOrder ==
    ASSUME CreatorInv, Next
    PROVE  RestedShowsNoHandles'
<1> USE DEF RestedShowsNoHandles
<1>1. ASSUME NEW s \in Stickers, StickerViewDidTap(s) /\ rested' = FALSE
      PROVE  RestedShowsNoHandles'
  BY <1>1
<1>2. ASSUME NEW s \in Stickers, HandleCloseGesture(s), rested' = rested
      PROVE  RestedShowsNoHandles'
  BY <1>2, CloseStep DEF CreatorInv
<1>3. CASE HandelDidTapImageView
  BY <1>3, TapBesideStep DEF CreatorInv
<1>4. CASE CanvasGesture
  BY <1>1, <1>2, <1>3, <1>4 DEF CanvasGesture
<1>5. CASE \E s \in Stickers : ChooseSticker(s) \/ PassStickerImage(s)
  BY <1>5 DEF ChooseSticker, PassStickerImage
<1>6. ASSUME UNCHANGED <<canvasVars, rested>> PROVE RestedShowsNoHandles'
  BY <1>6 DEF CreatorInv, Edited, canvasVars
<1>7. CASE ChooseBackground
  BY <1>6, <1>7 DEF ChooseBackground, history
<1>8. CASE \E img \in Photos \cup {NoImage} : PickerDidFinish(img)
  BY <1>6, <1>8 DEF PickerDidFinish
<1>9. CASE ScreenStep
  BY <1>6, <1>9, ScreenStepsKeepCanvas
<1> QED
  BY <1>4, <1>5, <1>7, <1>8, <1>9 DEF Next, ScreenStep

\* Done is released over a creator that nothing covers, unless a screen came up
\* under the finger: otherwise the dismissal takes the creator itself.
LEMMA DesignHandedOver ==
    ASSUME CreatorInv, Next, phase = "editing"
    PROVE  HomeGetsWhatWasDone'
<1>1. CASE DoneButtonWasPressed
  <2>1. design' = Picture /\ UNCHANGED <<canvasVars, background, crossed>> /\ Dismiss("done")
    BY <1>1 DEF DoneButtonWasPressed
  <2>2. Picture' = Picture
    BY <2>1 DEF Picture, Edited, canvasVars
  <2>3. ~crossed => presented = "none"
    BY <1>1 DEF DoneButtonWasPressed, Pressed, Uncovered, CreatorInv, CoveredIsUntouched
  <2> QED
    BY <2>1, <2>2, <2>3 DEF HomeGetsWhatWasDone, Dismiss
<1>2. CASE ~DoneButtonWasPressed
  <2>1. design' = design /\ phase' # "done"
    BY <1>2, OnlyDoneHandsOver
  <2>2. crossed => crossed'
    BY DEF Next, Touch, LiftOutside, CanvasGesture, ChooseSticker, PassStickerImage,
           ChooseBackground, SelectPhotoButtonWasPressed, SelectMoreBackground, AsksFor,
           SelectMoreSticker, Present, ClosePresented, PickerDone, CancelBehindOverlay,
           PickerDidFinish, CancelButtonWasPressed, DoneButtonWasPressed, history
  <2> QED
    BY <2>1, <2>2 DEF CreatorInv, HomeGetsWhatWasDone
<1> QED
  BY <1>1, <1>2

LEMMA NextCreatorInv == CreatorInv /\ [Next]_vars => CreatorInv'
<1> SUFFICES ASSUME CreatorInv, [Next]_vars PROVE CreatorInv'
  OBVIOUS
<1>1. CASE UNCHANGED vars
  BY <1>1, StutterCreatorInv
<1>2. CASE Next /\ ~UNCHANGED vars
  <2>1. phase = "editing"
    BY <1>2, FinishedRests
  <2>2. CanvasInv'
    BY CanvasSteps, NextCanvasInv DEF CreatorInv
  <2>3. TypeOK'
    BY <1>2, <2>2, HeldTypes, BackgroundTypes, DesignTypes, FlagTypes DEF CanvasInv, TypeOK
  <2> QED
    BY <1>2, <2>1, <2>2, <2>3, ScreenInOrder, FingersInOrder, RestInOrder, DesignHandedOver
       DEF CreatorInv
<1> QED
  BY <1>1, <1>2

LEMMA CreatorInvariant == Spec => []CreatorInv
BY InitCreatorInv, NextCreatorInv, PTL DEF Spec

-----------------------------------------------------------------------------
(* Theorems.                                                               *)

\* Every variable of the creator keeps its type.
THEOREM TypeCorrect == Spec => []TypeOK
<1>1. CreatorInv => TypeOK
  BY DEF CreatorInv
<1> QED
  BY <1>1, CreatorInvariant, PTL

\* A design shows the handles of the selected sticker at most, in front of all
\* others, and none after a tap beside the stickers.
THEOREM DesignsShowOneSticker == Spec => DesignHandlesInFront
<1> DEFINE Clean == design' # design =>
                       \A s \in design'.handles : s = selected /\ Front(s) /\ ~rested
<1>1. ASSUME CreatorInv, Next PROVE Clean
  <2> SUFFICES ASSUME DoneButtonWasPressed PROVE Clean
    BY <1>1, OnlyDoneHandsOver
  <2>1. design'.handles = Edited
    BY DEF DoneButtonWasPressed, Picture
  <2>2. \A s \in Edited : s = selected /\ Front(s) /\ ~rested
    BY <1>1 DEF CreatorInv, CanvasInv, Edited, SelectedIsFront, OnlySelectedShows,
                RestedShowsNoHandles
  <2> QED
    BY <2>1, <2>2
<1>2. CreatorInv /\ [Next]_vars => [Clean]_vars
  BY <1>1
<1> QED
  BY <1>2, CreatorInvariant, PTL DEF Spec, DesignHandlesInFront

\* A pick, late or not, becomes what the button that opened its picker asked for,
\* unless the other button was released under it.
THEOREM PicksGoWhereAsked == Spec => PickGoesWhereAsked
<1> DEFINE Goes == picking /\ ~picking' =>
                      /\ asked = "sticker" => background' = background
                      /\ asked = "background" => canvas' = canvas
<1>1. ASSUME CreatorInv, Next PROVE Goes
  <2> SUFFICES ASSUME picking, ~picking' PROVE Goes
    OBVIOUS
  <2>1. CASE CancelButtonWasPressed \/ DoneButtonWasPressed
    BY <2>1 DEF CancelButtonWasPressed, DoneButtonWasPressed, canvasVars
  <2>2. CASE \E img \in Photos \cup {NoImage} : PickerDidFinish(img)
    BY <1>1, <2>2 DEF PickerDidFinish, CreatorInv, FlagSaysWhatWasAsked, canvasVars
  <2> QED
    BY <1>1, <2>1, <2>2
       DEF Next, Touch, LiftOutside, CanvasGesture, ChooseSticker, PassStickerImage,
           ChooseBackground, SelectPhotoButtonWasPressed, SelectMoreBackground, AsksFor,
           SelectMoreSticker, ClosePresented, PickerDone, CancelBehindOverlay
<1>2. CreatorInv /\ [Next]_vars => [Goes]_vars
  BY <1>1
<1> QED
  BY <1>2, CreatorInvariant, PTL DEF Spec, PickGoesWhereAsked

\* The home screen is handed the work place as Done left it; without a finger
\* under a screen, a creator that was cancelled or lost has handed over nothing.
THEOREM HomeGetsDesigns == Spec => []HomeGetsWhatWasDone
<1>1. CreatorInv => HomeGetsWhatWasDone
  BY DEF CreatorInv
<1> QED
  BY <1>1, CreatorInvariant, PTL

\* The canvas of the creator implements ExclusiveEditing under all its screens.
THEOREM CreatorRefines == Spec => EditsExclusively
<1>1. Init => Exclusive!Init
  BY InitCanvas
<1>2. CreatorInv /\ [Next]_vars => [Exclusive!Next]_(Exclusive!exclusiveVars)
  BY CanvasSteps, CanvasStepRefines DEF CreatorInv
<1> QED
  BY <1>1, <1>2, CreatorInvariant, PTL DEF Spec, EditsExclusively, Exclusive!Spec
===============================================================================
