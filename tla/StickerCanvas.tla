----------------------------- MODULE StickerCanvas -----------------------------
(***************************************************************************)
(* Stickers on a work place, as the photo creator and five screens of the  *)
(* frame gallery keep them: StickerView draws its editing handles itself,  *)
(* the screen's selectedStickerView decides which sticker shows them.      *)
(*                                                                         *)
(* A closed sticker leaves its superview but neither its handles nor the   *)
(* selection are reset, so both are kept for every sticker ever made.      *)
(* The subviews' order is the relation above: <<s, t>> when s covers t.    *)
(***************************************************************************)
CONSTANTS
    Stickers,   \* sticker views that can be made
    NoSticker   \* selectedStickerView = nil

ASSUME NoStickerAssumption == NoSticker \notin Stickers

VARIABLES
    canvas,     \* stickers that are subviews of the work place
    above,      \* which of them covers which
    handles,    \* handles[s]: s.showEditingHandlers
    selected,   \* _selectedStickerView
    made        \* stickers created so far

canvasVars == <<canvas, above, handles, selected, made>>

CanvasTypeOK ==
    /\ canvas \in SUBSET Stickers
    /\ above \in SUBSET (Stickers \X Stickers)
    /\ handles \in [Stickers -> BOOLEAN]
    /\ selected \in Stickers \cup {NoSticker}
    /\ made \in SUBSET Stickers

\* A sticker view is created with its handles shown.
CanvasInit ==
    /\ canvas = {}
    /\ above = {}
    /\ handles = [s \in Stickers |-> TRUE]
    /\ selected = NoSticker
    /\ made = {}

-----------------------------------------------------------------------------

\* addSubview and bringSubviewToFront: s covers every other subview.
InFront(s, views) ==
    {p \in above : p[2] # s} \cup {<<s, t>> : t \in views \ {s}}

\* Faulty variants of Raised: the sticker selected before is raised, as when the
\* setter stores the new one last; or none is.
RaisedBefore(s, views) == IF selected \in views THEN InFront(selected, views) ELSE above
RaisedNever(s, views) == above

\* bringSubviewToFront sent to the sticker's superview: nobody, once it is closed.
Raised(s, views) == IF s \in views THEN InFront(s, views) ELSE above

\* Faulty variant of Select: the sticker selected before keeps its handles.
SelectKeepsHandles(s, views, shown) ==
    /\ selected' = s
    /\ handles' = [shown EXCEPT ![s] = TRUE]
    /\ above' = Raised(s, views)

\* The setter of selectedStickerView, given the handles before it: a different
\* sticker takes the handles from the one selected before; the one selected now
\* gets them in any case and is brought to the front.
Select(s, views, shown) ==
    /\ selected' = s
    /\ handles' = [t \in Stickers |->
                     \/ t = s
                     \/ shown[t] /\ ~(t = selected /\ selected # s)]
    /\ above' = Raised(s, views)

-----------------------------------------------------------------------------
(* Handlers.                                                               *)

\* Faulty variant of AddSticker: a closed sticker view is used again.
AddStickerAgain(s) ==
    /\ s \notin canvas
    /\ made' = made \cup {s}
    /\ canvas' = canvas \cup {s}
    /\ Select(s, canvas', [handles EXCEPT ![s] = FALSE])

\* A sticker chosen from the catalog, picked from the photos or handed over by
\* the home screen: made with hidden handles, added, then selected.
AddSticker(s) ==
    /\ s \notin made
    /\ made' = made \cup {s}
    /\ canvas' = canvas \cup {s}
    /\ Select(s, canvas', [handles EXCEPT ![s] = FALSE])

\* Faulty variant of StickerViewDidTap: the handles are shown past the setter.
StickerViewDidTapUnselected(s) ==
    /\ s \in canvas
    /\ handles' = [handles EXCEPT ![s] = TRUE]
    /\ UNCHANGED <<canvas, above, selected, made>>

\* A tap on a sticker, or the start of a move: both select it.
StickerViewDidTap(s) ==
    /\ s \in canvas
    /\ Select(s, canvas, handles)
    /\ UNCHANGED <<canvas, made>>

\* Faulty variant of HandelDidTapImageView: only subviews keep a handles flag.
HandelDidTapSubviews ==
    /\ handles' = [s \in canvas |-> handles[s] /\ s # selected]
    /\ UNCHANGED <<canvas, above, selected, made>>

\* A tap beside the stickers hides the handles of the selected one, which stays
\* selected.
HandelDidTapImageView ==
    /\ handles' = [s \in Stickers |-> handles[s] /\ s # selected]
    /\ UNCHANGED <<canvas, above, selected, made>>

\* The close handle. A finger that is down on it while another finger's tap hides
\* the handles still closes the sticker: the handler does not ask. The screen's
\* stickerViewDidClose is empty.
HandleCloseGesture(s) ==
    /\ s \in canvas
    /\ canvas' = canvas \ {s}
    /\ above' = {p \in above : s \notin {p[1], p[2]}}
    /\ UNCHANGED <<handles, selected, made>>

CanvasNext ==
    \/ \E s \in Stickers : AddSticker(s)
    \/ \E s \in Stickers : StickerViewDidTap(s)
    \/ \E s \in Stickers : HandleCloseGesture(s)
    \/ HandelDidTapImageView

CanvasSpec == CanvasInit /\ [][CanvasNext]_canvasVars

-----------------------------------------------------------------------------
(* Properties.                                                             *)

Edited == {s \in canvas : handles[s]}
Front(s) == \A t \in canvas \ {s} : <<s, t>> \in above /\ <<t, s>> \notin above

\* "if other sticker choosed then resign the handler": a sticker on the canvas
\* shows its handles only while it is the selected one and covers the others, so
\* that no two stickers show handles and no handle is hidden behind a sticker.
EditedIsSelectedInFront == \A s \in Edited : s = selected /\ Front(s)

\* A tap beside the stickers leaves no handles at all on the canvas, also after
\* the selected sticker was closed and the selection points outside the canvas.
TapRestsCanvas == [][HandelDidTapImageView => Edited' = {}]_canvasVars

\* The order of the stickers changes only to bring the sticker the user touched
\* or added to the front: no other pair is swapped.
OnlyTouchedIsRaised ==
    [][\A s, t \in canvas \cap canvas' :
          <<s, t>> \in above /\ <<s, t>> \notin above' => t = selected']_canvasVars

\* The canvas promises what ExclusiveEditing says, with the handles as editing.
Exclusive == INSTANCE ExclusiveEditing WITH
    Items <- Stickers, placed <- canvas, edited <- Edited, used <- made
EditsExclusively == Exclusive!Spec
===============================================================================
