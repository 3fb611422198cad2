------------------------------ MODULE TextCanvas ------------------------------
(***************************************************************************)
(* Text labels on the image of the text screen. A JLStickerLabelView knows *)
(* whether it shows its editing handles; the JLStickerImageView keeps the  *)
(* label that the panels style, currentlyEditingLabel, from the callbacks  *)
(* of its labels; UIKit keeps the first responder, whose text is typed.    *)
(* Neither closing a label nor cleaning up takes it out of the list, so a  *)
(* closed label may still be the current one.                              *)
(***************************************************************************)
CONSTANTS
    Labels,         \* labels that can be made
    NoLabel,        \* currentlyEditingLabel = nil, no first responder
    Styles,         \* colours, sizes, fonts, alignments a panel can give
    PlainStyle,     \* the style of a new label
    Autocorrection  \* the keyboard may commit a suggestion as it is dismissed

ASSUME TextAssumption ==
    /\ NoLabel \notin Labels
    /\ PlainStyle \in Styles
    /\ Autocorrection \in BOOLEAN

VARIABLES
    canvas,     \* labels that are subviews of the image
    made,       \* labels: those made so far
    showing,    \* isShowingEditingHandles of each label
    filled,     \* labels whose text is not empty
    style,      \* the style of each label's text
    current,    \* currentlyEditingLabel
    focus,      \* the label whose text view is first responder
    phase,      \* "editing", "done", "cancelled"
    picture     \* history: the labels and handles that were rendered

vars == <<canvas, made, showing, filled, style, current, focus, phase, picture>>

NoPicture == [labels |-> {}, handles |-> {}]

TypeOK ==
    /\ canvas \in SUBSET Labels
    /\ made \in SUBSET Labels
    /\ showing \in [Labels -> BOOLEAN]
    /\ filled \in SUBSET Labels
    /\ style \in [Labels -> Styles]
    /\ current \in Labels \cup {NoLabel}
    /\ focus \in Labels \cup {NoLabel}
    /\ phase \in {"editing", "done", "cancelled"}
    /\ picture \in [labels : SUBSET Labels, handles : SUBSET Labels]

Init ==
    /\ canvas = {}
    /\ made = {}
    /\ showing = [l \in Labels |-> FALSE]
    /\ filled = {}
    /\ style = [l \in Labels |-> PlainStyle]
    /\ current = NoLabel
    /\ focus = NoLabel
    /\ phase = "editing"
    /\ picture = NoPicture

-----------------------------------------------------------------------------

\* Hiding a label makes it resign. A suggestion that is committed then changes
\* its text, and shouldChangeTextIn shows the handles that were just hidden:
\* the labels of S that still show handles once all of them were hidden.
ShownAgain(S) ==
    {{}} \cup {{l} : l \in {m \in S \cap filled : Autocorrection /\ m = focus}}

\* showEditingHandles for those in shown, hideEditingHandlers for the rest of S.
ShowingAfter(S, shown) ==
    [l \in Labels |-> l \in shown \/ (l \notin S /\ showing[l])]

Resigned(S) == IF focus \in S THEN NoLabel ELSE focus

-----------------------------------------------------------------------------
(* Gestures and keys. A tap on a label may reach the image's recogniser    *)
(* too; it is then one of these actions after the other.                   *)

\* Faulty variants of AddTextBox: the list gets the label that was current until
\* now; or that label is not hidden.
AddTextBoxListsCurrent(l) ==
    /\ phase = "editing"
    /\ l \notin made
    /\ made' = made \cup {current}
    /\ canvas' = canvas \cup {l}
    /\ showing' = ShowingAfter({current, l}, {l})
    /\ style' = [style EXCEPT ![l] = PlainStyle]
    /\ current' = l
    /\ focus' = l
    /\ UNCHANGED <<filled, phase, picture>>

AddTextBoxHidesNone(l) ==
    /\ phase = "editing"
    /\ l \notin made
    /\ made' = made \cup {l}
    /\ canvas' = canvas \cup {l}
    /\ showing' = ShowingAfter({l}, {l})
    /\ style' = [style EXCEPT ![l] = PlainStyle]
    /\ current' = l
    /\ focus' = l
    /\ UNCHANGED <<filled, phase, picture>>

\* The text button: the label edited before is hidden, a new one is shown,
\* becomes current and takes the keyboard.
AddTextBox(l) ==
    /\ phase = "editing"
    /\ l \notin made
    /\ made' = made \cup {l}
    /\ canvas' = canvas \cup {l}
    /\ \E again \in ShownAgain({current}) :
          showing' = ShowingAfter({current, l}, again \cup {l})
    /\ style' = [style EXCEPT ![l] = PlainStyle]
    /\ current' = l
    /\ focus' = l
    /\ UNCHANGED <<filled, phase, picture>>

\* Faulty variant of LabelViewDidSelected: the other labels are not hidden.
LabelViewDidSelectedAlso(l) ==
    /\ phase = "editing"
    /\ l \in canvas
    /\ ~showing[l]
    /\ showing' = [showing EXCEPT ![l] = TRUE]
    /\ current' = l
    /\ focus' = Resigned(made)
    /\ UNCHANGED <<canvas, made, filled, style, phase, picture>>

\* A tap on a label without handles, or a move of it: all labels are hidden,
\* closed ones too, and this one is shown.
LabelViewDidSelected(l) ==
    /\ phase = "editing"
    /\ l \in canvas
    /\ ~showing[l]
    /\ \E again \in ShownAgain(made \ {l}) : showing' = ShowingAfter(made, again \cup {l})
    /\ current' = l
    /\ focus' = Resigned(made)
    /\ UNCHANGED <<canvas, made, filled, style, phase, picture>>

\* A tap on the text of a label that shows its handles.
TextViewDidBeginEditing(l) ==
    /\ phase = "editing"
    /\ l \in canvas
    /\ showing[l]
    /\ focus' = l
    /\ current' = l
    /\ UNCHANGED <<canvas, made, showing, filled, style, phase, picture>>

\* A key, or a suggestion taken: a label without handles would show them.
ShouldChangeText ==
    /\ phase = "editing"
    /\ focus # NoLabel
    /\ filled' \in {filled \cup {focus}, filled \ {focus}}
    /\ showing' = [showing EXCEPT ![focus] = TRUE]
    /\ current' = IF showing[focus] THEN current ELSE focus
    /\ UNCHANGED <<canvas, made, style, focus, phase, picture>>

\* Faulty variant of TapOutside: the hidden label stays current.
TapOutsideKeepsCurrent ==
    /\ phase = "editing"
    /\ current # NoLabel
    /\ showing' = ShowingAfter({current}, {})
    /\ focus' = Resigned({current})
    /\ UNCHANGED <<canvas, made, filled, style, current, phase, picture>>

TapOutside ==
    /\ phase = "editing"
    /\ current # NoLabel
    /\ \E again \in ShownAgain({current}) : showing' = ShowingAfter({current}, again)
    /\ current' = NoLabel
    /\ focus' = Resigned({current})
    /\ UNCHANGED <<canvas, made, filled, style, phase, picture>>

\* The cross of a label that shows its handles. It leaves the image and the
\* keyboard, but keeps its handles and its place as current label.
CloseTap(l) ==
    /\ phase = "editing"
    /\ l \in canvas
    /\ showing[l]
    /\ canvas' = canvas \ {l}
    /\ focus' = Resigned({l})
    /\ UNCHANGED <<made, showing, filled, style, current, phase, picture>>

\* The panels style the current label, wherever it is.
SetStyle(s) ==
    /\ phase = "editing"
    /\ current # NoLabel
    /\ style' = [style EXCEPT ![current] = s]
    /\ UNCHANGED <<canvas, made, showing, filled, current, focus, phase, picture>>

\* Faulty variant of DoneButtonWasPressed: rendered before the clean-up.
DoneRendersFirst ==
    /\ phase = "editing"
    /\ phase' = "done"
    /\ canvas' = canvas \cap filled
    /\ showing' = ShowingAfter(made \cap filled, {})
    /\ current' = IF made \cap filled # {} THEN NoLabel ELSE current
    /\ focus' = Resigned(made)
    /\ picture' = [labels |-> canvas, handles |-> {l \in canvas : showing[l]}]
    /\ UNCHANGED <<made, filled, style>>

\* cleanup(): labels without text are closed, the others are hidden; what is
\* left on the image is rendered.
DoneButtonWasPressed ==
    /\ phase = "editing"
    /\ phase' = "done"
    /\ canvas' = canvas \cap filled
    /\ \E again \in ShownAgain(made \cap filled) :
          showing' = ShowingAfter(made \cap filled, again)
    /\ current' = IF made \cap filled # {} THEN NoLabel ELSE current
    /\ focus' = Resigned(made)
    /\ picture' = [labels |-> canvas', handles |-> {l \in canvas' : showing'[l]}]
    /\ UNCHANGED <<made, filled, style>>

CancelButtonWasPressed ==
    /\ phase = "editing"
    /\ phase' = "cancelled"
    /\ UNCHANGED <<canvas, made, showing, filled, style, current, focus, picture>>

Next ==
    \/ \E l \in Labels : AddTextBox(l)
    \/ \E l \in Labels : LabelViewDidSelected(l)
    \/ \E l \in Labels : TextViewDidBeginEditing(l)
    \/ ShouldChangeText
    \/ TapOutside
    \/ \E l \in Labels : CloseTap(l)
    \/ \E s \in Styles : SetStyle(s)
    \/ DoneButtonWasPressed
    \/ CancelButtonWasPressed

Spec == Init /\ [][Next]_vars

-----------------------------------------------------------------------------
(* Properties.                                                             *)

Edited == {l \in canvas : showing[l]}

\* The panels, the handles and the keyboard agree on the label: one that shows
\* its handles on the image is the current one, the current one shows its
\* handles unless it was closed, and the keyboard types into the current one.
EditedIsCurrent ==
    /\ \A l \in Edited : l = current
    /\ current \in canvas => showing[current]
    /\ focus # NoLabel => focus = current /\ focus \in canvas

\* A panel never restyles a label that the user does not see as edited.
StylesWhatIsEdited ==
    [][\A l \in canvas : style'[l] # style[l] => showing[l]]_vars

\* The picture that goes back to the home screen shows no handles, and all the
\* text that was on the image and nothing else.
PictureIsClean ==
    phase = "done" => picture.handles = {} /\ picture.labels = canvas /\ canvas \subseteq filled

\* The labels promise what ExclusiveEditing says.
Exclusive == INSTANCE ExclusiveEditing WITH
    Items <- Labels, placed <- canvas, edited <- Edited, used <- made
EditsExclusively == Exclusive!Spec

\* "Occurs when border and control buttons was hidden.": after the callback, and
\* so after a tap beside the labels, the label it names shows no handles.
HiddenWhenReported == [][TapOutside => ~showing'[current]]_vars
===============================================================================
