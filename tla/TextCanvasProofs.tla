--------------------------- MODULE TextCanvasProofs ---------------------------
(***************************************************************************)
(* Proofs about TextCanvas for any labels and styles. Whatever the         *)
(* keyboard does, types are kept and a panel styles what is seen as        *)
(* edited. With a keyboard that commits no suggestion as it is dismissed,  *)
(* handles, keyboard and panels also agree on one label, the picture is    *)
(* clean, and the labels implement ExclusiveEditing.                       *)
(***************************************************************************)
EXTENDS TextCanvas, TLAPS

\* While the screen edits, no label at all but the current one shows handles:
\* that includes closed labels, which keep theirs until the next one is chosen.
OnlyCurrentShows == phase = "editing" => \A l \in Labels : showing[l] => l = current

\* The current label is one that was made, closed or not.
CurrentWasMade == current \in made \cup {NoLabel}

TextInv ==
    /\ TypeOK
    /\ CurrentWasMade
    /\ canvas \subseteq made
    /\ OnlyCurrentShows
    /\ EditedIsCurrent
    /\ PictureIsClean

\* Without a suggestion to commit, nothing is shown again.
LEMMA NothingShownAgain ==
    ASSUME ~Autocorrection, NEW S
    PROVE  ShownAgain(S) = {{}}
BY DEF ShownAgain

\* Which labels show handles once those of S were hidden and l was shown.
LEMMA ShowingOne ==
    ASSUME TypeOK, NEW S, NEW shown
    PROVE  /\ ShowingAfter(S, shown) \in [Labels -> BOOLEAN]
           /\ \A l \in Labels :
                 ShowingAfter(S, shown)[l] <=> (l \in shown \/ (l \notin S /\ showing[l]))
BY DEF ShowingAfter, TypeOK

LEMMA InitTextInv == Init => TextInv
<1> SUFFICES ASSUME Init PROVE TextInv
  OBVIOUS
<1>1. TypeOK
  BY TextAssumption DEF Init, TypeOK, NoPicture
<1> QED
  BY <1>1, TextAssumption
     DEF Init, TextInv, CurrentWasMade, OnlyCurrentShows, EditedIsCurrent, PictureIsClean, Edited

-----------------------------------------------------------------------------
(* What each handler does to the invariant and to the edited labels.       *)

LEMMA AddTextBoxStep ==
    ASSUME ~Autocorrection, TextInv, NEW l \in Labels, AddTextBox(l)
    PROVE  TextInv' /\ Exclusive!Place(l)
<1> USE DEF TextInv
<1>1. /\ showing' = ShowingAfter({current, l}, {l})
      /\ l \notin made /\ made' = made \cup {l} /\ canvas' = canvas \cup {l}
      /\ current' = l /\ focus' = l
      /\ phase = "editing" /\ phase' = "editing"
      /\ style' = [style EXCEPT ![l] = PlainStyle]
      /\ UNCHANGED <<filled, picture>>
  BY NothingShownAgain DEF AddTextBox
<1>2. /\ showing' \in [Labels -> BOOLEAN]
      /\ \A m \in Labels :
            showing'[m] <=> (m = l \/ (m # current /\ m # l /\ showing[m]))
  BY <1>1, ShowingOne
<1>3. \A m \in Labels : showing'[m] <=> m = l
  BY <1>1, <1>2 DEF OnlyCurrentShows
<1>4. TypeOK'
  BY <1>1, <1>2, TextAssumption DEF TypeOK
<1>5. Edited' = {l}
  BY <1>1, <1>3 DEF Edited, TypeOK
<1>6. EditedIsCurrent' /\ OnlyCurrentShows'
  BY <1>1, <1>3, <1>5 DEF EditedIsCurrent, OnlyCurrentShows
<1> QED
  BY <1>1, <1>4, <1>5, <1>6 DEF PictureIsClean, CurrentWasMade, Exclusive!Place

LEMMA DidSelectedStep ==
    ASSUME ~Autocorrection, TextInv, NEW l \in Labels, LabelViewDidSelected(l)
    PROVE  TextInv' /\ Exclusive!Focus(l)
<1> USE DEF TextInv
<1>1. /\ showing' = ShowingAfter(made, {l})
      /\ l \in canvas /\ l \in made
      /\ current' = l /\ focus' = Resigned(made)
      /\ phase = "editing" /\ phase' = "editing"
      /\ UNCHANGED <<canvas, made, filled, style, picture>>
  BY NothingShownAgain DEF LabelViewDidSelected
<1>2. focus' = NoLabel
  BY <1>1 DEF Resigned, EditedIsCurrent
<1>3. /\ showing' \in [Labels -> BOOLEAN]
      /\ \A m \in Labels : showing'[m] <=> (m = l \/ (m \notin made /\ showing[m]))
  BY <1>1, ShowingOne
<1>4. ASSUME NEW m \in canvas PROVE showing'[m] <=> m = l
  BY <1>3 DEF TypeOK
<1>5. TypeOK'
  BY <1>1, <1>2, <1>3 DEF TypeOK
<1>6. Edited' = {l}
  BY <1>1, <1>4 DEF Edited
<1>7. EditedIsCurrent'
  BY <1>1, <1>2, <1>4, <1>6 DEF EditedIsCurrent
<1>8. OnlyCurrentShows'
  <2>1. \A m \in Labels : m \notin made => ~showing[m]
    BY <1>1, TextAssumption DEF OnlyCurrentShows, CurrentWasMade
  <2> QED
    BY <1>1, <1>3, <2>1 DEF OnlyCurrentShows
<1> QED
  BY <1>1, <1>5, <1>6, <1>7, <1>8 DEF PictureIsClean, CurrentWasMade, Exclusive!Focus

\* The label whose text is tapped shows its handles, so it is current already.
LEMMA BeginEditingStep ==
    ASSUME TextInv, NEW l \in Labels, TextViewDidBeginEditing(l)
    PROVE  TextInv' /\ UNCHANGED <<canvas, Edited, made>>
<1> USE DEF TextInv
<1>1. /\ l \in canvas /\ showing[l] /\ focus' = l /\ current' = l
      /\ phase = "editing" /\ phase' = "editing"
      /\ UNCHANGED <<canvas, made, showing, filled, style, picture>>
  BY DEF TextViewDidBeginEditing
<1>2. current = l
  BY <1>1 DEF OnlyCurrentShows
<1>3. TypeOK'
  BY <1>1 DEF TypeOK
<1>4. Edited' = Edited
  BY <1>1 DEF Edited
<1> QED
  BY <1>1, <1>2, <1>3, <1>4 DEF OnlyCurrentShows, EditedIsCurrent, PictureIsClean, CurrentWasMade

\* The label that is typed into is current and on the image, so it shows its
\* handles already.
LEMMA ShouldChangeStep ==
    ASSUME TextInv, ShouldChangeText
    PROVE  TextInv' /\ UNCHANGED <<canvas, Edited, made>>
<1> USE DEF TextInv
<1>1. focus # NoLabel /\ focus = current /\ focus \in canvas /\ showing[focus]
  BY DEF ShouldChangeText, EditedIsCurrent
<1>2. /\ filled' \in {filled \cup {focus}, filled \ {focus}}
      /\ showing' = [showing EXCEPT ![focus] = TRUE]
      /\ phase = "editing" /\ phase' = "editing"
      /\ current' = current
      /\ UNCHANGED <<canvas, made, style, focus, picture>>
  BY <1>1 DEF ShouldChangeText
<1>3. showing' = showing
  <2>1. showing \in [Labels -> BOOLEAN] /\ showing[focus] = TRUE
    BY <1>1 DEF TypeOK
  <2> QED
    BY <1>2, <2>1
<1>4. TypeOK'
  BY <1>1, <1>2, <1>3 DEF TypeOK
<1>5. Edited' = Edited
  BY <1>2, <1>3 DEF Edited
<1> QED
  BY <1>2, <1>3, <1>4, <1>5 DEF OnlyCurrentShows, EditedIsCurrent, PictureIsClean, CurrentWasMade

LEMMA TapOutsideStep ==
    ASSUME ~Autocorrection, TextInv, TapOutside
    PROVE  TextInv' /\ Exclusive!Rest
<1> USE DEF TextInv
<1>1. /\ showing' = ShowingAfter({current}, {})
      /\ current' = NoLabel /\ focus' = Resigned({current})
      /\ phase = "editing" /\ phase' = "editing"
      /\ UNCHANGED <<canvas, made, filled, style, picture>>
  BY NothingShownAgain DEF TapOutside
<1>2. focus' = NoLabel
  BY <1>1 DEF Resigned, EditedIsCurrent
<1>3. /\ showing' \in [Labels -> BOOLEAN]
      /\ \A m \in Labels : showing'[m] <=> (m # current /\ showing[m])
  BY <1>1, ShowingOne
<1>4. \A m \in Labels : ~showing'[m]
  BY <1>1, <1>3 DEF OnlyCurrentShows
<1>5. TypeOK'
  BY <1>1, <1>2, <1>3 DEF TypeOK
<1>6. Edited' = {}
  BY <1>1, <1>4 DEF Edited, TypeOK
<1>7. EditedIsCurrent' /\ OnlyCurrentShows'
  BY <1>1, <1>2, <1>4, <1>6, TextAssumption DEF EditedIsCurrent, OnlyCurrentShows, TypeOK
<1> QED
  BY <1>1, <1>5, <1>6, <1>7 DEF PictureIsClean, CurrentWasMade, Exclusive!Rest

LEMMA CloseTapStep ==
    ASSUME TextInv, NEW l \in Labels, CloseTap(l)
    PROVE  TextInv' /\ Exclusive!Remove(l)
<1> USE DEF TextInv
<1>1. /\ l \in canvas /\ showing[l] /\ canvas' = canvas \ {l} /\ focus' = Resigned({l})
      /\ phase = "editing" /\ phase' = "editing"
      /\ UNCHANGED <<made, showing, filled, style, current, picture>>
  BY DEF CloseTap
<1>2. focus' = NoLabel \/ (focus' = focus /\ focus # l)
  BY <1>1 DEF Resigned
<1>3. TypeOK'
  BY <1>1, <1>2 DEF TypeOK
<1>4. Edited' = Edited \ {l}
  BY <1>1 DEF Edited
<1>5. EditedIsCurrent'
  BY <1>1, <1>2, <1>4 DEF EditedIsCurrent
<1> QED
  BY <1>1, <1>3, <1>4, <1>5
     DEF OnlyCurrentShows, PictureIsClean, CurrentWasMade, Exclusive!Remove

LEMMA SetStyleStep ==
    ASSUME TextInv, NEW s \in Styles, SetStyle(s)
    PROVE  TextInv' /\ UNCHANGED <<canvas, Edited, made>>
<1> USE DEF TextInv
<1>1. /\ style' = [style EXCEPT ![current] = s]
      /\ UNCHANGED <<canvas, made, showing, filled, current, focus, phase, picture>>
  BY DEF SetStyle
<1>2. TypeOK'
  BY <1>1 DEF TypeOK
<1>3. Edited' = Edited
  BY <1>1 DEF Edited
<1> QED
  BY <1>1, <1>2, <1>3 DEF OnlyCurrentShows, EditedIsCurrent, PictureIsClean, CurrentWasMade

\* The clean-up leaves the filled labels of the image, and hides all of those.
LEMMA DoneStep ==
    ASSUME ~Autocorrection, TextInv, DoneButtonWasPressed
    PROVE  /\ TextInv' /\ Exclusive!Finish
           /\ picture'.labels = canvas \cap filled
<1> USE DEF TextInv
<1>1. /\ canvas' = canvas \cap filled
      /\ showing' = ShowingAfter(made \cap filled, {})
      /\ current' = IF made \cap filled # {} THEN NoLabel ELSE current
      /\ focus' = Resigned(made)
      /\ picture' = [labels |-> canvas', handles |-> {m \in canvas' : showing'[m]}]
      /\ phase = "editing" /\ phase' = "done"
      /\ UNCHANGED <<made, filled, style>>
  BY NothingShownAgain DEF DoneButtonWasPressed
<1>2. focus' = NoLabel
  BY <1>1 DEF Resigned, EditedIsCurrent
<1>3. /\ showing' \in [Labels -> BOOLEAN]
      /\ \A m \in Labels : showing'[m] <=> (m \notin made \cap filled /\ showing[m])
  BY <1>1, ShowingOne
<1>4. \A m \in canvas' : ~showing'[m]
  BY <1>1, <1>3 DEF TypeOK
<1>5. Edited' = {}
  BY <1>1, <1>4 DEF Edited
<1>6. /\ picture'.labels = canvas' /\ picture'.handles = {}
      /\ picture' \in [labels : SUBSET Labels, handles : SUBSET Labels]
  BY <1>1, <1>4 DEF TypeOK
<1>7. TypeOK'
  BY <1>1, <1>2, <1>3, <1>6 DEF TypeOK
<1>8. current' \notin canvas'
  BY <1>1, TextAssumption DEF TypeOK
<1>9. EditedIsCurrent'
  BY <1>2, <1>5, <1>8 DEF EditedIsCurrent
<1> QED
  BY <1>1, <1>5, <1>6, <1>7, <1>9
     DEF OnlyCurrentShows, PictureIsClean, CurrentWasMade, Exclusive!Finish

LEMMA RestStep ==
    ASSUME TextInv, CancelButtonWasPressed \/ UNCHANGED vars
    PROVE  TextInv' /\ UNCHANGED <<canvas, Edited, made>>
<1> USE DEF TextInv
<1>1. /\ UNCHANGED <<canvas, made, showing, filled, style, current, focus, picture>>
      /\ phase' = phase \/ (phase = "editing" /\ phase' = "cancelled")
  BY DEF CancelButtonWasPressed, vars
<1>2. TypeOK'
  BY <1>1 DEF TypeOK
<1>3. Edited' = Edited
  BY <1>1 DEF Edited
<1> QED
  BY <1>1, <1>2, <1>3 DEF OnlyCurrentShows, EditedIsCurrent, PictureIsClean, CurrentWasMade

-----------------------------------------------------------------------------
(* Theorems.                                                               *)

\* One lemma per handler gives the invariant and the refinement.
LEMMA NextTextInv ==
    ~Autocorrection /\ TextInv /\ [Next]_vars
        => TextInv' /\ [Exclusive!Next]_(Exclusive!exclusiveVars)
<1> SUFFICES ASSUME ~Autocorrection, TextInv, [Next]_vars
             PROVE  TextInv' /\ [Exclusive!Next]_(Exclusive!exclusiveVars)
  OBVIOUS
<1>1. ASSUME NEW l \in Labels, AddTextBox(l) PROVE TextInv' /\ Exclusive!Next
  BY <1>1, AddTextBoxStep DEF Exclusive!Next
<1>2. ASSUME NEW l \in Labels, LabelViewDidSelected(l) PROVE TextInv' /\ Exclusive!Next
  BY <1>2, DidSelectedStep DEF Exclusive!Next
<1>3. ASSUME NEW l \in Labels, CloseTap(l) PROVE TextInv' /\ Exclusive!Next
  BY <1>3, CloseTapStep DEF Exclusive!Next
<1>4. CASE TapOutside
  BY <1>4, TapOutsideStep DEF Exclusive!Next
<1>5. CASE DoneButtonWasPressed
  BY <1>5, DoneStep DEF Exclusive!Next
<1>6. ASSUME \/ \E l \in Labels : TextViewDidBeginEditing(l)
             \/ ShouldChangeText
             \/ \E s \in Styles : SetStyle(s)
             \/ CancelButtonWasPressed
             \/ UNCHANGED vars
      PROVE  TextInv' /\ UNCHANGED Exclusive!exclusiveVars
  BY <1>6, BeginEditingStep, ShouldChangeStep, SetStyleStep, RestStep
     DEF Exclusive!exclusiveVars
<1> QED
  BY <1>1, <1>2, <1>3, <1>4, <1>5, <1>6 DEF Next

LEMMA TextInvariant ==
    ASSUME ~Autocorrection
    PROVE  Spec => []TextInv
<1>1. TextInv /\ [Next]_vars => TextInv'
  BY NextTextInv
<1> QED
  BY <1>1, InitTextInv, PTL DEF Spec

-----------------------------------------------------------------------------
(* What holds of any keyboard, one that commits a suggestion included.     *)

\* What the panels style shows its handles as long as it is on the image.
CurrentShows == current \in canvas => showing[current]

AnyKeyboardInv == TypeOK /\ CurrentShows

LEMMA InitAnyKeyboard == Init => AnyKeyboardInv
<1> SUFFICES ASSUME Init PROVE AnyKeyboardInv
  OBVIOUS
<1>1. TypeOK
  BY InitTextInv DEF TextInv
<1>2. CurrentShows
  BY DEF Init, CurrentShows
<1> QED
  BY <1>1, <1>2 DEF AnyKeyboardInv

\* One step per handler: a handler that hides a label makes another one current,
\* makes none current, or leaves nothing on the image.
LEMMA NextAnyKeyboard == AnyKeyboardInv /\ [Next]_vars => AnyKeyboardInv'
<1> SUFFICES ASSUME AnyKeyboardInv, [Next]_vars PROVE TypeOK' /\ CurrentShows'
  BY DEF AnyKeyboardInv
<1>0. TypeOK /\ CurrentShows
  BY DEF AnyKeyboardInv
<1>a. \A S : Resigned(S) \in Labels \cup {NoLabel}
  BY <1>0 DEF Resigned, TypeOK
<1>1. ASSUME NEW l \in Labels, AddTextBox(l) PROVE TypeOK' /\ CurrentShows'
  <2>1. PICK again \in ShownAgain({current}) :
           showing' = ShowingAfter({current, l}, again \cup {l})
    BY <1>1 DEF AddTextBox
  <2>2. showing' \in [Labels -> BOOLEAN] /\ showing'[l]
    BY <1>0, <2>1, ShowingOne
  <2>3. TypeOK'
    BY <1>0, <1>1, <2>2, TextAssumption DEF AddTextBox, TypeOK
  <2> QED
    BY <1>1, <2>2, <2>3 DEF AddTextBox, CurrentShows
<1>2. ASSUME NEW l \in Labels, LabelViewDidSelected(l) PROVE TypeOK' /\ CurrentShows'
  <2>1. PICK again \in ShownAgain(made \ {l}) :
           showing' = ShowingAfter(made, again \cup {l})
    BY <1>2 DEF LabelViewDidSelected
  <2>2. showing' \in [Labels -> BOOLEAN] /\ showing'[l]
    BY <1>0, <2>1, ShowingOne
  <2>3. TypeOK'
    BY <1>0, <1>a, <1>2, <2>2 DEF LabelViewDidSelected, TypeOK
  <2> QED
    BY <1>2, <2>2, <2>3 DEF LabelViewDidSelected, CurrentShows
<1>3. ASSUME NEW l \in Labels, TextViewDidBeginEditing(l) PROVE TypeOK' /\ CurrentShows'
  BY <1>0, <1>3 DEF TextViewDidBeginEditing, TypeOK, CurrentShows
<1>4. CASE ShouldChangeText
  <2>1. focus \in Labels
    BY <1>0, <1>4 DEF ShouldChangeText, TypeOK
  <2>2. TypeOK'
    BY <1>0, <1>4, <2>1 DEF ShouldChangeText, TypeOK
  <2>3. /\ showing'[focus]
        /\ \A l \in Labels : showing[l] => showing'[l]
        /\ canvas' = canvas /\ current' \in {current, focus}
    BY <1>0, <1>4, <2>1 DEF ShouldChangeText, TypeOK
  <2> QED
    BY <1>0, <2>2, <2>3 DEF TypeOK, CurrentShows
<1>5. CASE TapOutside
  <2>1. PICK again \in ShownAgain({current}) : showing' = ShowingAfter({current}, again)
    BY <1>5 DEF TapOutside
  <2>2. showing' \in [Labels -> BOOLEAN]
    BY <1>0, <2>1, ShowingOne
  <2>3. TypeOK'
    BY <1>0, <1>a, <1>5, <2>2 DEF TapOutside, TypeOK
  <2> QED
    BY <1>0, <1>5, <2>3, TextAssumption DEF TapOutside, TypeOK, CurrentShows
<1>6. ASSUME NEW l \in Labels, CloseTap(l) PROVE TypeOK' /\ CurrentShows'
  BY <1>0, <1>a, <1>6 DEF CloseTap, TypeOK, CurrentShows
<1>7. ASSUME NEW s \in Styles, SetStyle(s) PROVE TypeOK' /\ CurrentShows'
  BY <1>0, <1>7 DEF SetStyle, TypeOK, CurrentShows
<1>8. CASE DoneButtonWasPressed
  <2>1. PICK again \in ShownAgain(made \cap filled) :
           showing' = ShowingAfter(made \cap filled, again)
    BY <1>8 DEF DoneButtonWasPressed
  <2>2. /\ showing' \in [Labels -> BOOLEAN]
        /\ \A l \in Labels : l \notin made \cap filled /\ showing[l] => showing'[l]
    BY <1>0, <2>1, ShowingOne
  <2>3. TypeOK'
    BY <1>0, <1>a, <1>8, <2>2, TextAssumption DEF DoneButtonWasPressed, TypeOK
  <2> QED
    BY <1>0, <1>8, <2>2, <2>3, TextAssumption DEF DoneButtonWasPressed, TypeOK, CurrentShows
<1>9. CASE CancelButtonWasPressed \/ UNCHANGED vars
  BY <1>0, <1>9 DEF CancelButtonWasPressed, vars, TypeOK, CurrentShows
<1> QED
  BY <1>1, <1>2, <1>3, <1>4, <1>5, <1>6, <1>7, <1>8, <1>9 DEF Next

LEMMA AnyKeyboardInvariant == Spec => []AnyKeyboardInv
<1> QED
  BY InitAnyKeyboard, NextAnyKeyboard, PTL DEF Spec

\* Every variable of the text screen keeps its type, whatever the keyboard does.
THEOREM TypeCorrect == Spec => []TypeOK
<1>1. AnyKeyboardInv => TypeOK
  BY DEF AnyKeyboardInv
<1> QED
  BY <1>1, AnyKeyboardInvariant, PTL

\* A panel restyles no label of the image but one that shows its handles,
\* whatever the keyboard does. A label is made only once, and plain already.
THEOREM PanelsStyleWhatIsEdited == Spec => StylesWhatIsEdited
<1> DEFINE Seen == \A l \in canvas : style'[l] # style[l] => showing[l]
<1> DEFINE WasMade == canvas \subseteq made
<1>1. Init => WasMade
  BY DEF Init
<1>2. WasMade /\ [Next]_vars => WasMade'
  BY DEF Next, vars, AddTextBox, LabelViewDidSelected, TextViewDidBeginEditing,
         ShouldChangeText, TapOutside, CloseTap, SetStyle, DoneButtonWasPressed,
         CancelButtonWasPressed
<1>3. ASSUME AnyKeyboardInv, WasMade, Next PROVE Seen
  <2> SUFFICES ASSUME NEW l \in canvas, style'[l] # style[l] PROVE showing[l]
    OBVIOUS
  <2>1. ASSUME NEW m \in Labels, AddTextBox(m) PROVE FALSE
    BY <1>3, <2>1 DEF AddTextBox, AnyKeyboardInv, TypeOK
  <2>2. ASSUME NEW s \in Styles, SetStyle(s) PROVE showing[l]
    <3>1. l = current
      BY <1>3, <2>2 DEF SetStyle, AnyKeyboardInv, TypeOK
    <3> QED
      BY <1>3, <3>1 DEF AnyKeyboardInv, CurrentShows
  <2>3. style' = style \/ (\E m \in Labels : AddTextBox(m)) \/ \E s \in Styles : SetStyle(s)
    BY <1>3 DEF Next, LabelViewDidSelected, TextViewDidBeginEditing, ShouldChangeText,
                TapOutside, CloseTap, DoneButtonWasPressed, CancelButtonWasPressed
  <2> QED
    BY <2>1, <2>2, <2>3
<1>4. AnyKeyboardInv /\ WasMade /\ [Next]_vars => [Seen]_vars
  BY <1>3
<1> QED
  BY <1>1, <1>2, <1>4, AnyKeyboardInvariant, PTL DEF Spec, StylesWhatIsEdited

-----------------------------------------------------------------------------
(* What needs a keyboard that commits no suggestion as it is dismissed.    *)

\* Handles, panels and keyboard agree on one label.
THEOREM EditedLabelIsCurrent ==
    ASSUME ~Autocorrection
    PROVE  Spec => []EditedIsCurrent
<1>1. TextInv => EditedIsCurrent
  BY DEF TextInv
<1> QED
  BY <1>1, TextInvariant, PTL

\* The picture that goes back shows no handles and all the labels that are left.
THEOREM PicturesAreClean ==
    ASSUME ~Autocorrection
    PROVE  Spec => []PictureIsClean
<1>1. TextInv => PictureIsClean
  BY DEF TextInv
<1> QED
  BY <1>1, TextInvariant, PTL

\* The labels implement the specification of exclusive editing.
THEOREM TextCanvasRefines ==
    ASSUME ~Autocorrection
    PROVE  Spec => EditsExclusively
<1>1. Init => Exclusive!Init
  BY DEF Init, Exclusive!Init, Exclusive!AtMostOne, Edited
<1>2. TextInv /\ [Next]_vars => [Exclusive!Next]_(Exclusive!exclusiveVars)
  BY NextTextInv
<1> QED
  BY <1>1, <1>2, TextInvariant, PTL DEF Spec, EditsExclusively, Exclusive!Spec
===============================================================================
