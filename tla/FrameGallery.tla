---------------------------- MODULE FrameGallery ----------------------------
(* The frame gallery and the frame screens it holds.  Every frame chosen is *)
(* added over the ones before and none is removed, so old frames stay alive *)
(* beneath the one that is seen.  A frame has one to three slots; a slot's  *)
(* button opens the photo picker and a flag, typeButton, says which slot    *)
(* the photo is for.  Done posts the picture of the frame to the home       *)
(* screen and closes the gallery.                                           *)
(*                                                                          *)
(* A press is a touch and a release.  The picker covers the gallery, but a  *)
(* finger that was already down is still released over the control it       *)
(* touched, so the handlers below may run with a picker up or a pick on its *)
(* way.                                                                     *)
EXTENDS Integers, Sequences, FiniteSets

CONSTANTS
    Photos,
    NoImage,        \* imageView.image = nil
    Layouts,        \* the layouts of the chooser, by their number of slots
    MaxFrames,      \* bound: frames added
    MaxFingers      \* bound: fingers down at once

ASSUME GalleryAssumption ==
    /\ Layouts \subseteq 1 .. 3
    /\ 3 \in Layouts                \* Frame_1, which viewDidLoad adds
    /\ MaxFrames \in Nat \ {0}
    /\ MaxFingers \in Nat

VARIABLES
    children,       \* the frames, by number of slots; the last one is seen
    typeButton,     \* of each frame: the slot the next photo is for, or 0
    pictures,       \* of each frame: the images of its slots
    presented,      \* the frame whose picker is up, or 0
    picking,        \* the frame whose pick is being loaded, or 0
    fingers,        \* the controls that fingers are down on
    phase,          \* "open", "done", "cancelled", "lost"
    crossed,        \* history: two fingers were down at once
    deliveries,     \* history until crossed: what was posted to the home screen
    opened,         \* history until crossed: the slot a frame's last picker was for
    expected        \* history until crossed: a frame's photos by those slots

frameVars == <<children, typeButton, pictures>>
history == <<crossed, deliveries, opened, expected>>
vars == <<frameVars, presented, picking, fingers, phase, history>>

Frames == 1 .. MaxFrames
Slots == 1 .. 3
Empty == [s \in Slots |-> NoImage]

Control(kind, c, n) == [kind |-> kind, frame |-> c, n |-> n]

\* What can be touched of the frame that is seen, and the frame chooser.
Controls ==
    LET c == Len(children)
    IN  {Control("slot", c, s) : s \in 1 .. children[c]}
        \cup {Control("done", c, 0), Control("cancel", c, 0)}
        \cup {Control("choose", 0, l) : l \in Layouts}

-----------------------------------------------------------------------------
\* The gallery can be touched when neither a picker nor the overlay covers it.
Uncovered == phase = "open" /\ presented = 0 /\ picking = 0

Touch(x) ==
    /\ Uncovered
    /\ x \in Controls \ fingers
    /\ Cardinality(fingers) < MaxFingers
    /\ fingers' = fingers \cup {x}
    /\ IF fingers = {} THEN UNCHANGED history
       ELSE /\ crossed' = TRUE
            /\ deliveries' = <<>>
            /\ opened' = [c \in Frames |-> 0]
            /\ expected' = [c \in Frames |-> Empty]
    /\ UNCHANGED <<frameVars, presented, picking, phase>>

Lift(x) ==
    /\ phase = "open"
    /\ x \in fingers

\* self.dismiss: takes away what is presented, and without that the gallery.
Dismiss(outcome) ==
    /\ presented' = 0
    /\ phase' = IF presented = 0 THEN outcome ELSE phase
    /\ picking' = IF presented = 0 THEN 0 ELSE picking

\* A touch that ends elsewhere does nothing.
LiftOutside(x) ==
    /\ Lift(x)
    /\ fingers' = fingers \ {x}
    /\ UNCHANGED <<frameVars, presented, picking, phase, history>>

\* didSelectItemAt: the new frame covers the others.
AddFrameVC(l) ==
    /\ Lift(Control("choose", 0, l))
    /\ Len(children) < MaxFrames
    /\ children' = Append(children, l)
    /\ fingers' = fingers \ {Control("choose", 0, l)}
    /\ UNCHANGED <<typeButton, pictures, presented, picking, phase, history>>

\* Faulty variant of ImgWasPressed: the flag is set for the first pick only.
ImgWasPressedOnce(c, s) ==
    /\ Lift(Control("slot", c, s))
    /\ typeButton' = IF typeButton[c] = 0 THEN [typeButton EXCEPT ![c] = s] ELSE typeButton
    /\ presented' = IF presented = 0 THEN c ELSE presented
    /\ opened' = IF presented = 0 /\ ~crossed THEN [opened EXCEPT ![c] = s] ELSE opened
    /\ fingers' = fingers \ {Control("slot", c, s)}
    /\ UNCHANGED <<children, pictures, picking, phase, deliveries, expected, crossed>>

\* Faulty variant of ImgWasPressed: the slots are counted from the other end.
ImgWasPressedReversed(c, s) ==
    /\ Lift(Control("slot", c, s))
    /\ typeButton' = [typeButton EXCEPT ![c] = 4 - s]
    /\ presented' = IF presented = 0 THEN c ELSE presented
    /\ opened' = IF presented = 0 /\ ~crossed THEN [opened EXCEPT ![c] = s] ELSE opened
    /\ fingers' = fingers \ {Control("slot", c, s)}
    /\ UNCHANGED <<children, pictures, picking, phase, deliveries, expected, crossed>>

\* The flag is set first; UIKit refuses to present over another screen, so
\* the picker that is up may change the slot it is for.  A frame with one slot
\* has no flag: its only slot is what every pick is for.
ImgWasPressed(c, s) ==
    /\ Lift(Control("slot", c, s))
    /\ typeButton' = [typeButton EXCEPT ![c] = s]
    /\ presented' = IF presented = 0 THEN c ELSE presented
    /\ opened' = IF presented = 0 /\ ~crossed THEN [opened EXCEPT ![c] = s] ELSE opened
    /\ fingers' = fingers \ {Control("slot", c, s)}
    /\ UNCHANGED <<children, pictures, picking, phase, deliveries, expected, crossed>>

CancelButtonWasPressed(c) ==
    /\ Lift(Control("cancel", c, 0))
    /\ Dismiss("cancelled")
    /\ fingers' = fingers \ {Control("cancel", c, 0)}
    /\ UNCHANGED <<frameVars, history>>

\* The picture is posted and received at once; then the screen goes.
DoneButtonWasPressed(c) ==
    /\ Lift(Control("done", c, 0))
    /\ deliveries' = IF crossed THEN deliveries
                    ELSE Append(deliveries, [frame |-> c, picture |-> pictures[c]])
    /\ Dismiss("done")
    /\ fingers' = fingers \ {Control("done", c, 0)}
    /\ UNCHANGED <<frameVars, crossed, opened, expected>>

-----------------------------------------------------------------------------
(* The picker of a frame.                                                   *)

PickerCancel ==
    /\ phase = "open" /\ presented # 0 /\ picking = 0
    /\ presented' = 0
    /\ UNCHANGED <<frameVars, picking, fingers, phase, history>>

PickerDone ==
    /\ phase = "open" /\ presented # 0 /\ picking = 0
    /\ picking' = presented
    /\ UNCHANGED <<frameVars, presented, fingers, phase, history>>

\* A finger that was down on the picker's Cancel before the overlay came up.
CancelBehindOverlay ==
    /\ phase = "open" /\ picking # 0 /\ presented = picking
    /\ presented' = 0
    /\ UNCHANGED <<frameVars, picking, fingers, phase, history>>

\* Faulty variant of Target: the frame that is seen gets every pick.
TargetSeen == Len(children)

\* The frame that presented the picker is its delegate.
Target == picking

\* The handler dismisses first, then fills the slot of the flag.  With its
\* picker already gone the dismissal takes another frame's picker, or the
\* gallery itself.  An empty pick clears the slot.
PickerDidFinish(img) ==
    /\ phase = "open" /\ picking # 0
    /\ presented' = 0
    /\ phase' = IF presented = 0 THEN "lost" ELSE phase
    /\ picking' = 0
    /\ pictures' = [pictures EXCEPT ![Target][typeButton[Target]] = img]
    /\ expected' = IF crossed THEN expected
                  ELSE [expected EXCEPT ![picking][opened[picking]] = img]
    /\ UNCHANGED <<children, typeButton, fingers, deliveries, opened, crossed>>

-----------------------------------------------------------------------------
Init ==
    /\ children = <<3>>
    /\ typeButton = [c \in Frames |-> 0]
    /\ pictures = [c \in Frames |-> Empty]
    /\ presented = 0
    /\ picking = 0
    /\ fingers = {}
    /\ phase = "open"
    /\ deliveries = <<>>
    /\ opened = [c \in Frames |-> 0]
    /\ expected = [c \in Frames |-> Empty]
    /\ crossed = FALSE

Next ==
    \/ \E x \in Controls : Touch(x)
    \/ \E x \in fingers : LiftOutside(x)
    \/ \E l \in Layouts : AddFrameVC(l)
    \/ \E c \in Frames, s \in Slots : ImgWasPressed(c, s)
    \/ \E c \in Frames : CancelButtonWasPressed(c) \/ DoneButtonWasPressed(c)
    \/ PickerCancel
    \/ PickerDone
    \/ CancelBehindOverlay
    \/ \E img \in Photos \cup {NoImage} : PickerDidFinish(img)

Spec == Init /\ [][Next]_vars

-----------------------------------------------------------------------------
(* Properties.                                                              *)

\* Every variable keeps its type, and a frame's flag names one of its slots.
TypeOK ==
    /\ children \in Seq(Layouts) /\ Len(children) \in Frames
    /\ typeButton \in [Frames -> Slots \cup {0}]
    /\ \A c \in DOMAIN children : typeButton[c] <= children[c]
    /\ pictures \in [Frames -> [Slots -> Photos \cup {NoImage}]]
    /\ {presented, picking} \subseteq {0} \cup DOMAIN children
    /\ phase \in {"open", "done", "cancelled", "lost"}
    /\ IsFiniteSet(fingers) /\ Cardinality(fingers) <= MaxFingers

\* A pick changes no frame but the one whose picker it was made in, though
\* other frames may have covered it and another picker may be up by then.
PickStaysWithItsFrame ==
    [][\A c \in Frames : pictures'[c] # pictures[c] => c = picking]_vars

\* With one finger at a time the home screen receives exactly one picture: the
\* frame that is seen, every photo in the slot whose button asked for it,
\* whatever pickers were cancelled and frames tried before.
DeliversWhatIsSeen ==
    phase = "done" /\ ~crossed =>
        deliveries = <<[frame |-> Len(children), picture |-> expected[Len(children)]]>>

=============================================================================
