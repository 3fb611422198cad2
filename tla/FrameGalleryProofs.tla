-------------------------- MODULE FrameGalleryProofs --------------------------
(***************************************************************************)
(* Proofs about FrameGallery for any photos, layouts and bounds: a pick    *)
(* stays with the frame whose picker it was made in, and with one finger   *)
(* at a time the home screen receives the frame that is seen, every photo  *)
(* in the slot that asked for it.                                          *)
(***************************************************************************)
EXTENDS FrameGallery, FiniteSetTheorems, TLAPS

\* Whatever was added since a finger went down, the control it is on is still
\* there: a frame is never removed.
FingersOnControls ==
    \A x \in fingers :
        \/ \E l \in Layouts : x = Control("choose", 0, l)
        \/ \E c \in DOMAIN children :
              \/ x = Control("done", c, 0)
              \/ x = Control("cancel", c, 0)
              \/ \E s \in 1 .. children[c] : x = Control("slot", c, s)

\* A frame that was not added yet has asked for nothing.
FlagsOfFrames == \A c \in Frames : c > Len(children) => typeButton[c] = 0

\* With one finger at a time: a finger that is down finds the gallery as it was
\* when it went down, the frame it is on is still the one that is seen, the flag
\* of every frame is for its last picker, and what was picked is where it was
\* asked for. Nothing is delivered before the gallery is done.
OneFinger == \A x, y \in fingers : x = y
FingerUncovered == fingers # {} /\ phase = "open" => presented = 0 /\ picking = 0
FingerOnSeen == \A x \in fingers : x.kind \in {"slot", "done", "cancel"} => x.frame = Len(children)
PhotosWhereAsked == opened = typeButton /\ expected = pictures
NothingSent == phase # "done" => deliveries = <<>>

Uncrossed ==
    ~crossed =>
        /\ OneFinger
        /\ FingerUncovered
        /\ FingerOnSeen
        /\ PhotosWhereAsked
        /\ NothingSent

GalleryInv ==
    /\ TypeOK
    /\ crossed \in BOOLEAN
    /\ FingersOnControls
    /\ FlagsOfFrames
    /\ Uncrossed
    /\ DeliversWhatIsSeen

-----------------------------------------------------------------------------

LEMMA ControlFields ==
    \A kind, c, n : /\ Control(kind, c, n).kind = kind
                    /\ Control(kind, c, n).frame = c
                    /\ Control(kind, c, n).n = n
BY DEF Control

LEMMA ControlsDiffer ==
    \A k1, c1, n1, k2, c2, n2 :
        Control(k1, c1, n1) = Control(k2, c2, n2) => k1 = k2 /\ c1 = c2 /\ n1 = n2
BY DEF Control

\* A slot that can be released is a slot of its frame.
LEMMA SlotExists ==
    ASSUME GalleryInv, NEW c \in Frames, NEW s \in Slots, Lift(Control("slot", c, s))
    PROVE  c \in DOMAIN children /\ s <= children[c]
<1> DEFINE x == Control("slot", c, s)
<1>0. x \in fingers /\ x.kind = "slot"
  BY ControlFields DEF Lift
<1>1. PICK d \in DOMAIN children : \E t \in 1 .. children[d] : x = Control("slot", d, t)
  <2> HIDE DEF x
  <2>1. /\ \A l : x # Control("choose", 0, l)
        /\ \A d : x # Control("done", d, 0) /\ x # Control("cancel", d, 0)
    BY <1>0, ControlFields
  <2> QED
    BY <1>0, <2>1, Zenon DEF GalleryInv, FingersOnControls
<1> QED
  BY <1>1, ControlsDiffer DEF GalleryInv, TypeOK

LEMMA ButtonExists ==
    ASSUME GalleryInv, NEW kind \in {"done", "cancel"}, NEW c, Lift(Control(kind, c, 0))
    PROVE  c \in DOMAIN children
BY ControlsDiffer DEF GalleryInv, FingersOnControls, Lift

\* A finger that is lifted leaves the other fingers where they are; without one
\* more at any time, it was the only one.
LEMMA Lifting ==
    ASSUME GalleryInv, NEW x, Lift(x), fingers' = fingers \ {x}
    PROVE  /\ IsFiniteSet(fingers') /\ Cardinality(fingers') <= MaxFingers
           /\ fingers' \subseteq fingers
           /\ ~crossed => fingers' = {} /\ presented = 0 /\ picking = 0 /\ PhotosWhereAsked
<1>1. IsFiniteSet(fingers') /\ Cardinality(fingers') <= MaxFingers
  <2>1. /\ IsFiniteSet(fingers) /\ Cardinality(fingers) <= MaxFingers
        /\ MaxFingers \in Nat /\ x \in fingers
    BY GalleryAssumption DEF GalleryInv, TypeOK, Lift
  <2>2. /\ IsFiniteSet(fingers \ {x})
        /\ Cardinality(fingers \ {x}) = Cardinality(fingers) - 1
    BY <2>1, FS_RemoveElement
  <2>3. Cardinality(fingers) \in Nat
    BY <2>1, FS_CardinalityType
  <2> QED
    BY <2>1, <2>2, <2>3
<1>2. ~crossed => fingers' = {} /\ presented = 0 /\ picking = 0
  BY DEF GalleryInv, Uncrossed, OneFinger, FingerUncovered, Lift
<1> QED
  BY <1>1, <1>2 DEF GalleryInv, Uncrossed

LEMMA InitGalleryInv == Init => GalleryInv
<1> SUFFICES ASSUME Init PROVE GalleryInv
  OBVIOUS
<1>1. TypeOK
  <2>1. <<3>> \in Seq(Layouts) /\ Len(<<3>>) \in Frames /\ DOMAIN <<3>> = {1}
    BY GalleryAssumption DEF Frames
  <2>2. IsFiniteSet(fingers) /\ Cardinality(fingers) <= MaxFingers
    BY FS_EmptySet, GalleryAssumption DEF Init
  <2>3. \A c \in DOMAIN children : typeButton[c] <= children[c]
    BY <2>1 DEF Init, Frames
  <2> QED
    BY <2>1, <2>2, <2>3 DEF Init, Empty, TypeOK
<1>2. FingersOnControls /\ FlagsOfFrames /\ DeliversWhatIsSeen
  BY DEF Init, FingersOnControls, FlagsOfFrames, DeliversWhatIsSeen
<1>3. Uncrossed
  BY DEF Init, Uncrossed, OneFinger, FingerUncovered, FingerOnSeen, PhotosWhereAsked, NothingSent
<1> QED
  BY <1>1, <1>2, <1>3 DEF Init, GalleryInv

LEMMA TouchStep ==
    ASSUME GalleryInv, NEW x \in Controls, Touch(x)
    PROVE  GalleryInv'
<1> USE DEF GalleryInv
<1>1. /\ phase = "open" /\ presented = 0 /\ picking = 0
      /\ x \notin fingers
      /\ fingers' = fingers \cup {x}
      /\ Cardinality(fingers) < MaxFingers
      /\ UNCHANGED <<children, typeButton, pictures, presented, picking, phase>>
  BY DEF Touch, Uncovered, frameVars
<1>2. IsFiniteSet(fingers') /\ Cardinality(fingers') <= MaxFingers
  <2>1. IsFiniteSet(fingers) /\ MaxFingers \in Nat
    BY GalleryAssumption DEF TypeOK
  <2>2. /\ IsFiniteSet(fingers \cup {x})
        /\ Cardinality(fingers \cup {x}) = Cardinality(fingers) + 1
    BY <1>1, <2>1, FS_AddElement
  <2>3. Cardinality(fingers) \in Nat
    BY <2>1, FS_CardinalityType
  <2> QED
    BY <1>1, <2>1, <2>2, <2>3
<1>3. TypeOK'
  BY <1>1, <1>2 DEF TypeOK
<1>4. /\ Len(children) \in DOMAIN children
      /\ \/ \E l \in Layouts : x = Control("choose", 0, l)
         \/ x = Control("done", Len(children), 0)
         \/ x = Control("cancel", Len(children), 0)
         \/ \E s \in 1 .. children[Len(children)] : x = Control("slot", Len(children), s)
  BY DEF Controls, TypeOK, Frames
<1>5. FingersOnControls' /\ FlagsOfFrames'
  BY <1>1, <1>4 DEF FingersOnControls, FlagsOfFrames
<1>6. CASE fingers = {}
  <2>1. UNCHANGED <<crossed, deliveries, opened, expected>>
    BY <1>6 DEF Touch, history
  <2>2. x.kind \in {"slot", "done", "cancel"} => x.frame = Len(children)
    BY <1>4, ControlFields
  <2>3. Uncrossed'
    BY <1>1, <1>6, <2>1, <2>2
       DEF Uncrossed, OneFinger, FingerUncovered, FingerOnSeen, PhotosWhereAsked, NothingSent
  <2> QED
    BY <1>1, <1>3, <1>5, <2>1, <2>3 DEF DeliversWhatIsSeen
<1>7. CASE fingers # {}
  BY <1>3, <1>5, <1>7 DEF Touch, Uncrossed, DeliversWhatIsSeen
<1> QED
  BY <1>6, <1>7

LEMMA LiftOutsideStep ==
    ASSUME GalleryInv, NEW x \in fingers, LiftOutside(x)
    PROVE  GalleryInv'
<1> USE DEF GalleryInv
<1>1. /\ Lift(x) /\ fingers' = fingers \ {x}
      /\ UNCHANGED <<children, typeButton, pictures, presented, picking, phase, crossed,
                     deliveries, opened, expected>>
  BY DEF LiftOutside, frameVars, history
<1>2. TypeOK'
  BY <1>1, Lifting DEF TypeOK
<1>3. FingersOnControls' /\ FlagsOfFrames'
  BY <1>1 DEF FingersOnControls, FlagsOfFrames
<1>4. Uncrossed'
  BY <1>1
     DEF Uncrossed, OneFinger, FingerUncovered, FingerOnSeen, PhotosWhereAsked, NothingSent
<1> QED
  BY <1>1, <1>2, <1>3, <1>4 DEF DeliversWhatIsSeen

LEMMA AddFrameStep ==
    ASSUME GalleryInv, NEW l \in Layouts, AddFrameVC(l)
    PROVE  GalleryInv'
<1> USE DEF GalleryInv
<1>1. /\ Lift(Control("choose", 0, l)) /\ fingers' = fingers \ {Control("choose", 0, l)}
      /\ Len(children) < MaxFrames
      /\ children' = Append(children, l)
      /\ phase = "open"
      /\ UNCHANGED <<typeButton, pictures, presented, picking, phase, crossed,
                     deliveries, opened, expected>>
  BY DEF AddFrameVC, Lift, history
<1>2. /\ children' \in Seq(Layouts) /\ Len(children') = Len(children) + 1
      /\ DOMAIN children' = DOMAIN children \cup {Len(children) + 1}
      /\ \A c \in DOMAIN children : children'[c] = children[c]
      /\ children'[Len(children) + 1] = l
  BY <1>1 DEF TypeOK
<1>3. Len(children') \in Frames /\ Len(children) + 1 \in Frames
  BY <1>1, <1>2, GalleryAssumption DEF TypeOK, Frames
<1>4. typeButton[Len(children) + 1] = 0
  BY <1>1, <1>3 DEF FlagsOfFrames, TypeOK, Frames
<1>5. \A c \in DOMAIN children' : typeButton'[c] <= children'[c]
  BY <1>1, <1>2, <1>4, GalleryAssumption DEF TypeOK
<1>6. TypeOK'
  BY <1>1, <1>2, <1>3, <1>5, Lifting DEF TypeOK
<1>7. FlagsOfFrames'
  BY <1>1, <1>2 DEF FlagsOfFrames, TypeOK, Frames
<1>8. FingersOnControls'
  <2> SUFFICES ASSUME NEW x \in fingers
               PROVE  \/ \E k \in Layouts : x = Control("choose", 0, k)
                      \/ \E c \in DOMAIN children' :
                            \/ x = Control("done", c, 0)
                            \/ x = Control("cancel", c, 0)
                            \/ \E s \in 1 .. children'[c] : x = Control("slot", c, s)
    BY <1>1 DEF FingersOnControls
  <2>1. CASE \E k \in Layouts : x = Control("choose", 0, k)
    BY <2>1
  <2>2. ASSUME NEW c \in DOMAIN children,
               \/ x = Control("done", c, 0)
               \/ x = Control("cancel", c, 0)
               \/ \E s \in 1 .. children[c] : x = Control("slot", c, s)
        PROVE  \E d \in DOMAIN children' :
                  \/ x = Control("done", d, 0)
                  \/ x = Control("cancel", d, 0)
                  \/ \E s \in 1 .. children'[d] : x = Control("slot", d, s)
    <3>1. c \in DOMAIN children' /\ children'[c] = children[c]
      BY <1>2
    <3> QED
      BY <2>2, <3>1, Zenon
  <2> QED
    BY <2>1, <2>2, Zenon DEF FingersOnControls
<1>9. Uncrossed'
  BY <1>1, Lifting
     DEF Uncrossed, OneFinger, FingerUncovered, FingerOnSeen, PhotosWhereAsked, NothingSent
<1> QED
  BY <1>1, <1>6, <1>7, <1>8, <1>9 DEF DeliversWhatIsSeen

LEMMA ImgWasPressedStep ==
    ASSUME GalleryInv, NEW c \in Frames, NEW s \in Slots, ImgWasPressed(c, s)
    PROVE  GalleryInv'
<1> USE DEF GalleryInv
<1>1. /\ Lift(Control("slot", c, s)) /\ fingers' = fingers \ {Control("slot", c, s)}
      /\ typeButton' = [typeButton EXCEPT ![c] = s]
      /\ presented' = IF presented = 0 THEN c ELSE presented
      /\ opened' = IF presented = 0 /\ ~crossed THEN [opened EXCEPT ![c] = s] ELSE opened
      /\ phase = "open"
      /\ UNCHANGED <<children, pictures, picking, phase, deliveries, expected, crossed>>
  BY DEF ImgWasPressed, Lift
<1>2. c \in DOMAIN children /\ s <= children[c]
  BY <1>1, SlotExists
<1>3. /\ typeButton' \in [Frames -> Slots \cup {0}]
      /\ typeButton'[c] = s
      /\ \A d \in Frames : d # c => typeButton'[d] = typeButton[d]
  BY <1>1 DEF TypeOK
<1>4. DOMAIN children = 1 .. Len(children) /\ DOMAIN children \subseteq Frames
  <2>1. DOMAIN children = 1 .. Len(children)
    BY DEF TypeOK
  <2>2. Len(children) \in 1 .. MaxFrames
    BY DEF TypeOK, Frames
  <2> QED
    BY <2>1, <2>2, GalleryAssumption DEF Frames
<1>5. TypeOK'
  BY <1>1, <1>2, <1>3, <1>4, Lifting DEF TypeOK
<1>6. FlagsOfFrames'
  BY <1>1, <1>2, <1>3, <1>4 DEF FlagsOfFrames, TypeOK, Frames
<1>7. FingersOnControls'
  BY <1>1 DEF FingersOnControls
<1>8. Uncrossed'
  BY <1>1, Lifting
     DEF Uncrossed, OneFinger, FingerUncovered, FingerOnSeen, PhotosWhereAsked, NothingSent
<1> QED
  BY <1>1, <1>5, <1>6, <1>7, <1>8 DEF DeliversWhatIsSeen

LEMMA CancelStep ==
    ASSUME GalleryInv, NEW c \in Frames, CancelButtonWasPressed(c)
    PROVE  GalleryInv'
<1> USE DEF GalleryInv
<1>1. /\ Lift(Control("cancel", c, 0)) /\ fingers' = fingers \ {Control("cancel", c, 0)}
      /\ Dismiss("cancelled")
      /\ phase = "open"
      /\ UNCHANGED <<children, typeButton, pictures, crossed, deliveries, opened, expected>>
  BY DEF CancelButtonWasPressed, Lift, frameVars, history
<1>2. TypeOK'
  BY <1>1, Lifting DEF TypeOK, Dismiss
<1>3. FingersOnControls' /\ FlagsOfFrames'
  BY <1>1 DEF FingersOnControls, FlagsOfFrames
<1>4. phase' \in {"open", "cancelled"}
  BY <1>1 DEF Dismiss
<1>5. Uncrossed'
  BY <1>1, <1>4, Lifting
     DEF Uncrossed, OneFinger, FingerUncovered, FingerOnSeen, PhotosWhereAsked, NothingSent
<1> QED
  BY <1>1, <1>2, <1>3, <1>4, <1>5 DEF DeliversWhatIsSeen

\* The one finger that is lifted was on the frame that is seen.
LEMMA DoneStep ==
    ASSUME GalleryInv, NEW c \in Frames, DoneButtonWasPressed(c)
    PROVE  GalleryInv'
<1> USE DEF GalleryInv
<1>1. /\ Lift(Control("done", c, 0)) /\ fingers' = fingers \ {Control("done", c, 0)}
      /\ Dismiss("done")
      /\ phase = "open"
      /\ ~crossed => deliveries' = Append(deliveries, [frame |-> c, picture |-> pictures[c]])
      /\ UNCHANGED <<children, typeButton, pictures, crossed, opened, expected>>
  BY DEF DoneButtonWasPressed, Lift, frameVars
<1>2. TypeOK'
  BY <1>1, Lifting DEF TypeOK, Dismiss
<1>3. FingersOnControls' /\ FlagsOfFrames'
  BY <1>1 DEF FingersOnControls, FlagsOfFrames
<1>4. ASSUME ~crossed
      PROVE  /\ phase' = "done"
             /\ deliveries' = <<[frame |-> Len(children), picture |-> expected[Len(children)]]>>
  <2>1. c = Len(children)
    BY <1>1, <1>4, ControlFields DEF Uncrossed, FingerOnSeen, Lift
  <2>2. presented = 0 /\ expected = pictures /\ deliveries = <<>>
    BY <1>1, <1>4, Lifting DEF Uncrossed, PhotosWhereAsked, NothingSent
  <2> QED
    BY <1>1, <1>4, <2>1, <2>2 DEF Dismiss
<1>5. Uncrossed'
  BY <1>1, <1>4, Lifting
     DEF Uncrossed, OneFinger, FingerUncovered, FingerOnSeen, PhotosWhereAsked, NothingSent
<1>6. DeliversWhatIsSeen'
  BY <1>1, <1>4 DEF DeliversWhatIsSeen
<1> QED
  BY <1>1, <1>2, <1>3, <1>5, <1>6

\* Opening, confirming and cancelling pickers finds no finger on the gallery.
LEMMA PickerStep ==
    ASSUME GalleryInv, PickerCancel \/ PickerDone \/ CancelBehindOverlay
    PROVE  GalleryInv'
<1> USE DEF GalleryInv
<1>1. /\ phase = "open" /\ (presented # 0 \/ picking # 0)
      /\ presented' \in {presented, 0}
      /\ picking' \in {presented, picking}
      /\ UNCHANGED <<children, typeButton, pictures, fingers, phase, crossed, deliveries,
                     opened, expected>>
  BY DEF PickerCancel, PickerDone, CancelBehindOverlay, frameVars, history
<1>2. TypeOK'
  BY <1>1 DEF TypeOK
<1>3. FingersOnControls' /\ FlagsOfFrames'
  BY <1>1 DEF FingersOnControls, FlagsOfFrames
<1>4. ~crossed => fingers = {}
  BY <1>1 DEF Uncrossed, FingerUncovered
<1>5. Uncrossed'
  BY <1>1, <1>4
     DEF Uncrossed, OneFinger, FingerUncovered, FingerOnSeen, PhotosWhereAsked, NothingSent
<1> QED
  BY <1>1, <1>2, <1>3, <1>5 DEF DeliversWhatIsSeen

LEMMA PickerDidFinishStep ==
    ASSUME GalleryInv, NEW img \in Photos \cup {NoImage}, PickerDidFinish(img)
    PROVE  GalleryInv'
<1> USE DEF GalleryInv
<1>1. /\ phase = "open" /\ picking # 0
      /\ presented' = 0 /\ picking' = 0
      /\ phase' \in {"open", "lost"}
      /\ pictures' = [pictures EXCEPT ![picking][typeButton[picking]] = img]
      /\ expected' = IF crossed THEN expected
                     ELSE [expected EXCEPT ![picking][opened[picking]] = img]
      /\ UNCHANGED <<children, typeButton, fingers, deliveries, opened, crossed>>
  BY DEF PickerDidFinish, Target
<1>2. pictures' \in [Frames -> [Slots -> Photos \cup {NoImage}]]
  BY <1>1 DEF TypeOK
<1>3. TypeOK'
  BY <1>1, <1>2 DEF TypeOK
<1>4. FingersOnControls' /\ FlagsOfFrames'
  BY <1>1 DEF FingersOnControls, FlagsOfFrames
<1>5. ~crossed => fingers = {}
  BY <1>1 DEF Uncrossed, FingerUncovered
<1>6. ~crossed => PhotosWhereAsked'
  BY <1>1 DEF Uncrossed, PhotosWhereAsked
<1>7. Uncrossed'
  BY <1>1, <1>5, <1>6
     DEF Uncrossed, OneFinger, FingerUncovered, FingerOnSeen, NothingSent
<1> QED
  BY <1>1, <1>3, <1>4, <1>7 DEF DeliversWhatIsSeen

LEMMA NextGalleryInv == GalleryInv /\ [Next]_vars => GalleryInv'
<1> SUFFICES ASSUME GalleryInv, [Next]_vars PROVE GalleryInv'
  OBVIOUS
<1>1. ASSUME NEW x \in Controls, Touch(x) PROVE GalleryInv'
  BY <1>1, TouchStep
<1>2. ASSUME NEW x \in fingers, LiftOutside(x) PROVE GalleryInv'
  BY <1>2, LiftOutsideStep
<1>3. ASSUME NEW l \in Layouts, AddFrameVC(l) PROVE GalleryInv'
  BY <1>3, AddFrameStep
<1>4. ASSUME NEW c \in Frames, NEW s \in Slots, ImgWasPressed(c, s) PROVE GalleryInv'
  BY <1>4, ImgWasPressedStep
<1>5. ASSUME NEW c \in Frames, CancelButtonWasPressed(c) \/ DoneButtonWasPressed(c)
      PROVE  GalleryInv'
  BY <1>5, CancelStep, DoneStep
<1>6. CASE PickerCancel \/ PickerDone \/ CancelBehindOverlay
  BY <1>6, PickerStep
<1>7. ASSUME NEW img \in Photos \cup {NoImage}, PickerDidFinish(img) PROVE GalleryInv'
  BY <1>7, PickerDidFinishStep
<1>8. CASE UNCHANGED vars
  <2>1. UNCHANGED <<children, typeButton, pictures, presented, picking, fingers, phase, crossed,
                    deliveries, opened, expected>>
    BY <1>8 DEF vars, frameVars, history
  <2> QED
    BY <2>1 DEF GalleryInv, TypeOK, FingersOnControls, FlagsOfFrames, Uncrossed, OneFinger,
                FingerUncovered, FingerOnSeen, PhotosWhereAsked, NothingSent, DeliversWhatIsSeen
<1> QED
  BY <1>1, <1>2, <1>3, <1>4, <1>5, <1>6, <1>7, <1>8 DEF Next

LEMMA GalleryInvariant == Spec => []GalleryInv
BY InitGalleryInv, NextGalleryInv, PTL DEF Spec

-----------------------------------------------------------------------------
(* Theorems.                                                               *)

\* Every variable keeps its type, and a frame's flag names one of its slots.
THEOREM TypeCorrect == Spec => []TypeOK
<1>1. GalleryInv => TypeOK
  BY DEF GalleryInv
<1> QED
  BY <1>1, GalleryInvariant, PTL

\* With one finger at a time, Done delivers once, and what is seen.
THEOREM SeenIsDelivered == Spec => []DeliversWhatIsSeen
<1>1. GalleryInv => DeliversWhatIsSeen
  BY DEF GalleryInv
<1> QED
  BY <1>1, GalleryInvariant, PTL

\* However many fingers, frames and pickers there are, a pick changes no frame
\* but its own.
THEOREM PicksStayWithTheirFrame == Spec => PickStaysWithItsFrame
<1> DEFINE Stays == \A c \in Frames : pictures'[c] # pictures[c] => c = picking
<1>1. ASSUME GalleryInv, Next PROVE Stays
  <2>1. pictures' = pictures \/ \E img : PickerDidFinish(img)
    BY <1>1 DEF Next, Touch, LiftOutside, AddFrameVC, ImgWasPressed, CancelButtonWasPressed,
                DoneButtonWasPressed, PickerCancel, PickerDone, CancelBehindOverlay, frameVars
  <2> QED
    BY <1>1, <2>1 DEF PickerDidFinish, Target, GalleryInv, TypeOK
<1>2. GalleryInv /\ [Next]_vars => [Stays]_vars
  BY <1>1
<1> QED
  BY <1>2, GalleryInvariant, PTL DEF Spec, PickStaysWithItsFrame
===============================================================================
