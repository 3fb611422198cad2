----------------------- MODULE NonMaxSuppressionProofs -----------------------
(* The selection is right for any number of boxes, classes, scores and     *)
(* rectangles, any threshold and any limits.                               *)
EXTENDS NonMaxSuppression, FiniteSetTheorems, TLAPS

\* What the loops have decided about the boxes of one class: kept boxes are
\* candidates within the limit and do not overlap.
Kept(K, class) ==
    /\ K \subseteq Candidates(class)
    /\ Cardinality(K) <= maxPerClass
    /\ \A p, q \in K : p # q => ~BoxesOverlap(p, q)

\* p was dropped for one of the boxes K.
Displaced(p, K) == \E q \in K : BoxesOverlap(p, q) /\ Score(q) >= Score(p)

\* The class is full of boxes that are no worse than p.
Crowded(p, K) == Cardinality(K) = maxPerClass /\ NoWorse(K, p)

InputTypes ==
    /\ boundingBoxes \in
           [Boxes -> [classIndex : 0..NumClasses, score : Scores, rect : Rects]]
    /\ maxPerClass \in Nat
    /\ maxTotal \in Nat
    /\ c \in 0..NumClasses
    /\ phase \in {"filter", "select", "done"}

\* The class at hand: what is kept comes before the rest, and what is neither
\* was dropped for a box that is kept.
ClassAtHand ==
    phase = "select" =>
        /\ c < NumClasses
        /\ Kept(selected, c)
        /\ rest \subseteq Candidates(c)
        /\ \A p \in rest : NoWorse(selected, p)
        /\ \A p \in Candidates(c) \ (selected \cup rest) : Displaced(p, selected)

\* A class the outer loop has left.
Settled(class) ==
    LET K == selectedBoxes \cap Candidates(class)
    IN  /\ Kept(K, class)
        /\ \A p \in Candidates(class) \ K : Displaced(p, K) \/ Crowded(p, K)

ClassesBefore ==
    /\ \A p \in selectedBoxes : \E class \in 0..(c - 1) : p \in Candidates(class)
    /\ \A class \in 0..(c - 1) : Settled(class)

SelectionInv ==
    /\ InputTypes
    /\ ClassAtHand
    /\ ClassesBefore
    /\ phase = "done" =>
           /\ c = NumClasses
           /\ MayBePrefix(result, selectedBoxes, maxTotal)

-----------------------------------------------------------------------------
(* Facts about the operators.                                              *)

\* An overlap does not depend on the order of the two rectangles.
LEMMA SharedCommutes ==
    \A f1, l1, f2, l2 \in Int : Shared(f1, l1, f2, l2) = Shared(f2, l2, f1, l1)
BY DEF Shared, AtLeastZero, Lesser, Greater

LEMMA OverlapsCommutes ==
    ASSUME NEW a \in Rects, NEW b \in Rects
    PROVE  Overlaps(a, b) <=> Overlaps(b, a)
<1>1. /\ a.x \in Int /\ a.y \in Int /\ a.width \in Int /\ a.height \in Int
      /\ b.x \in Int /\ b.y \in Int /\ b.width \in Int /\ b.height \in Int
  BY RectsAssumption
<1>2. IntersectionArea(a, b) = IntersectionArea(b, a)
  <2>1. Shared(a.y, a.height, b.y, b.height) = Shared(b.y, b.height, a.y, a.height)
    BY <1>1, SharedCommutes
  <2>2. Shared(a.x, a.width, b.x, b.width) = Shared(b.x, b.width, a.x, a.width)
    BY <1>1, SharedCommutes
  <2> QED
    BY <2>1, <2>2 DEF IntersectionArea
<1>3. Area(a) \in Int /\ Area(b) \in Int
  BY <1>1 DEF Area
<1>4. IntersectionArea(a, b) \in Int
  BY <1>1 DEF IntersectionArea, Shared, AtLeastZero, Lesser, Greater
<1>5. Area(a) + Area(b) - IntersectionArea(a, b) = Area(b) + Area(a) - IntersectionArea(b, a)
  BY <1>2, <1>3, <1>4
<1>6. ASSUME NEW i, NEW u PROVE
        (/\ Area(a) > 0 /\ Area(b) > 0 /\ i * OverlapDen > OverlapNum * u)
        <=> (/\ Area(b) > 0 /\ Area(a) > 0 /\ i * OverlapDen > OverlapNum * u)
  OBVIOUS
<1> QED
  BY <1>2, <1>5, <1>6, Zenon DEF Overlaps

LEMMA CandidateFacts ==
    ASSUME InputTypes, NEW class, NEW p \in Candidates(class)
    PROVE  /\ p \in Boxes
           /\ Score(p) \in Int
           /\ boundingBoxes[p].classIndex = class
           /\ boundingBoxes[p].rect \in Rects
BY NumbersAssumption DEF InputTypes, Candidates, Score

LEMMA CandidatesAreFinite ==
    ASSUME NEW class, NEW K, K \subseteq Candidates(class)
    PROVE  IsFiniteSet(K) /\ Cardinality(K) \in Nat
<1>1. K \in SUBSET Boxes
  BY DEF Candidates
<1> QED
  BY <1>1, BoxesAssumption, FS_Subset, FS_CardinalityType

LEMMA InputUnchanged ==
    ASSUME UNCHANGED input
    PROVE  /\ \A class : Candidates(class)' = Candidates(class)
           /\ \A p : Score(p)' = Score(p)
           /\ \A p, q : BoxesOverlap(p, q)' = BoxesOverlap(p, q)
           /\ maxPerClass' = maxPerClass /\ maxTotal' = maxTotal
BY DEF input, Candidates, Score, BoxesOverlap

-----------------------------------------------------------------------------
(* The loops.                                                              *)

LEMMA InitSelectionInv == Init => SelectionInv
<1> SUFFICES ASSUME Init PROVE SelectionInv
  OBVIOUS
<1> QED
  BY NumbersAssumption
     DEF Init, SelectionInv, InputTypes, ClassAtHand, ClassesBefore

\* Classes that are settled stay settled while the boxes kept of them do.
LEMMA BeforeKept ==
    ASSUME ClassesBefore, UNCHANGED <<input, c, selectedBoxes>>
    PROVE  ClassesBefore'
<1> USE InputUnchanged
<1>1. \A class : Settled(class)' = Settled(class)
  BY DEF Settled, Kept, Displaced, Crowded, NoWorse
<1> QED
  BY <1>1 DEF ClassesBefore

LEMMA FilterClassInv == SelectionInv /\ FilterClass => SelectionInv'
<1> SUFFICES ASSUME SelectionInv, FilterClass PROVE SelectionInv'
  OBVIOUS
<1>1. InputTypes'
  BY DEF SelectionInv, InputTypes, FilterClass, input
<1>2. ClassesBefore'
  BY BeforeKept DEF SelectionInv, FilterClass
<1>3. ClassAtHand'
  <2>1. UNCHANGED input /\ selected' = {} /\ rest' = Candidates(c) /\ c' = c /\ c < NumClasses
    BY DEF FilterClass
  <2>2. Kept(selected, c)'
    BY <2>1, InputUnchanged, FS_EmptySet DEF Kept, SelectionInv, InputTypes
  <2> QED
    BY <2>1, <2>2, InputUnchanged DEF ClassAtHand, NoWorse
<1> QED
  BY <1>1, <1>2, <1>3 DEF SelectionInv, FilterClass

\* The box the loop looks at is no better than any that is kept and no worse
\* than any that comes later.
LEMMA ConsiderBoxInv == SelectionInv /\ ConsiderBox => SelectionInv'
<1> SUFFICES ASSUME SelectionInv, ConsiderBox PROVE SelectionInv'
  OBVIOUS
<1>1. InputTypes'
  BY DEF SelectionInv, InputTypes, ConsiderBox, input
<1>2. ClassesBefore'
  BY BeforeKept DEF SelectionInv, ConsiderBox
<1>3. ClassAtHand'
  <2>1. PICK p \in rest :
          /\ MayComeFirst(p, rest)
          /\ rest' = rest \ {p}
          /\ selected' = IF \E q \in selected : BoxesOverlap(p, q)
                         THEN selected ELSE selected \cup {p}
    BY DEF ConsiderBox, BoxesOverlap
  <2>2. /\ UNCHANGED input
        /\ c' = c
        /\ c < NumClasses
        /\ phase' = "select"
        /\ Cardinality(selected) < maxPerClass
        /\ Kept(selected, c)
        /\ rest \subseteq Candidates(c)
        /\ \A q \in rest : NoWorse(selected, q)
        /\ \A q \in Candidates(c) \ (selected \cup rest) : Displaced(q, selected)
    BY DEF SelectionInv, ClassAtHand, ConsiderBox
  <2>3. p \in Candidates(c) /\ selected \subseteq Candidates(c)
    BY <2>1, <2>2 DEF Kept
  <2>4. \A q \in Candidates(c) : Score(q) \in Int /\ boundingBoxes[q].rect \in Rects
    BY CandidateFacts DEF SelectionInv
  <2>5. CASE \E q \in selected : BoxesOverlap(p, q)
    <3>1. selected' = selected
      BY <2>1, <2>5
    <3>2. Displaced(p, selected)
      BY <2>1, <2>2, <2>5 DEF Displaced, NoWorse
    <3>3. Kept(selected, c)'
      BY <2>2, <3>1, InputUnchanged DEF Kept
    <3>4. \A q \in rest' : NoWorse(selected, q)'
      BY <2>1, <2>2, <3>1, InputUnchanged DEF NoWorse
    <3>5. \A q \in Candidates(c) \ (selected \cup rest') : Displaced(q, selected)
      BY <2>1, <2>2, <3>2
    <3>6. (\A q \in Candidates(c) \ (selected \cup rest) : Displaced(q, selected))'
      BY <2>2, <3>1, <3>5, InputUnchanged DEF Displaced
    <3>7. rest' \subseteq Candidates(c)'
      BY <2>1, <2>2, InputUnchanged
    <3> QED
      BY <2>2, <3>3, <3>4, <3>6, <3>7 DEF ClassAtHand
  <2>6. CASE ~ \E q \in selected : BoxesOverlap(p, q)
    <3>1. selected' = selected \cup {p}
      BY <2>1, <2>6
    <3>2. Cardinality(selected') <= maxPerClass
      <4>1. IsFiniteSet(selected) /\ Cardinality(selected) \in Nat
        BY <2>3, CandidatesAreFinite
      <4>2. Cardinality(selected \cup {p}) <= Cardinality(selected) + 1
        BY <4>1, FS_AddElement
      <4>3. Cardinality(selected \cup {p}) \in Nat
        BY <4>1, FS_AddElement, FS_CardinalityType
      <4> QED
        BY <4>1, <4>2, <4>3, <3>1, <2>2 DEF SelectionInv, InputTypes
    <3>3. \A q \in selected : ~BoxesOverlap(p, q) /\ ~BoxesOverlap(q, p)
      BY <2>3, <2>4, <2>6, OverlapsCommutes DEF BoxesOverlap
    <3>4. Kept(selected, c)'
      <4>1. \A q, r \in selected' : q # r => ~BoxesOverlap(q, r)
        BY <2>2, <3>1, <3>3 DEF Kept
      <4> QED
        BY <2>2, <2>3, <3>1, <3>2, <4>1, InputUnchanged DEF Kept
    <3>5. \A q \in rest' : NoWorse(selected, q)'
      <4>1. \A q \in rest' : Score(p) >= Score(q)
        BY <2>1 DEF MayComeFirst
      <4> QED
        BY <2>1, <2>2, <3>1, <4>1, InputUnchanged DEF NoWorse
    <3>6. (\A q \in Candidates(c) \ (selected \cup rest) : Displaced(q, selected))'
      <4>1. Candidates(c) \ (selected' \cup rest') \subseteq Candidates(c) \ (selected \cup rest)
        BY <2>1, <3>1
      <4>2. \A q \in Candidates(c) \ (selected' \cup rest') : Displaced(q, selected')
        BY <2>2, <3>1, <4>1 DEF Displaced
      <4> QED
        BY <2>2, <4>2, InputUnchanged DEF Displaced
    <3>7. rest' \subseteq Candidates(c)'
      BY <2>1, <2>2, InputUnchanged
    <3> QED
      BY <2>2, <3>4, <3>5, <3>6, <3>7 DEF ClassAtHand
  <2> QED
    BY <2>5, <2>6
<1> QED
  BY <1>1, <1>2, <1>3 DEF SelectionInv, ConsiderBox

\* A class is settled by the boxes kept of it.
LEMMA SettledByWhatWasKept ==
    ASSUME UNCHANGED input, NEW class, NEW K,
           selectedBoxes' \cap Candidates(class) = K,
           Kept(K, class),
           \A p \in Candidates(class) \ K : Displaced(p, K) \/ Crowded(p, K)
    PROVE  Settled(class)'
<1>1. selectedBoxes' \cap Candidates(class)' = K
  BY InputUnchanged
<1>2. /\ K \subseteq Candidates(class)'
      /\ Cardinality(K) <= maxPerClass'
      /\ \A p, q \in K : p # q => ~BoxesOverlap(p, q)'
  BY InputUnchanged DEF Kept
<1>3. \A p \in Candidates(class)' \ K :
        \/ \E q \in K : BoxesOverlap(p, q)' /\ Score(q)' >= Score(p)'
        \/ Cardinality(K) = maxPerClass' /\ \A q \in K : Score(q)' >= Score(p)'
  BY InputUnchanged DEF Displaced, Crowded, NoWorse
<1> QED
  BY <1>1, <1>2, <1>3 DEF Settled, Kept, Displaced, Crowded, NoWorse

\* The class at hand is settled; those before are, for no box has two classes.
LEMMA EndClassInv == SelectionInv /\ EndClass => SelectionInv'
<1> SUFFICES ASSUME SelectionInv, EndClass PROVE SelectionInv'
  OBVIOUS
<1>1. /\ InputTypes
      /\ UNCHANGED input
      /\ c \in Nat /\ c < NumClasses
      /\ c' = c + 1
      /\ phase' = "filter"
      /\ selectedBoxes' = selectedBoxes \cup selected
      /\ Kept(selected, c)
      /\ \A p \in rest : NoWorse(selected, p)
      /\ \A p \in Candidates(c) \ (selected \cup rest) : Displaced(p, selected)
  BY NumbersAssumption DEF SelectionInv, ClassAtHand, EndClass, InputTypes
<1>2. InputTypes'
  BY <1>1, NumbersAssumption DEF InputTypes, input
<1>3. \A d1, d2 : d1 # d2 => Candidates(d1) \cap Candidates(d2) = {}
  BY DEF Candidates
<1>4. \A class \in 0..(c - 1) :
        selectedBoxes' \cap Candidates(class) = selectedBoxes \cap Candidates(class)
  BY <1>1, <1>3 DEF Kept
<1>5. selectedBoxes' \cap Candidates(c) = selected
  BY <1>1, <1>3 DEF Kept, SelectionInv, ClassesBefore
<1>6. \A class \in 0..(c - 1) : Settled(class)'
  <2> SUFFICES ASSUME NEW class \in 0..(c - 1) PROVE Settled(class)'
    OBVIOUS
  <2> DEFINE K == selectedBoxes \cap Candidates(class)
  <2>1. Settled(class)
    BY DEF SelectionInv, ClassesBefore
  <2>2. /\ Kept(K, class)
        /\ \A p \in Candidates(class) \ K : Displaced(p, K) \/ Crowded(p, K)
    BY <2>1 DEF Settled
  <2>3. selectedBoxes' \cap Candidates(class) = K
    BY <1>4
  <2> QED
    BY <1>1, <2>2, <2>3, SettledByWhatWasKept
<1>7. \A p \in Candidates(c) \ selected : Displaced(p, selected) \/ Crowded(p, selected)
  <2> SUFFICES ASSUME NEW p \in Candidates(c) \ selected, ~Displaced(p, selected)
               PROVE  Crowded(p, selected)
    OBVIOUS
  <2>1. p \in rest
    BY <1>1
  <2>2. Cardinality(selected) >= maxPerClass
    BY <2>1 DEF EndClass
  <2>3. Cardinality(selected) = maxPerClass
    BY <1>1, <2>2, CandidatesAreFinite DEF Kept, InputTypes
  <2> QED
    BY <1>1, <2>1, <2>3 DEF Crowded
<1>8. ASSUME NEW class, class = c PROVE Settled(class)'
  <2>1. Kept(selected, class) /\ selectedBoxes' \cap Candidates(class) = selected
    BY <1>1, <1>5, <1>8
  <2>2. \A p \in Candidates(class) \ selected : Displaced(p, selected) \/ Crowded(p, selected)
    BY <1>7, <1>8
  <2> QED
    BY <1>1, <2>1, <2>2, SettledByWhatWasKept
<1>9. ClassesBefore'
  <2>1. \A class \in 0..(c' - 1) : class \in 0..(c - 1) \/ class = c
    BY <1>1
  <2>2. \A class \in 0..(c - 1) : class \in 0..(c' - 1)
    BY <1>1
  <2>3. c \in 0..(c' - 1)
    BY <1>1
  <2>4. \A p \in selectedBoxes' : \E class \in 0..(c' - 1) : p \in Candidates(class)
    BY <1>1, <2>2, <2>3 DEF SelectionInv, ClassesBefore, Kept
  <2>5. \A class \in 0..(c' - 1) : Settled(class)'
    BY <1>1, <1>6, <1>8, <2>1
  <2> QED
    BY <1>1, <2>4, <2>5, InputUnchanged DEF ClassesBefore
<1> QED
  BY <1>1, <1>2, <1>9 DEF SelectionInv, ClassAtHand

LEMMA ReturnInv == SelectionInv /\ Return => SelectionInv'
<1> SUFFICES ASSUME SelectionInv, Return PROVE SelectionInv'
  OBVIOUS
<1>1. InputTypes'
  BY DEF SelectionInv, InputTypes, Return, input
<1>2. ClassesBefore'
  BY BeforeKept DEF SelectionInv, Return
<1>3. (phase = "done" => c = NumClasses /\ MayBePrefix(result, selectedBoxes, maxTotal))'
  BY InputUnchanged DEF Return, MayBePrefix
<1> QED
  BY <1>1, <1>2, <1>3 DEF SelectionInv, ClassAtHand, Return

LEMMA StutterInv == SelectionInv /\ UNCHANGED vars => SelectionInv'
<1> SUFFICES ASSUME SelectionInv, UNCHANGED vars PROVE SelectionInv'
  OBVIOUS
<1>1. UNCHANGED input /\ UNCHANGED <<c, rest, selected, selectedBoxes, result, phase>>
  BY DEF vars, input
<1>2. ClassesBefore'
  BY <1>1, BeforeKept DEF SelectionInv
<1>3. ClassAtHand'
  BY <1>1, InputUnchanged DEF SelectionInv, ClassAtHand, Kept, Displaced, NoWorse
<1>4. InputTypes'
  BY <1>1 DEF SelectionInv, InputTypes, input
<1>5. MayBePrefix(result, selectedBoxes, maxTotal)' = MayBePrefix(result, selectedBoxes, maxTotal)
  BY <1>1, InputUnchanged DEF MayBePrefix
<1> QED
  BY <1>1, <1>2, <1>3, <1>4, <1>5 DEF SelectionInv

LEMMA SelectionInvHolds == Spec => []SelectionInv
<1>1. SelectionInv /\ [Next]_vars => SelectionInv'
  BY FilterClassInv, ConsiderBoxInv, EndClassInv, ReturnInv, StutterInv DEF Next
<1> QED
  BY <1>1, InitSelectionInv, PTL DEF Spec

-----------------------------------------------------------------------------
(* What is returned.                                                       *)

\* A box that was kept of its class and is not returned gave way to boxes that
\* are no worse, and they leave no place.
LEMMA CutOffForAReason ==
    ASSUME SelectionInv, phase = "done", NEW p \in selectedBoxes \ result
    PROVE  Cardinality(result) = maxTotal /\ NoWorse(result, p)
<1>1. MayBePrefix(result, selectedBoxes, maxTotal)
  BY DEF SelectionInv
<1>2. selectedBoxes \subseteq Boxes
  BY DEF SelectionInv, ClassesBefore, Candidates
<1>3. IsFiniteSet(selectedBoxes) /\ Cardinality(selectedBoxes) \in Nat
  BY <1>2, BoxesAssumption, FS_Subset, FS_CardinalityType
<1>4. Cardinality(result) # Cardinality(selectedBoxes)
  BY <1>1, <1>3, FS_Subset DEF MayBePrefix
<1> QED
  BY <1>1, <1>4 DEF MayBePrefix, Lesser, NoWorse

LEMMA SelectionInvSuffices == SelectionInv => SelectionIsRight
<1> SUFFICES ASSUME SelectionInv, phase = "done"
             PROVE  ReturnedDoNotOverlap /\ ReturnedWithinLimits /\ MissingForAReason
  BY DEF SelectionIsRight
<1>1. /\ InputTypes
      /\ c = NumClasses
      /\ result \subseteq selectedBoxes
      /\ \A p \in selectedBoxes : \E class \in 0..(NumClasses - 1) : p \in Candidates(class)
      /\ \A class \in 0..(NumClasses - 1) : Settled(class)
  BY DEF SelectionInv, ClassesBefore, MayBePrefix
<1>2. ASSUME NEW class \in 0..(NumClasses - 1), NEW p \in Candidates(class)
      PROVE  OfClass(result, p) = result \cap Candidates(class)
  <2>1. \A q \in result : q \in Candidates(boundingBoxes[q].classIndex)
    BY <1>1 DEF Candidates
  <2> QED
    BY <2>1, <1>2 DEF OfClass, Candidates
<1>3. ReturnedDoNotOverlap
  <2> SUFFICES ASSUME NEW p \in result, NEW q \in OfClass(result, p), p # q
               PROVE  ~BoxesOverlap(p, q)
    BY DEF ReturnedDoNotOverlap
  <2>1. PICK class \in 0..(NumClasses - 1) : p \in Candidates(class)
    BY <1>1
  <2>2. q \in selectedBoxes \cap Candidates(class) /\ p \in selectedBoxes \cap Candidates(class)
    BY <1>1, <1>2, <2>1
  <2> QED
    BY <1>1, <2>2 DEF Settled, Kept
<1>4. ReturnedWithinLimits
  <2>1. \A p \in result : \E class \in 0..(NumClasses - 1) : p \in Candidates(class)
    BY <1>1
  <2>2. Cardinality(result) <= maxTotal
    <3>1. selectedBoxes \subseteq Boxes
      BY <1>1 DEF Candidates
    <3>2. Cardinality(selectedBoxes) \in Nat
      BY <3>1, BoxesAssumption, FS_Subset, FS_CardinalityType
    <3> QED
      BY <3>2 DEF SelectionInv, InputTypes, MayBePrefix, Lesser
  <2>3. ASSUME NEW p \in result PROVE Cardinality(OfClass(result, p)) <= maxPerClass
    <3>1. PICK class \in 0..(NumClasses - 1) : p \in Candidates(class)
      BY <2>1
    <3> DEFINE K == selectedBoxes \cap Candidates(class)
    <3>2. Cardinality(K) <= maxPerClass /\ IsFiniteSet(K) /\ Cardinality(K) \in Nat
      BY <1>1, CandidatesAreFinite DEF Settled, Kept
    <3>3. OfClass(result, p) \in SUBSET K
      BY <1>1, <1>2, <3>1
    <3>4. /\ Cardinality(OfClass(result, p)) <= Cardinality(K)
          /\ Cardinality(OfClass(result, p)) \in Nat
      BY <3>2, <3>3, FS_Subset, FS_CardinalityType
    <3> QED
      BY <3>2, <3>4, <1>1 DEF InputTypes
  <2> QED
    BY <2>1, <2>2, <2>3 DEF ReturnedWithinLimits
<1>5. MissingForAReason
  <2> SUFFICES ASSUME NEW class \in 0..(NumClasses - 1), NEW p \in Candidates(class) \ result,
                      ~(Cardinality(result) = maxTotal /\ NoWorse(result, p))
               PROVE  \/ Displaced(p, OfClass(result, p))
                      \/ Crowded(p, OfClass(result, p))
    BY DEF MissingForAReason, Displaced, Crowded
  <2> DEFINE K == selectedBoxes \cap Candidates(class)
  <2>1. \A q \in Candidates(class) : Score(q) \in Int
    BY <1>1, CandidateFacts
  <2>2. \A q \in result : Score(q) \in Int
    BY <1>1, CandidateFacts
  <2>3. p \notin K
    BY CutOffForAReason
  <2>4. \A q \in K : Score(q) >= Score(p) => q \in result
    <3> SUFFICES ASSUME NEW q \in K, Score(q) >= Score(p), q \notin result PROVE FALSE
      OBVIOUS
    <3>1. Cardinality(result) = maxTotal /\ NoWorse(result, q)
      BY CutOffForAReason
    <3>2. NoWorse(result, p)
      BY <2>1, <2>2, <3>1 DEF NoWorse
    <3> QED
      BY <3>1, <3>2
  <2>5. Displaced(p, K) \/ Crowded(p, K)
    BY <1>1, <2>3 DEF Settled
  <2>6. CASE Displaced(p, K)
    BY <1>2, <2>4, <2>6 DEF Displaced
  <2>7. CASE Crowded(p, K)
    <3>1. K \subseteq result
      BY <2>4, <2>7 DEF Crowded, NoWorse
    <3>2. OfClass(result, p) = K
      BY <1>1, <1>2, <3>1
    <3> QED
      BY <2>7, <3>2
  <2> QED
    BY <2>5, <2>6, <2>7
<1> QED
  BY <1>3, <1>4, <1>5

\* Whatever the boxes, the threshold and the limits, what is returned does not
\* overlap within a class, keeps to the limits, and nothing is missing without
\* a reason.
THEOREM SelectsRightly == Spec => []SelectionIsRight
<1>1. SelectionInv => SelectionIsRight
  BY SelectionInvSuffices
<1> QED
  BY <1>1, SelectionInvHolds, PTL
===============================================================================
