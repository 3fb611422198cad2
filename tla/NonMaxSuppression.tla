-------------------------- MODULE NonMaxSuppression --------------------------
(***************************************************************************)
(* CoreMLHelpers/NonMaxSuppression.swift: the multi-class selection of     *)
(* bounding boxes. Of each class the boxes with the best scores are kept   *)
(* greedily, as far as they do not overlap a kept one too much; then the   *)
(* best of all classes are returned. One step is one iteration of a loop.  *)
(*                                                                         *)
(* Sorting and then walking through the array is taking a box of the       *)
(* greatest score out of a set, again and again: Swift's sort promises     *)
(* nothing about the order of equal scores. Scores are ranks; a rectangle  *)
(* has integer corners and a size that is never negative (CGRect's width   *)
(* and height are not); the overlap is compared with a fraction, without   *)
(* Float's rounding.                                                       *)
(***************************************************************************)
EXTENDS Integers, FiniteSets

CONSTANTS
    Boxes,                \* the indices of boundingBoxes
    NumClasses,           \* numClasses: 0 .. NumClasses - 1
    Scores,               \* the scores the boxes may have
    ScoreThreshold,       \* scoreThreshold
    Rects,                \* the rectangles the boxes may have
    OverlapNum,           \* iouThreshold, as a fraction
    OverlapDen,
    MaxBoxes              \* bound on maxPerClass and maxTotal

ASSUME BoxesAssumption == IsFiniteSet(Boxes)
ASSUME NumbersAssumption ==
    /\ NumClasses \in Nat
    /\ Scores \subseteq Int /\ ScoreThreshold \in Int
    /\ OverlapNum \in Nat /\ OverlapDen \in Nat \ {0}
    /\ MaxBoxes \in Nat
ASSUME RectsAssumption == Rects \subseteq [x : Int, y : Int, width : Nat, height : Nat]

VARIABLES
    boundingBoxes,        \* the input: class, score and rectangle of each index
    maxPerClass, maxTotal,
    c,                    \* the class the outer loop is at
    rest,                 \* the part of sortedIndices the inner loop has not seen
    selected,             \* the boxes kept of this class
    selectedBoxes,        \* the boxes kept of the classes before
    result,               \* what is returned
    phase                 \* "filter", "select" or "done"

input == <<boundingBoxes, maxPerClass, maxTotal>>
vars == <<boundingBoxes, maxPerClass, maxTotal, c, rest, selected,
          selectedBoxes, result, phase>>

Score(p) == boundingBoxes[p].score

-----------------------------------------------------------------------------
(* Overlap.                                                                *)

AtLeastZero(n) == IF n > 0 THEN n ELSE 0
Lesser(m, n) == IF m < n THEN m ELSE n
Greater(m, n) == IF m > n THEN m ELSE n

Area(r) == r.width * r.height

\* How far two intervals run together.
Shared(from1, length1, from2, length2) ==
    AtLeastZero(Lesser(from1 + length1, from2 + length2) - Greater(from1, from2))

IntersectionArea(a, b) ==
    Shared(a.y, a.height, b.y, b.height) * Shared(a.x, a.width, b.x, b.width)

\* IOU(a, b) > iouThreshold. The overlap with a rectangle that has no area is 0.
Overlaps(a, b) ==
    /\ Area(a) > 0
    /\ Area(b) > 0
    /\ IntersectionArea(a, b) * OverlapDen
         > OverlapNum * (Area(a) + Area(b) - IntersectionArea(a, b))

-----------------------------------------------------------------------------
(* The algorithm.                                                          *)

Candidates(class) ==
    {p \in Boxes : boundingBoxes[p].classIndex = class /\ Score(p) > ScoreThreshold}

\* Faulty variant of MayComeFirst: sorted from low to high.
MayComeLast(p, S) == \A q \in S : Score(p) <= Score(q)

\* p may come first when S is sorted by score, from high to low.
MayComeFirst(p, S) == \A q \in S : Score(p) >= Score(q)

\* T may be the first n of S when S is sorted by score.
MayBePrefix(T, S, n) ==
    /\ T \subseteq S
    /\ Cardinality(T) = Lesser(n, Cardinality(S))
    /\ \A p \in T, q \in S \ T : Score(p) >= Score(q)

Init ==
    /\ boundingBoxes \in
           [Boxes -> [classIndex : 0..NumClasses, score : Scores, rect : Rects]]
    /\ maxPerClass \in 0..MaxBoxes
    /\ maxTotal \in 0..MaxBoxes
    /\ c = 0
    /\ rest = {}
    /\ selected = {}
    /\ selectedBoxes = {}
    /\ result = {}
    /\ phase = "filter"

\* The outer loop begins with the next class.
FilterClass ==
    /\ phase = "filter"
    /\ c < NumClasses
    /\ rest' = Candidates(c)
    /\ selected' = {}
    /\ phase' = "select"
    /\ UNCHANGED <<input, c, selectedBoxes, result>>

\* The inner loop looks at the next box: it is kept unless it overlaps a box
\* that was kept before.
ConsiderBox ==
    /\ phase = "select"
    /\ Cardinality(selected) < maxPerClass
    /\ \E p \in rest :
          /\ MayComeFirst(p, rest)
          /\ rest' = rest \ {p}
          /\ selected' =
                 IF \E q \in selected : Overlaps(boundingBoxes[p].rect, boundingBoxes[q].rect)
                 THEN selected
                 ELSE selected \cup {p}
    /\ UNCHANGED <<input, c, selectedBoxes, result, phase>>

\* The inner loop has seen all, or has kept enough.
EndClass ==
    /\ phase = "select"
    /\ rest = {} \/ Cardinality(selected) >= maxPerClass
    /\ selectedBoxes' = selectedBoxes \cup selected
    /\ c' = c + 1
    /\ phase' = "filter"
    /\ UNCHANGED <<input, rest, selected, result>>

\* The best of all classes are returned.
Return ==
    /\ phase = "filter"
    /\ c = NumClasses
    /\ \E T \in SUBSET selectedBoxes :
          /\ MayBePrefix(T, selectedBoxes, maxTotal)
          /\ result' = T
    /\ phase' = "done"
    /\ UNCHANGED <<input, c, rest, selected, selectedBoxes>>

Next == FilterClass \/ ConsiderBox \/ EndClass \/ Return

Spec == Init /\ [][Next]_vars

-----------------------------------------------------------------------------
(* Properties.                                                             *)

BoxesOverlap(p, q) == Overlaps(boundingBoxes[p].rect, boundingBoxes[q].rect)

OfClass(S, p) == {q \in S : boundingBoxes[q].classIndex = boundingBoxes[p].classIndex}

NoWorse(S, p) == \A q \in S : Score(q) >= Score(p)

\* No two boxes returned for one class overlap too much, in either order.
ReturnedDoNotOverlap ==
    \A p \in result : \A q \in OfClass(result, p) : p # q => ~BoxesOverlap(p, q)

\* What is returned was offered, and neither limit is exceeded.
ReturnedWithinLimits ==
    /\ \A p \in result : \E class \in 0..(NumClasses - 1) : p \in Candidates(class)
    /\ Cardinality(result) <= maxTotal
    /\ \A p \in result : Cardinality(OfClass(result, p)) <= maxPerClass

\* A candidate that is missing was displaced by what is returned: a box of its
\* class that is no worse overlaps it, its class is full of boxes that are no
\* worse, or all that is returned is no worse and leaves no place.
MissingForAReason ==
    \A class \in 0..(NumClasses - 1) : \A p \in Candidates(class) \ result :
        \/ \E q \in OfClass(result, p) : BoxesOverlap(p, q) /\ Score(q) >= Score(p)
        \/ Cardinality(OfClass(result, p)) = maxPerClass /\ NoWorse(OfClass(result, p), p)
        \/ Cardinality(result) = maxTotal /\ NoWorse(result, p)

\* "Removes bounding boxes that overlap too much with other boxes that have a
\* higher score", and none else but for the limits: ties, empty rectangles,
\* chains of overlaps and limits of zero included.
SelectionIsRight ==
    phase = "done" => ReturnedDoNotOverlap /\ ReturnedWithinLimits /\ MissingForAReason
===============================================================================
