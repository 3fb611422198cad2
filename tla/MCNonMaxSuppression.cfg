\* The selection returns: the system stops.
CHECK_DEADLOCK FALSE
CONSTANTS
    Boxes = {p1, p2, p3}
    NumClasses = 2
    Scores = {0, 1, 2}
    ScoreThreshold = 0
    Rects <- MCRects
    OverlapNum = 1
    OverlapDen = 7
    MaxBoxes = 2
SPECIFICATION Spec
INVARIANTS
    SelectionIsRight
