\* Two frames of one to three slots, two fingers at once, two photos.
CONSTANTS
    Photos = {p1, p2}
    NoImage = NoImage
    Layouts = {1, 2, 3}
    MaxFrames = 2
    MaxFingers = 2
SPECIFICATION Spec
INVARIANTS
    TypeOK
    DeliversWhatIsSeen

    
CHECK_DEADLOCK FALSE
