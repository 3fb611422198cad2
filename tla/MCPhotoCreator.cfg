\* The creator ends with Done, Cancel or a lost design, and the sticker views
\* run out: the system stops.
CHECK_DEADLOCK FALSE
CONSTANTS
    Stickers = {s1, s2, s3}
    NoSticker = NoSticker
    Photos = {p1}
    NoImage = NoImage
    MaxHeld = 1
SPECIFICATION Spec
INVARIANTS
    TypeOK
    HomeGetsWhatWasDone
PROPERTIES
    PickGoesWhereAsked
    DesignHandlesInFront
