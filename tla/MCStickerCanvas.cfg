CONSTANTS
    Stickers = {s1, s2, s3, s4}
    NoSticker = NoSticker
SPECIFICATION CanvasSpec
INVARIANTS
    CanvasTypeOK
    EditedIsSelectedInFront
PROPERTIES
    TapRestsCanvas
    OnlyTouchedIsRaised
    EditsExclusively
