\* Two photos, two edits finished, one album write under way.
CONSTANTS
    Photos = {p1, p2}
    NoImage = NoImage
    MaxEdits = 2
    MaxSaves = 1
SPECIFICATION FairSpec
INVARIANTS
    TypeOK
    ToolSeesCurrentImage
    HiddenImageIsLateRender
    BlankOnlyFromEmptyPick
    RendersLandInOrder
PROPERTIES
    EveryRenderLands
