\* One read; a strip of two stickers; groups of up to three; two cells a view.
CONSTANTS
    Gets = {panel}
    Cells = {c1, c2}
    StripLength = 2
    MaxItems = 3
    MaxDocuments = 2
    MaxDownloads = 2
    NoImage = NoImage
    MoreIcon = MoreIcon
SPECIFICATION Spec
INVARIANTS
    TypeOK
    CellShowsItsRow
    PassesWhatWasTapped
CHECK_DEADLOCK FALSE
