\* Done and Cancel end the screen.
CHECK_DEADLOCK FALSE
CONSTANTS
    Labels = {l1, l2, l3}
    NoLabel = NoLabel
    Styles = {white, red}
    PlainStyle = white
    Autocorrection = FALSE
SPECIFICATION Spec
INVARIANTS
    TypeOK
    EditedIsCurrent
    PictureIsClean
PROPERTIES
    StylesWhatIsEdited
    EditsExclusively
