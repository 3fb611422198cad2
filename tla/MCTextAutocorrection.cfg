CHECK_DEADLOCK FALSE
CONSTANTS
    Labels = {l1, l2}
    NoLabel = NoLabel
    Styles = {white, red}
    PlainStyle = white
    Autocorrection = TRUE
SPECIFICATION Spec
PROPERTIES
    HiddenWhenReported
