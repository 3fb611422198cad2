\* One finger at a time: nothing is held or under way when Done is tapped.
CHECK_DEADLOCK FALSE
CONSTANTS
    Assets = {a1, a2}
    NoAsset = NoAsset
    MaxRequests = 5
    MayHold = {}
SPECIFICATION Spec
PROPERTIES
    FlagMeansCancelled
