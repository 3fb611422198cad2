\* A picker that was cancelled or has delivered, or that waits for a photo that
\* will not come, stops.
CHECK_DEADLOCK FALSE
CONSTANTS
    Assets = {a1, a2}
    NoAsset = NoAsset
    MaxRequests = 5
    MayHold = {"cancel", "cell", "back", "swipe", a1, a2}
SPECIFICATION FairSpec
INVARIANTS
    TypeOK
    SingleSelection
    DeliversAllChosen
    FlagOnlyAfterPage
PROPERTIES
    EveryDoneEnds
