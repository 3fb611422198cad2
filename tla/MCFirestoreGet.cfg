\* Two reads of the collection, two of its versions, a stream that breaks twice.
CONSTANTS
    Gets = {g1, g2}
    kMaxWatchStreamFailures = 1
    MaxVersion = 2
    MaxBreaks = 2
SPECIFICATION FairSpec
INVARIANTS
    TypeOK
    NeverAborts
    SyncedViewIsFresh
    OfflineAnswersFromCache
    NothingLeftListening
PROPERTIES
    ImplementsOneShotRead
    EveryGetAnswered
CHECK_DEADLOCK FALSE
