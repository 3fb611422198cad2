\* The server is silent: only the timers and the queues of the client are fair.
CONSTANTS
    Gets = {g1, g2}
    kMaxWatchStreamFailures = 1
    MaxVersion = 1
    MaxBreaks = 1
SPECIFICATION SilentServerSpec
PROPERTIES
    UnknownDoesNotLast
CHECK_DEADLOCK FALSE
