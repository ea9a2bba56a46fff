\* One polling loop at a time, failing writes, stops and kills.
CONSTANTS
    Runs = {r1}
    Overlap = FALSE
    Usage = {1, 2, 3}
    Timeout = 1
    MaxSessions = 2
    MaxCount = 2
    StoreFails = TRUE
    Crashes = TRUE
SPECIFICATION FairSpec
INVARIANTS
    OpenSessionIsTracked
    MaxCoversUsage
PROPERTIES
    IdleSessionEnds
