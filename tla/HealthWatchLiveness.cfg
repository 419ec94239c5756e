SPECIFICATION FairSpec
CONSTANTS
    LoopWatches = {w1}
    SyncWatches = {w2}
    Setters = {t1}
    Services = {whole}
    Whole = whole
    Statuses = {up, down}
    Serving = up
    Unknown = unknown
    NoStatus = NoStatus
    NoTime = NoTime
    Timeouts = {NoTime, 1}
    MaxTime = 1
    MaxSets = 2
INVARIANTS
    NeverSucceeds
PROPERTIES
    WatchLive
CHECK_DEADLOCK FALSE
