SPECIFICATION Spec
CONSTANTS
    LoopWatches = {w1}
    SyncWatches = {w2}
    Setters = {t1, t2}
    Services = {whole, a}
    Whole = whole
    Statuses = {up, down}
    Serving = up
    Unknown = unknown
    NoStatus = NoStatus
    NoTime = NoTime
    Timeouts = {NoTime}
    MaxTime = 0
    MaxSets = 1
INVARIANTS
    NoLostWakeup
    WatchersExact
CHECK_DEADLOCK FALSE
