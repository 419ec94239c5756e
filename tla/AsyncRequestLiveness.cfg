SPECIFICATION FairSpec
CONSTANTS
    Shapes = {"post", "single", "bidi"}
    NHooks = 1
    NoTime = NoTime
    Deadlines = {NoTime, 1}
    MaxTime = 1
    MaxChunks = 1
    MaxMessages = 1
    MaxCancels = 1
    MaxInterrupts = 0
    LateAccept = FALSE
PROPERTIES
    DeadlineEnds
    DisconnectEnds
    CancelEnds
