SPECIFICATION Spec
CONSTANTS
    Shapes = {"get", "post", "single", "client_stream", "server_stream", "bidi"}
    NHooks = 2
    NoTime = NoTime
    Deadlines = {NoTime, 1}
    MaxTime = 2
    MaxChunks = 1
    MaxMessages = 1
    MaxCancels = 1
    MaxInterrupts = 0
    LateAccept = FALSE
INVARIANTS
    WireOrder
    HooksCorrect
    HooksSeeOutcome
    EndIsHonest
    NothingLeftOpen
    WatchCorrect
PROPERTIES
    ImplementsRpc
