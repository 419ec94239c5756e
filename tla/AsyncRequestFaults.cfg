SPECIFICATION Spec
CONSTANTS
    Shapes = {"get", "post", "single", "client_stream", "server_stream", "bidi"}
    NHooks = 1
    NoTime = NoTime
    Deadlines = {NoTime, 0, 2}
    MaxTime = 2
    MaxChunks = 2
    MaxMessages = 2
    MaxCancels = 1
    MaxInterrupts = 1
    LateAccept = TRUE
INVARIANTS
    EndIsHonest
    NothingLeftOpen
PROPERTIES
    ImplementsRpc
