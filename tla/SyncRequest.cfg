SPECIFICATION Spec
CONSTANTS
    Shapes = {"unary", "single", "client_stream", "server_stream", "bidi"}
    NHooks = 2
    MaxMessages = 2
    MaxInterrupts = 1
INVARIANTS
    HooksCorrect
    ResponseCorrect
    HooksSeeOutcome
PROPERTIES
    ImplementsRpc
