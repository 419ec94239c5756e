SPECIFICATION Spec
CONSTANTS
    NoTime = NoTime
    Shapes = {"unary", "single", "stream"}
    Deadlines = {NoTime, 0, 1}
    MaxTime = 1
    MaxMessages = 2
    MaxChunk = 2
INVARIANTS
    SuccessIsComplete
    HonestOutcome
PROPERTIES
    ImplementsRpc
    CallEnds
