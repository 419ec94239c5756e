SPECIFICATION LoopsSpec
CONSTANTS
    Deadline = 2
    Cleanup = 2
    MaxTime = 8
    Never = Never
    MaxLifespans = 2
    MaxInterceptors = 3
    MaxItems = 2
INVARIANTS
    TrioSafe
    LifespanHonest
    Nested
    OutcomePropagates
PROPERTIES
    TrioEnds
CHECK_DEADLOCK FALSE
