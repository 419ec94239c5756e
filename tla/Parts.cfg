SPECIFICATION PartsSpec
CONSTANTS
    Names = {"Accept", "accept", "te"}
    Keys = {"accept", "te"}
    Lower <- MCLower
    Values = {"gzip", "br"}
    Absent = Absent
    MaxValues = 2
    Milli = 2
    Second = 3
    Minute = 7
    Hour = 20
    MaxValue = 5
    MaxMillis = 30
    Timeouts <- MCTimeouts
    Delays = {0, 1, 9}
    Foreign = {0, 1, 4, 5, 40}
    MaxHops = 3
    a = a
    b = b
    c = c
    d = d
    Files <- MCFiles
    Imports <- MCImports
    Descs <- MCDescs
    Streams = {s1, s2}
    NoFile = NoFile
    MaxRequests = 3
    Contexts = {c1, c2, c3}
    NoContext = NoContext
    Responses = {r1, r2}
    Calls = {x1, x2, x3}
    Tasks = {t1, t2}
    NoSpan = NoSpan
    Ambient = Ambient
    MaxToggles = 5
    MaxSize = 3
    MaxMembers = 3
    Limits = {0, 1, 3, 5}
    NoLimit = NoLimit
    MaxMessages = 2
    Accepts <- MCAccepts
    Supports <- MCSupports
    MetadataNames = {"n"}
INVARIANTS
    DeadlineHonest
    ReflectionCorrect
    MetadataCorrect
    TelemetryCorrect
    TracedOnce
    DecompressionCorrect
    ExchangeHonest
PROPERTIES
    ImplementsMultimap
CHECK_DEADLOCK FALSE
