SPECIFICATION Spec
CONSTANTS
    Parts = {"http", "listing", "migrations", "replays"}
    Backoff <- MCBackoff
    JitterLo = 75
    JitterHi = 125
    MaxTotal = 7
    Hints = {0, 3, 7}
    TokenUnit = 2
    Capacity = 2
    MaxVersion = 3
    MaxCalls = 3
    MaxMap = 4
    Nameless = {2}
    PageSize = 1
    MaxMaps = 0
    RandomCount = 2
    MaxListings = 2
    Files <- MCFiles
    Runners = {r1, r2}
    MaxCrashes = 1
    p1 = p1
    p2 = p2
    a = a
    Replays = {p1, p2}
    Bytes <- MCBytes
    Parsers = {q1}
    PerMap = 2
    MaxRuns = 2
    MaxDeaths = 1
INVARIANTS
    FetchSafe
    ListingRight
    SchemaSound
    ReplayFilesKept
PROPERTIES
    WorkEnds
CHECK_DEADLOCK FALSE
