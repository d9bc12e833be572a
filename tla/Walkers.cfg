SPECIFICATION Spec
CONSTANTS
    Parts = {"grammar", "clips", "mining", "rig"}
    Catalogue <- MCCatalogue
    GridMin = 0
    GridMax = 5
    GroundY = 0
    MaxY = 2
    Grammar <- MCGrammar
    Jumps <- MCJumps
    WalkRequests <- MCWalkRequests
    MinMaps = 2
    GapFactor = 2
    NoClipFactor = 2
    MaxLevels = 2
    VocabRounds = 3
    PerBlock = 4
    MaxExpansions = 12
    MaxAttempts = 2
    RouteClips = {"road", "water"}
    ClipRequests <- MCClipRequests
    ClipExpansions = 6
    StatMaps <- MCStatMaps
    Environment <- MCEnvironment
    Placed <- MCPlaced
    PathVersions <- MCPathVersions
    Geometry <- MCGeometry
    MaxBuilds = 2
    MaxHitches = 1
    a1 = a1
    Agents = {a1}
    NoAgent = NoAgent
    MaxJobs = 1
    MaxFaults = 2
    Timeout = 1
    Extra = 1
    OpenWait = 1
    ValidateWait = 1
    MayRestart = TRUE
    MayStop = FALSE
INVARIANTS
    RouteAllowed
    ExhaustedHasNoRoute
    ClipRouteRuns
    StatisticsSound
PROPERTIES
    WalkersAsStack
    WaitsEnd
CHECK_DEADLOCK FALSE
