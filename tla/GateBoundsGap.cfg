\* One capture with two holes: the one with more samples is the shorter one.
SPECIFICATION Spec
CONSTANTS
    Parts = {"telemetry"}
    GridCells = 6
    GridWidth = 3
    DepthCap = 3
    HardCap = 50
    ParseResults <- MCParses
    Surveys <- MCSurveys
    RunCounts = {0, 1}
    DecoThreshold = 2
    TopN = 3
    MaxParses = 2
    MaxCleaned = 2
    Catalogue <- MCCatalogue
    GridMin = 0
    GridMax = 5
    GroundY = 0
    MaxY = 2
    MaxPerCell = 2
    ItemRadius = 1
    CheckpointWindow = 1
    Layouts <- MCLayouts
    Captures <- MCGapCaptures
    ItemParses <- MCItems
    BakedParses <- MCBaked
    MaxGapM = 100
    Library <- MCLibrary
    RouteVersions = {"0.1"}
    MinReplays = 2
    BinSize = 5
    MinSamples = 2
    Boundaries = 2
    MaxExtracts = 3
    MaxCuts = 1
    MaxCommands = 5
INVARIANT GateBoundsGap
CHECK_DEADLOCK FALSE
