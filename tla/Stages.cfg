SPECIFICATION Spec
CONSTANTS
    Parts = {"commands", "graph", "routes", "blocks"}
    MaxNews = 1
    MaxErrors = 1
    MaxLosses = 1
    MaxRuns = 1
    MaxPasses = 2
    GraphMaps = {1, 2, 3}
    Layouts <- MCLayouts
    Builders = {w1, w2}
    StrongMaps = {1}
    BrokenMaps = {2}
    MaxReparses = 1
    MaxBreaks = 1
    GroundY = 0
    Cone <- MCCone
    NearRadius = 1
    VerticalExt = 1
    AnchorRadius = 1
    Bases <- MCBases
    Geometry <- MCGeometry
    LearnedScores = {2, 8}
    Seeds <- MCSeeds
    TopK = 2
    ValidatorCap = 3
    ConfidenceFloor = 3
    MaxRescores = 1
    MaxArtifacts = 1
    AiBases <- MCAiBases
    Rows <- MCRows
    PairCounts <- MCPairs
    TripleCounts <- MCTriples
    BeamWidths = {1, 3}
    MaxDepth = 5
    TopChildren = 2
INVARIANTS
    StagesInOrder
    
    EdgesSound
    VerifiedRunsThrough
    LearnedDecides
    SynthesisSound
PROPERTIES
    PipelineEnds
CHECK_DEADLOCK FALSE
