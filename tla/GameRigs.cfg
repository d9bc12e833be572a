SPECIFICATION Spec
CONSTANTS
    Parts = {"bridge", "capture", "cleaning"}
    c1 = c1
    c2 = c2
    Callers = {c1, c2}
    OpsOf <- MCOpsOf
    MaxId = 2
    Maps = {m1, m2}
    NoMap = NoMap
    MaxMishaps = 1
    Jobs = 2
    Ghosts = 2
    Retries = 1
    FailureLimit = 1
    MaxFrames = 2
    SpawnWait = 1
    Limits <- MCLimits
    Corpora <- MCCorpora
    Probes <- MCProbes
    CrumbProbes <- MCCrumbProbes
    Replays = {1, 2, 3}
    SmallMapN = 3
INVARIANTS
    BridgeHonest
    CapturesSound
    CleaningSound
PROPERTIES
    RigsComeBack
    EveryReplayJudged
CHECK_DEADLOCK FALSE
