\* Every line fits the deque; two runs, one thread that cannot be started.
SPECIFICATION Spec
CONSTANTS
    p1 = p1
    s1 = s1
    Pollers <- MCPollers
    Streams <- MCStreams
    Cap = 3
    MaxRuns = 2
    MaxLines = 3
    MaxFaults = 1
INVARIANTS ReadersSeeTheTruth
PROPERTIES BusyEnds
CHECK_DEADLOCK FALSE
