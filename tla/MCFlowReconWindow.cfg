SPECIFICATION Spec
CONSTANTS
    Flows = {f1, m1}
    MetricsOnly = {m1}
    Keys = {k1}
    MaxVersion = 1
    MaxUpdates = 2
    MaxTime = 3
    TicksPerSecond = 2
    MaxFailures = 0
    MayFail <- RetriedCalls
INVARIANT WholeWindowSummed
