SPECIFICATION FairSpec
CONSTANTS
    Flows = {f1}
    MetricsOnly = {}
    Keys = {k1}
    MaxVersion = 1
    MaxUpdates = 2
    MaxTime = 3
    TicksPerSecond = 2
    MaxFailures = 1
    MayFail <- RetriedCalls
INVARIANTS
    TypeOK
    NothingSkipped
    OneReadyPerFlow
PROPERTY
    EventuallyEvaluated
    ImplementsFeed
