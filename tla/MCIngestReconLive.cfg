SPECIFICATION FairSpec
CONSTANTS
    Tables = {t1, c1, c2}
    CountTables = {c1, c2}
    Keys = {k1}
    MaxVersion = 2
    MaxTime = 1
    Quiesce = 1
    Lag = 0
    SampleSize = 1
    MaxCrashes = 0
    MaxFaults = 1
    MayFail <- RetriedCalls
PROPERTY
    EventuallyReconciled
