SPECIFICATION FairSpec
CONSTANTS
    Tables = {c1}
    CountTables = {c1}
    Keys = {k1}
    MaxVersion = 1
    MaxTime = 0
    Quiesce = 1
    Lag = 0
    SampleSize = 1
    MaxCrashes = 1
    MaxFaults = 0
    MayFail = {}
PROPERTY
    ClaimedIsAdvanced
