SPECIFICATION Spec
CONSTANTS
    Tables = {c1}
    CountTables = {c1}
    Keys = {k1}
    MaxVersion = 2
    MaxTime = 1
    Quiesce = 1
    Lag = 0
    SampleSize = 1
    MaxCrashes = 0
    MaxFaults = 0
    MayFail = {}
INVARIANT
    CountedIsIngested
