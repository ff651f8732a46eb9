SPECIFICATION Spec
CONSTANTS
    Tables = {t1}
    CountTables = {}
    Keys = {k1}
    MaxVersion = 2
    MaxTime = 2
    Quiesce = 1
    Lag = 0
    SampleSize = 1
    MaxCrashes = 0
    MaxFaults = 1
    MayFail = {"commitTimes"}
INVARIANT
    WrittenAfterChange
