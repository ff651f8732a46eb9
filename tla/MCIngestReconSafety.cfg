SPECIFICATION Spec
CONSTANTS
    Tables = {t1, c1}
    CountTables = {c1}
    Keys = {k1}
    MaxVersion = 2
    MaxTime = 2
    Quiesce = 1
    Lag = 0
    SampleSize = 1
    MaxCrashes = 1
    MaxFaults = 1
    MayFail <- SurvivableCalls
INVARIANTS
    TypeOK
    GateSound
    ConfirmedIngested
    NothingUnlisted
    WatermarksPublished
    OneReadyPerHead
    MergedAfterChange
PROPERTIES
    ImplementsGate
    DetectedOnce
