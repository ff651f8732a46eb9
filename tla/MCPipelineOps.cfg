\* Two pipelines, a limit of one request per poll, a crash and a failed read.
SPECIFICATION FairSpec
CONSTANTS
    Pipelines <- TwoPipelines
    RestartLimit = 1
    Refused <- None
    MaxCrashes = 1
    MaxFaults = 1
INVARIANTS
    TypeOK
    FailureStaysVisible
PROPERTY
    EventuallyRestarted
