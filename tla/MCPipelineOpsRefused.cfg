\* The first pipeline's restart is refused for ever.
SPECIFICATION FairSpec
CONSTANTS
    Pipelines <- TwoPipelines
    RestartLimit = 2
    Refused <- FirstOnly
    MaxCrashes = 0
    MaxFaults = 0
PROPERTY
    EventuallyRestarted
