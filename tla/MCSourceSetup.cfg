SPECIFICATION FairSpec
CONSTANTS
    Tables = {1, 2}
    LoginKnown = TRUE
    MaxDdl = 2
    MaxLists = 1
    MaxStops = 1
INVARIANTS
    TypeOK
    PreparedIsReadable
    ReportDecides
PROPERTY
    RetriesConverge
