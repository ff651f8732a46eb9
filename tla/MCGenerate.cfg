SPECIFICATION Spec
CONSTANTS
    a = a
    b = b
    Clients = {a, b}
    NoClient = NoClient
    NamePart <- AInB
    Configs <- SmallConfigs
    Targets <- TwoTargets
    SchemaKey <- KeyOfSuffix
    NameKey <- KeyOfName
    SharedKey <- Shared
    BatchSize = 2
    Snapshots = {2}
    MaxEdits = 1
    MaxFaults = 1
INVARIANTS
    TypeOK
    SchemaOutlivesBundle
    RegisteredExists
    FullRunRegistersAll
    SuccessIsComplete
    PipelinesDisjoint
    ScriptsMatchPipelines
    ResolvedAsDeclared
    WatchesWhatIsIngested
