SPECIFICATION Spec
CONSTANTS
    a = a
    b = b
    Clients = {a, b}
    NoClient = NoClient
    NamePart <- AInB
    Configs <- OneConfig
    Targets <- OneTarget
    SchemaKey <- KeyOfSuffix
    NameKey <- KeyOfName
    SharedKey <- Shared
    BatchSize = 2
    Snapshots = {2}
    MaxEdits = 0
    MaxFaults = 0
INVARIANT
    RegistryListsGenerated
