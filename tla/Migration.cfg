SPECIFICATION Spec
CONSTANTS
    Kind = "sql"
    Objects = {1, 2}
    Keys = {1, 2, 3}
    Columns = {"a", "b"}
    Extras = {"bare", "indexed"}
    BareExtras = "bare"
    Days = {1}
    MaxVersion = 4
    MaxJobs = 2
    RegistrySize = 1
    BatchSize = 1
    Keyed = {1, 2}
    Rejected = {}
    IgnoresDuplicates = TRUE
    AtomicDDL = FALSE
    InitialSources <- MCOneSource
    InitialTargets <- MCOneTarget
    MaxWrites = 1
    MaxCrashes = 0
INVARIANTS
    TypeOK
    SchemaReached
    
PROPERTIES
    JobSpec
    NoRowLost
    ArchivesFrozen
    OnlyChosenChange
CHECK_DEADLOCK FALSE
