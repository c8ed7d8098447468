SPECIFICATION FairSpec
CONSTANTS
    Kind = "mongo"
    Objects = {1, 2}
    Keys = {1, 2}
    Columns = {}
    Extras = {"bare", "indexed"}
    BareExtras = "bare"
    Days = {1}
    MaxVersion = 4
    MaxJobs = 2
    RegistrySize = 1
    BatchSize = 2
    Keyed = {1, 2}
    Rejected = {2}
    IgnoresDuplicates = TRUE
    AtomicDDL = FALSE
    InitialSources <- MCMongoSource
    InitialTargets <- MCMongoTarget
    MaxWrites = 1
    MaxCrashes = 1
INVARIANTS
    JobPromises
    ProgressIsHonest
PROPERTIES
    EveryJobEnds
CHECK_DEADLOCK FALSE
