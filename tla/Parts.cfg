SPECIFICATION PartsSpec
CONSTANTS
    Pids = {0, 1, 2, 3}
    Databases = {"d1", "d2"}
    FirstDatabase = "d1"
    Engine = "postgres"
    Snapshots <- MCSnapshots
    MaxReads = 3
    MaxMounts = 2
    Names = {"a", "b", "c"}
    Types = {"int", "text"}
    Conns = {"c1", "c2"}
    Tables = {"t1", "t3"}
    ConnOf <- MCConnOf
    ColumnsOf <- MCColumnsOf
    Drafts <- MCDrafts
    MaxTabs = 2
    Budgets <- MCBudgets
    Connections = {"pg", "my"}
    SchemaCapable = {"pg"}
    HealthFirst = {"pg"}
    DbLists <- MCDbLists
    Schemas = {"s1", "s2"}
    DefaultSchema = "s1"
    MaxTreeCalls = 4
    Collections = {"a", "b"}
    PagesOf <- MCPagesOf
    MaxRequests = 4
    FileTables = {"big", "new"}
    Existing = {"big"}
    Constraints = {"n1", "n2"}
    TableOf <- MCTableOf
    MaxTx = 2
    Executions = {1, 2, 3}
    FetchLimit = 1
    MaxQueryHistory = 2
    MaxOverlap = 1
    MaxPanels = 2
    Targets = {"a", "b", "json"}
    SqlTargets = {"a", "b"}
    MaxEffects = 4
    Requests = {"r1", "r2"}
    Updates = {1, 2}
    Readers = {"g1", "g2", "g3"}
    Saves = {1, 2}
    Admins = {"a1", "a2", "a3"}
    Callers = {"c1"}
INVARIANTS
    PartsTyped
    NewestShowsHeader
    EverySessionHasOnePlace
    AdviceAimsAtHolders
    RunningIsACall
    
    SpinnersEnd
    SavedWhereRead
    
    HistoryKeeps
    ProposesOwnNames
    ChangesTakeHold
CHECK_DEADLOCK FALSE
