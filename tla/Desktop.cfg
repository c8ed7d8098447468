SPECIFICATION FairSpec
CONSTANTS
    MaxProcs = 6
    MaxCrashes = 2
    MaxPicks = 1
    MaxTime = 1
    MaxRestarts = 1
    RestartWindow = 1
    Platforms <- MCPlatforms
INVARIANTS
    OneBackend
    QuitLeavesNothing
    RestartsBounded
PROPERTY SettlesServed
CHECK_DEADLOCK FALSE
