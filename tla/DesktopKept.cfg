SPECIFICATION Spec
CONSTANTS
    MaxProcs = 6
    MaxCrashes = 2
    MaxPicks = 1
    MaxTime = 1
    MaxRestarts = 1
    RestartWindow = 1
    Platforms <- MCPlatforms
PROPERTY ServedIsKept
CHECK_DEADLOCK FALSE
