SPECIFICATION FairSpec
CONSTANTS
    Jobs = {"j1"}
    Objects = {1}
    Builds <- MCBuilds
    Windows = {"w1"}
    MaxSockets = 1
    MaxSaid = 3
    MaxTicks = 0
    MaxCrashes = 0
    MaxSends = 2
PROPERTIES
    RunIsWatched
CHECK_DEADLOCK FALSE
