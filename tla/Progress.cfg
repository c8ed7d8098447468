SPECIFICATION FairSpec
CONSTANTS
    Jobs = {"j1"}
    Objects = {1}
    Builds <- MCBuilds
    Windows = {"w1"}
    MaxSockets = 2
    MaxSaid = 4
    MaxTicks = 1
    MaxCrashes = 1
    MaxSends = 2
INVARIANTS
    AllHeardAllShown
PROPERTIES
    ShownIsFinal
    WatchedUnlessMissed
CHECK_DEADLOCK FALSE
