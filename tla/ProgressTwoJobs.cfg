SPECIFICATION Spec
CONSTANTS
    Jobs = {"j1", "j2"}
    Objects = {1}
    Builds <- MCBuilds
    Windows = {"w1"}
    MaxSockets = 1
    MaxSaid = 5
    MaxTicks = 0
    MaxCrashes = 1
    MaxSends = 2
INVARIANTS
    NeverAhead
CHECK_DEADLOCK FALSE
