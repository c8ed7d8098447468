SPECIFICATION Spec
CONSTANTS
    Requests = {r1, r2}
    MaxTabs = 2
    MaxPlans = 2
    PlanSteps = 1
    MaxOpened = 1
    MaxSaid = 4
    MaxTroubles = 0
PROPERTY CardStaysUntilDecided
CHECK_DEADLOCK FALSE
