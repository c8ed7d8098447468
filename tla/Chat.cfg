SPECIFICATION Spec
CONSTANTS
    Requests = {r1, r2}
    MaxTabs = 2
    MaxPlans = 1
    PlanSteps = 1
    MaxOpened = 2
    MaxSaid = 2
    MaxTroubles = 1
SYMMETRY MCSymmetry
INVARIANTS
    TypeOK
    OneConversationPerTab
    LoadingIsOneTurn
    StepsRunOnce
    RejectedNeverRuns
CHECK_DEADLOCK FALSE
