SPECIFICATION Spec
CONSTANTS
    Windows = {w1,w2,w3}
    MaxSockets = 3
    MaxSaid = 2
    MaxSends = 2
    Messages = {m}
SYMMETRY MCSymmetry
INVARIANTS
    TypeOK
    InOrder
    SkipsArePaidFor
    ServedIsListed
PROPERTY FeedSpec
CHECK_DEADLOCK FALSE
