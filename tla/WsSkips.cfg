SPECIFICATION Spec
CONSTANTS
    Windows = {w1, w2}
    MaxSockets = 2
    MaxSaid = 1
    MaxSends = 1
    Messages = {m}
SYMMETRY MCSymmetry
INVARIANT ConnectedReceives
CHECK_DEADLOCK FALSE
