SPECIFICATION Spec
CONSTANTS
    Commands = {c1, c2}
    Messages = {m1}
    Aliases = {a1, a2}
    ApprovalPaths <- BothPaths
    LiveFlags <- LiveOnly
    HandoffStates <- NotUserReady
    MaxClock = 0
    Overlap = TRUE
INVARIANTS TypeOK OnlyApprovedIsDelivered SentReceiptIsTrue
SYMMETRY Symmetry
CHECK_DEADLOCK FALSE
