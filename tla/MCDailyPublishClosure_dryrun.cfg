SPECIFICATION ClosureSpec
CONSTANTS
    Commands = {c1, c2}
    Messages = {m1}
    Aliases = {a1}
    ApprovalPaths <- TemplateOnly
    LiveFlags <- BothFlags
    HandoffStates <- AnyHandoff
    NoAlias = NoAlias
    MaxClock = 0
    Overlap = FALSE
INVARIANT ClosureMetMeansDelivered
SYMMETRY Symmetry
CHECK_DEADLOCK FALSE
