SPECIFICATION ClosureSpec
CONSTANTS
    Commands = {c1, c2, c3}
    Messages = {m1}
    Aliases = {a1, a2}
    ApprovalPaths <- TemplateOnly
    LiveFlags <- LiveOnly
    HandoffStates <- Deliverable
    NoAlias = NoAlias
    MaxClock = 0
    Overlap = FALSE
INVARIANTS ClosureMetMeansDelivered ClosureStaysFounded
SYMMETRY Symmetry
CHECK_DEADLOCK FALSE
