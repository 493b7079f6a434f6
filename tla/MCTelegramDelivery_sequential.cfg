SPECIFICATION Spec
CONSTANTS
    Commands = {c1, c2, c3}
    Messages = {m1}
    Aliases = {a1}
    ApprovalPaths <- TemplateOnly
    LiveFlags <- BothFlags
    HandoffStates <- NotUserReady
    MaxClock = 1
    Overlap = FALSE
INVARIANTS DeliveryIsRecorded
PROPERTIES SentReceiptBlocksCall NoSilentDuplicate ReceiptsAreALedger
SYMMETRY Symmetry
CHECK_DEADLOCK FALSE
