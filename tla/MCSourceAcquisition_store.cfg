SPECIFICATION Spec
CONSTANTS
    e1 = e1
    e2 = e2
    p1 = p1
    p2 = p2
    Providers = {p1, p2}
    Etfs <- TwoEtfs
    ProviderOf <- OfTwoProviders
    MaxDate = 2
    Contents = {x, y}
    Cooldown = 1
    MaxClock = 0
    Failures = {"blocked", "invalid", "unavailable"}
INVARIANTS TypeOK SummaryIsTrue
PROPERTY StoreIsKept
SYMMETRY Symmetry
CHECK_DEADLOCK FALSE
