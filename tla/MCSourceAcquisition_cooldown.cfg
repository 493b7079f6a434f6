SPECIFICATION Spec
CONSTANTS
    e1 = e1
    e2 = e2
    p1 = p1
    p2 = p2
    Providers = {p1, p2}
    Etfs <- TwoEtfs
    ProviderOf <- OfOneProvider
    MaxDate = 1
    Contents = {x, y}
    Cooldown = 2
    MaxClock = 3
    Failures = {"blocked", "timeout"}
PROPERTY CooldownSuppresses
SYMMETRY Symmetry
CHECK_DEADLOCK FALSE
