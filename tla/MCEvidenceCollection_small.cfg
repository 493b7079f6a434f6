SPECIFICATION FairSpec
CONSTANTS
    t1 = t1
    t2 = t2
    news = news
    batch = batch
    filings = filings
    Tickers = {t1, t2}
    FindsOf <- Finds
    Boards <- SomeBoards
    NoTicker = NoTicker
    MaxTargets = 2
    Providers <- ThreeProviders
    CategoryOf <- Category
    KindOf <- Kind
    Cap = 1
    MaxAttempts = 2
    DurationOf <- Duration
    Failures = {"rate_limited_exhausted", "blocked", "credential_required"}
    MaxClock = 1
    MaxCrashes = 1
INVARIANTS TypeOK RefusedAreLeftAlone SummaryTellsTheEvidence NothingIsLost
PROPERTY CollectionEnds
CHECK_DEADLOCK FALSE
