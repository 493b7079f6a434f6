SPECIFICATION FairSpec
CONSTANTS
    run1 = run1
    narrow = narrow
    wide = wide
    targets = targets
    quotes = quotes
    filings = filings
    profile = profile
    Runs = {run1}
    Requests <- TwoRequests
    TargetsOf <- SameTargets
    Providers <- TwoProviders
    CategoryOf <- OwnCategory
    Categories <- BothCategories
    Covers <- CoversAll
    MaxCrashes = 1
INVARIANT TypeOK
PROPERTIES DeliverableIsAnswered DeliverableEvidenceIsExact RetriesConverge
CHECK_DEADLOCK FALSE
