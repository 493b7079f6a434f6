SPECIFICATION FairSpec
CONSTANTS
  kodex = kodex
  ace = ace
  k1 = k1
  k2 = k2
  a1 = a1
  Cohort <- TwoProviders
  Tracked <- ThreeEtfs
  Operational <- OperationalCopy
  MaxDate = 2
  MaxFaults = 2
  MaxCrashes = 1
INVARIANT TypeOK
INVARIANT CompletedMeansReady
INVARIANT MismatchesHaveACause
PROPERTY BulkRestsOnAgreement
PROPERTY BackfillConverges
