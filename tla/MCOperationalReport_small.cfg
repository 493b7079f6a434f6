SPECIFICATION FairSpec
CONSTANTS
  e1 = e1
  e2 = e2
  Etfs <- TwoEtfs
  MinEligible = 2
  MaxDate = 3
  Observed = 3
  Initially <- ApartAtFirst
  Updatable <- OneRevised
  MaxUpdates = 1
  MaxExports = 2
  MaxFaults = 1
INVARIANT TypeOK
INVARIANT ReportedRowsWereChecked
INVARIANT ReadyIsOneExport
INVARIANT AnnouncedWhole
PROPERTY ReadyVerdictsGetReported
