CONSTANTS
  d0 = d0
  d1 = d1
  NoDisk = NoDisk
  Disks <- OneDisk
  Selected = d0
  Imposters <- NoTwin
  Hosts <- GoodHosts
  StartTables <- RawDisks
  Residues <- BlankOrUsed
  MayWipe = TRUE
  MaxEvents = 2
  VerifyAttempts = 2
  MaxRuns = 2
SPECIFICATION FairRecommendedSpec
PROPERTIES ImplementsStorageInstall InstallSuccessIsReal NeverRepartitionsFormatted InstallTerminates
CHECK_DEADLOCK FALSE
