CONSTANTS
  d0 = d0
  d1 = d1
  NoDisk = NoDisk
  Disks <- OneDisk
  Selected = d0
  Imposters <- NoTwin
  Hosts <- GoodHosts
  StartTables <- DataDisks
  Residues <- BlankOrUsed
  MayWipe = TRUE
  MaxEvents = 1
  VerifyAttempts = 2
  MaxRuns = 1
SPECIFICATION RecommendedSpec

PROPERTY PartitionsOnlyRawDisk
CHECK_DEADLOCK FALSE
