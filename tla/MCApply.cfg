CONSTANTS
  d0 = d0
  d1 = d1
  NoDisk = NoDisk
  Disks <- TwoDisks
  Selected = d0
  Imposters <- NoTwin
  Hosts <- PoorHosts
  StartTables <- AllDisks
  Residues <- NoResidue
  MayWipe = TRUE
  MaxEvents = 3
  VerifyAttempts = 2
SPECIFICATION ApplySpec
INVARIANTS ApplyTypeOK BlockedLeftDiskAlone
PROPERTIES WritesOnlySafeTarget ReportsSuccessTruthfully
