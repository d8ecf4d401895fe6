CONSTANTS
  d0 = d0
  d1 = d1
  NoDisk = NoDisk
  Disks <- TwoDisks
  Selected = d0
  Imposters <- NoTwin
  Hosts <- PoorHosts
  StartTables <- Partitioned
  Residues <- BlankOrUsed
  MayWipe = TRUE
  MaxEvents = 3
SPECIFICATION FormatSpec
INVARIANTS FormatTypeOK PartialFormatLocated
PROPERTIES FormatsOnlyCheckedPartition FormatSuccessMeansInstalled
