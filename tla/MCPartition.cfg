CONSTANTS
  SectorsPerMB = 2
  EfiMB = 1
  MsrMB = 1
  RecoveryMB = 1
  SystemReservedMB = 1
  MinWindowsMB = 1
  MaxItems = 7
  WordSize = 16
  MbrMaxSectors = 12
  PlanDisks <- SmallDisks
  CreateSizes = {1, 4, 9}
SPECIFICATION Spec
INVARIANTS TypeOK OriginalsKept EditsAccepted UefiLayoutApplies TargetCurrent ReadyCoversPlan
PROPERTY UndoRestores
