CONSTANTS
  PipeSize = 2
  InputSize = 2
  OutputSize = 3
  ReadSize = 2
  Grace = 2
  MaxWritten = 6
  Programs <- AnyPrograms
SPECIFICATION Spec
CHECK_DEADLOCK FALSE
INVARIANT OutputKept
PROPERTIES RunEnds CancelReturns SignalsReachTheProgram
