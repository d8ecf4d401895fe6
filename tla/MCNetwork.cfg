CONSTANTS
  Networks = {home, campus}
  Secured = {home, campus}
  Enterprise = {campus}
  Attempts = 3
  MaxEntries = 2
SPECIFICATION Spec
CHECK_DEADLOCK FALSE
INVARIANTS PastNetwork BusyIsOperation
PROPERTY Answered
