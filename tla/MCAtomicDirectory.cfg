SPECIFICATION Spec
CONSTANTS
  cli = cli
  desktop = desktop
  Process <- MCProcess
  None = None
  Torn = Torn
  NoMarker = NoMarker
  Idle = Idle
  MaxInstalls = 2
  MaxCrashes = 2
  MaxFailures = 2
SYMMETRY Alike
INVARIANTS NothingLost ReadsCommitted
CHECK_DEADLOCK FALSE
