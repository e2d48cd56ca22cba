SPECIFICATION Spec
CONSTANTS
  Input = {i}
  Control = {k}
  NoCommand = NoCommand
  Caller = {c1, c2}
  SettledMax = 1
  MaxCalls = 3
  MaxCrashes = 0
  MaxRestarts = 1
  MaxDeactivations = 0
INVARIANT AtMostOnceInTranscript
CHECK_DEADLOCK FALSE
