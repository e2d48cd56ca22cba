SPECIFICATION Spec
CONSTANTS
  Input = {i, j}
  Control = {k}
  NoCommand = NoCommand
  Caller = {c1, c2}
  SettledMax = 1
  MaxCalls = 5
  MaxCrashes = 1
  MaxRestarts = 0
  MaxDeactivations = 1
SYMMETRY MCSymmetry
INVARIANTS TypeOK AtMostOnceInTranscript NoDoubleAdmission NoRequestStuck IndexKnowsTranscript
CHECK_DEADLOCK FALSE
