SPECIFICATION FairSpec
CONSTANTS
  Input = {i}
  Control = {k}
  NoCommand = NoCommand
  Caller = {c1, c2, c3}
  SettledMax = 1
  MaxCalls = 3
  MaxCrashes = 0
  MaxRestarts = 1
  MaxDeactivations = 0
PROPERTIES EveryCallAnswered RestartCompletes
CHECK_DEADLOCK FALSE
