SPECIFICATION Spec
CONSTANTS
  a = a
  b = b
  Run <- TwoRuns
  NoRun = NoRun
  Observer = Observer
  DEFAULT = 1
  INCREASE_AFTER = 2
  CEILING = 3
  RunBound = {3}
  Reply = {"completed", "refused", "refused for a while", "failed", "ended"}
  Aborts = TRUE
  MainAgent = TRUE
  MaxQueued = 2
  MaxInFlight = 2
INVARIANTS TypeOK CapWithinLimits LimitIsOfTheRuns OneVerdictPerWave
CHECK_DEADLOCK FALSE
