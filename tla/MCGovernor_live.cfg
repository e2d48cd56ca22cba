SPECIFICATION FairSpec
CONSTANTS
  a = a
  b = b
  Run <- TwoRuns
  NoRun = NoRun
  Observer = Observer
  DEFAULT = 1
  INCREASE_AFTER = 1
  CEILING = 3
  RunBound = {}
  Reply = {"completed", "refused", "refused for a while"}
  Aborts = FALSE
  MainAgent = FALSE
  MaxQueued = 2
  MaxInFlight = 3
INVARIANT NobodyForgotten
PROPERTY RunIsServed
CHECK_DEADLOCK FALSE
