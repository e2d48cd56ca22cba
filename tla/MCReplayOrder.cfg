SPECIFICATION FairSpec
CONSTANTS
  Branches = 3
  Steps = 2
  Endings = {"crash", "torn"}
  MaxLives = 3
INVARIANTS ReplayAgrees NothingHeldInVain
PROPERTIES ScheduleIsStable RunEnds
CHECK_DEADLOCK FALSE
