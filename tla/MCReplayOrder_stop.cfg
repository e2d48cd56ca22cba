SPECIFICATION Spec
CONSTANTS
  Branches = 3
  Steps = 2
  Endings = {"stop"}
  MaxLives = 3
INVARIANT ReplayAgrees
CHECK_DEADLOCK FALSE
