SPECIFICATION FairSpec
CONSTANTS
  Actor = {1, 2, 3}
  Rank <- MCRank
  MaxAsks <- MCMaxAsks
  Limit = {1, 3}
  InitialLimit = 3
  REPAIR_ATTEMPTS = 1
  NUDGE_ATTEMPTS = 1
  MaxRetunes = 2
  MaxAborts = 1
INVARIANTS TypeOK SeatsAddUp ParkedOnlyWhenFull NoIdleRoom
PROPERTIES NoOvertaking RequestsWithinBound EveryAskSettles
CHECK_DEADLOCK FALSE
