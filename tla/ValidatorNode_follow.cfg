SPECIFICATION FairSpec
CONSTANTS
  MaxHeight = 3
  Deliveries = 2
  Repeated = {1, 2, 3}
  Engines = {"mock"}
  Faults = {}
CHECK_DEADLOCK FALSE
INVARIANT
  HeadMatchesTip
PROPERTY
  FollowsCluster
