\* The join stops these threads for good.
CONSTANTS
  Clients = {c1}
  Settings <- MCJoinSettings
SPECIFICATION LockFairSpec
PROPERTY
  CallEnds
CHECK_DEADLOCK FALSE
