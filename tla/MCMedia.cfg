CONSTANTS
  Clients = {c1}
  Settings <- MCSettings
  Capacity = 3
  MaxWorkers = 2
  MaxPending = 2
  MaxShots = 1
SPECIFICATION MediaSpec
INVARIANTS
  MediaIsOwned
  SinksFollowCommands
  OutputIsWhole
PROPERTIES
  ViewersServed
  CallEnds
  VideoGoesOn
