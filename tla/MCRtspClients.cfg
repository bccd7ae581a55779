CONSTANTS
  Settings <- MCSettings
  f1 = f1
  f2 = f2
  Workers = {w1, w2}
  Fds = {f1, f2}
  Playouts = {p1}
SPECIFICATION FairSpec
INVARIANTS
  SlotOwned
  ToldIsCurrent
PROPERTY
  GoneLeavesNothing
