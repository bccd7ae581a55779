CONSTANTS
  Rings = 2
  Settings <- MCSettings
SPECIFICATION FairSpec
INVARIANT ToldWhatIs
PROPERTY RingEnds
