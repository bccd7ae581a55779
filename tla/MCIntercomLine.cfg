CONSTANTS
  Settings <- MCFairSettings
  MaxFrames = 1
SPECIFICATION FairSpec
PROPERTY LineStaysUsable
